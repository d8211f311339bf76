--------------------------- MODULE AdvicePageProofs ---------------------------
(* Proofs about AdvicePage for any answers, any year and any band.             *)
EXTENDS AdvicePage, FiniteSetTheorems, TLAPS

-----------------------------------------------------------------------------
(* Types.                                                                     *)

\* Before an answer, and after the page was left, there is no year and no panel.
LEMMA NothingYet ==
    /\ NoAdvice.year = Missing /\ NoAdvice.routes = <<>> /\ NoAdvice.battery = Null
BY DEF NoAdvice

\* A plate has a colour per column, whatever its number of days.
LEMMA PlateTyped ==
    ASSUME NEW days
    PROVE  /\ Blank(days) \in [0 .. days - 1 -> {"ground", "edge", "data"}]
           /\ Whole(days) \in [0 .. days - 1 -> {"ground", "edge", "data"}]
BY DEF Blank, Whole

\* What is open from the start is a panel of the page.
LEMMA OpenTyped ==
    ASSUME NEW a, a = advice'
    PROVE  OpenAtFirst(a) \subseteq Panels'
BY DEF OpenAtFirst, Panels

\* It holds when the page opens.
LEMMA PageStarts ==
    ASSUME Init
    PROVE  PageInv
<1>1. /\ page = "loading" /\ advice = NoAdvice /\ frame = FALSE /\ cursor = NoCursor
      /\ reduced \in BOOLEAN /\ grown = FALSE /\ canvas = Blank(0) /\ time = -1
      /\ open = {} /\ copied = "idle"
  BY DEF Init
<1>2. Columns = 0 .. 0 - 1
  BY <1>1, NothingYet DEF Columns, Decoded, Refused
<1>3. canvas \in [Columns -> {"ground", "edge", "data"}]
  BY <1>1, <1>2, PlateTyped
<1>4. open \subseteq Panels
  BY <1>1
<1>5. time \in -1 .. Frames
  BY <1>1, AdviceAssumption
<1>6. TypeOK
  BY <1>1, <1>3, <1>4, <1>5 DEF TypeOK
<1>7. \A d \in DOMAIN canvas : canvas[d] # "data"
  BY <1>1 DEF Blank
<1> QED BY <1>1, <1>6, <1>7 DEF PageInv

\* A plate that starts over has its columns, and their colours only from a
\* stylesheet that gives them.
LEMMA StartTyped ==
    ASSUME NEW days, NEW still, StartPlate(days, still)
    PROVE  /\ canvas' \in [0 .. days - 1 -> {"ground", "edge", "data"}]
           /\ frame' \in BOOLEAN /\ time' \in -1 .. Frames
           /\ frame' \/ (\E d \in DOMAIN canvas' : canvas'[d] = "data") => paletteFrom(colours)
<1>1. canvas' = Blank(days) \/ canvas' = Whole(days)
  BY DEF StartPlate
<1>2. canvas' \in [0 .. days - 1 -> {"ground", "edge", "data"}]
  BY <1>1, PlateTyped
<1>3. time' \in -1 .. Frames
  BY AdviceAssumption DEF StartPlate
<1>4. frame' \in BOOLEAN
  BY DEF StartPlate
<1>5. ASSUME ~paletteFrom(colours) PROVE ~frame' /\ \A d \in DOMAIN canvas' : canvas'[d] # "data"
  BY <1>5 DEF StartPlate, Blank
<1> QED BY <1>2, <1>3, <1>4, <1>5

\* The advice on the page says which columns and which panels there are.
LEMMA SameAdvice ==
    ASSUME advice' = advice, (page = "shown") <=> (page' = "shown")
    PROVE  Decoded' = Decoded /\ Columns' = Columns /\ Panels' = Panels
BY DEF Decoded, Columns, Panels

\* What React has taken down leaves nothing of the page.
LEMMA TakenDown ==
    ASSUME Unmount, page' \in {"blank", "away"}, PageInv
    PROVE  /\ canvas' \in [Columns' -> {"ground", "edge", "data"}]
           /\ ~(\E d \in DOMAIN canvas' : canvas'[d] = "data")
           /\ open' \subseteq Panels' /\ open' = {} /\ frame' = FALSE /\ cursor' = NoCursor
           /\ reduced' \in BOOLEAN /\ grown' = FALSE /\ time' \in -1 .. Frames /\ copied' = "idle"
<1>1. Columns' = 0 .. 0 - 1
  BY DEF Columns, Decoded, Refused
<1>2. canvas' = Blank(0)
  BY DEF Unmount
<1>3. /\ canvas' \in [Columns' -> {"ground", "edge", "data"}]
      /\ ~(\E d \in DOMAIN canvas' : canvas'[d] = "data")
  BY <1>1, <1>2 DEF Blank
<1>4. time' \in -1 .. Frames
  BY AdviceAssumption DEF Unmount
<1> QED BY <1>3, <1>4 DEF Unmount, PageInv, TypeOK

\* A frame leaves every column with a colour, and is the last one or not.
LEMMA FrameTyped ==
    ASSUME PageInv, NEW t \in -1 .. Frames, Frame(t)
    PROVE  /\ canvas' \in [Columns -> {"ground", "edge", "data"}]
           /\ frame' \in BOOLEAN /\ time' \in -1 .. Frames /\ paletteFrom(colours)
<1>1. \A d \in Columns : canvas[d] \in {"ground", "edge", "data"}
  BY DEF PageInv, TypeOK
<1>2. canvas' = [d \in Columns |->
                    IF d < ColumnsAt(t, Decoded.days) THEN "data"
                    ELSE IF t < Frames /\ d = ColumnsAt(t, Decoded.days) THEN "edge"
                    ELSE canvas[d]]
  BY DEF Frame
<1>3. frame' \in BOOLEAN /\ time' = t /\ paletteFrom(colours)
  BY DEF Frame, PageInv
<1> QED BY <1>1, <1>2, <1>3

\* Every step keeps it.
LEMMA PageSteps ==
    ASSUME PageInv, [Next]_vars
    PROVE  PageInv'
<1> USE DEF PageInv, TypeOK
<1>1. ASSUME page = "loading", page' = "failed", UNCHANGED <<advice, colours, reduced>>, Nothing
      PROVE  PageInv'
  <2>1. UNCHANGED <<grown, canvas, time, frame, cursor, open, copied>>
    BY <1>1 DEF Nothing
  <2> QED BY <1>1, <2>1, SameAdvice
<1>2. ASSUME NEW body \in Bodies, Arrives(body) PROVE PageInv'
  <2>1. CASE page' = "failed"
    BY <1>1, <1>2, <2>1 DEF Arrives
  <2>2. CASE page' = "blank"
    <3>1. isAdvice(body) /\ ~Builds(body) /\ advice' = body /\ Unmount
      BY <1>2, <2>2 DEF Arrives
    <3>2. ~(Renders(body) /\ ReadsYear(body.year))
      BY <3>1 DEF Builds
    <3> QED BY <2>2, <3>1, <3>2, TakenDown
  <2>3. CASE page' \notin {"failed", "blank"}
    <3>1. /\ isAdvice(body) /\ Builds(body) /\ page' = "shown" /\ advice' = body
          /\ StartPlate(Decoded'.days, reduced) /\ open' = OpenAtFirst(body)
          /\ page = "loading" /\ UNCHANGED <<colours, reduced, grown, cursor, copied>>
      BY <1>2, <2>3 DEF Arrives
    <3>2. /\ canvas' \in [Columns' -> {"ground", "edge", "data"}]
          /\ frame' \in BOOLEAN /\ time' \in -1 .. Frames
          /\ frame' \/ (\E d \in DOMAIN canvas' : canvas'[d] = "data") => paletteFrom(colours)
      BY <3>1, StartTyped DEF Columns
    <3>3. open' \subseteq Panels'
      BY <3>1, OpenTyped
    <3>4. /\ Renders(advice') /\ isAdvice(advice') /\ advice' \in Bodies
          /\ paletteFrom(colours') => ReadsYear(advice'.year)
      BY <3>1 DEF Builds
    <3> QED BY <3>1, <3>2, <3>3, <3>4
  <2> QED BY <2>1, <2>2, <2>3
<1>3. CASE Fails
  BY <1>1, <1>3 DEF Fails
<1>4. CASE PreferenceChanges
  <2>1. /\ advice' = advice /\ page' = page /\ reduced' = ~reduced /\ colours' = colours
        /\ UNCHANGED <<grown, cursor, open, copied>>
    BY <1>4 DEF PreferenceChanges
  <2>2. CASE page = "shown"
    <3>1. StartPlate(Decoded.days, ~reduced)
      BY <1>4, <2>2 DEF PreferenceChanges
    <3>2. /\ canvas' \in [Columns -> {"ground", "edge", "data"}]
          /\ frame' \in BOOLEAN /\ time' \in -1 .. Frames
          /\ frame' \/ (\E d \in DOMAIN canvas' : canvas'[d] = "data") => paletteFrom(colours)
      BY <3>1, StartTyped DEF Columns
    <3> QED BY <2>1, <2>2, <3>2, SameAdvice
  <2>3. CASE page # "shown"
    <3>1. UNCHANGED <<canvas, time, frame>>
      BY <1>4, <2>3 DEF PreferenceChanges
    <3> QED BY <2>1, <2>3, <3>1, SameAdvice
  <2> QED BY <2>2, <2>3
<1>5. CASE Grow
  BY <1>5, SameAdvice DEF Grow
<1>6. ASSUME NEW t \in -1 .. Frames, Frame(t) PROVE PageInv'
  <2>1. /\ page = "shown"
        /\ UNCHANGED <<page, advice, colours, reduced, grown, cursor, open, copied>>
    BY <1>6 DEF Frame
  <2> QED BY <1>6, <2>1, FrameTyped, SameAdvice
<1>7. ASSUME NEW c, Read(c) PROVE PageInv'
  <2>1. CASE page' = "blank"
    <3>1. ~ReadsYear(advice.year) /\ advice' = advice /\ Unmount /\ page = "shown"
      BY <1>7, <2>1 DEF Read
    <3> QED BY <2>1, <3>1, TakenDown
  <2>2. CASE page' # "blank"
    <3>1. /\ c = NoCursor \/ ReadsYear(advice.year)
          /\ page = "shown" /\ cursor' = c
          /\ UNCHANGED <<page, advice, colours, reduced, grown, canvas, time, frame, open, copied>>
      BY <1>7, <2>2 DEF Read
    <3> QED BY <3>1, SameAdvice
  <2> QED BY <2>1, <2>2
<1>8. ASSUME NEW p \in Panels, Toggle(p) PROVE PageInv'
  <2>1. /\ page = "shown" /\ open' \subseteq Panels
        /\ UNCHANGED <<page, advice, colours, reduced, grown, canvas, time, frame, cursor, copied>>
    BY <1>8 DEF Toggle
  <2> QED BY <2>1, SameAdvice
<1>9. CASE Copy
  BY <1>9, SameAdvice DEF Copy
<1>10. CASE Leave
  <2>1. page' = "away" /\ advice' = NoAdvice /\ Unmount
    BY <1>10 DEF Leave
  <2> QED BY <2>1, TakenDown
<1>11. CASE UNCHANGED vars
  BY <1>11, SameAdvice DEF vars
<1> HIDE DEF PageInv, TypeOK
<1>12. CASE AnswerComes
  BY <1>2, <1>3, <1>12 DEF AnswerComes
<1>13. CASE \/ PointerLeaves
            \/ \E of \in {0, Pointers} : \E across, down \in -1 .. of + 1 : Point(across, down, of)
            \/ \E key \in DOMAIN STEPS : Press(key)
  BY <1>7, <1>13 DEF PointerLeaves, Point, Press
<1>14. CASE PlateFrame
  BY <1>6, <1>14 DEF PlateFrame
<1> QED BY <1>4, <1>5, <1>8, <1>9, <1>10, <1>11, <1>12, <1>13, <1>14 DEF Next

\* What is on the page belongs to the advice on it, that passed the shape check.
THEOREM Typed == Spec => []PageInv
<1>1. Init => PageInv
  BY PageStarts
<1>2. PageInv /\ [Next]_vars => PageInv'
  BY PageSteps
<1> QED BY <1>1, <1>2, PTL DEF Spec

-----------------------------------------------------------------------------
(* The shape check.                                                           *)

\* What passed the check can be built, but for what it does not look at: the
\* year, the modelled consumption and the action of the first step.
LEMMA CheckedRenders ==
    ASSUME NEW v, isAdvice(v)
    PROVE  Renders(v) <=> /\ RendersFirst(v) /\ RendersYear(v.year)
                          /\ v.consumption \notin {Null, Nested}
<1>1. isObject(v.headline) /\ isObject(v.routes)
  BY DEF isAdvice, isPercentileBand
<1>2. ASSUME NEW r, isFiredRule(r) PROVE RendersRule(r)
  BY <1>2 DEF isFiredRule, RendersRule, isScenarioBand, RendersBand
<1>3. ASSUME NEW b, isRouteBlock(b) PROVE RendersRoute(b)
  <2>1. isObject(b) /\ isObject(b.rules) /\ \A i \in DOMAIN b.rules : RendersRule(b.rules[i])
    BY <1>2, <1>3 DEF isRouteBlock
  <2>2. isObject(b.route)
    BY <1>3, AdviceAssumption DEF isRouteBlock, isObject
  <2> QED BY <2>1, <2>2 DEF RendersRoute
<1>4. \A i \in DOMAIN v.routes : RendersRoute(v.routes[i])
  BY <1>3 DEF isAdvice
<1>5. v.battery = Null \/ RendersBattery(v.battery)
  BY DEF isAdvice, isBatteryAdvice, RendersBattery, isScenarioBand, RendersBand, isBandlessFigure
<1> QED BY <1>1, <1>4, <1>5 DEF Renders

\* A page goes blank only over something the shape check does not look at: of all
\* it looks at nothing throws, whether the page is built or a quarter is read later.
THEOREM UnlookedBlanks == Spec => []BlankOnlyUnlooked
<1>1. PageInv => BlankOnlyUnlooked
  <2> SUFFICES ASSUME PageInv, page = "blank" PROVE NotLookedAt(advice)
    BY DEF BlankOnlyUnlooked
  <2>1. isAdvice(advice) /\ ~(Renders(advice) /\ ReadsYear(advice.year))
    BY DEF PageInv
  <2>2. CASE ~ReadsYear(advice.year)
    BY <2>2 DEF ReadsYear, NotLookedAt
  <2>3. CASE ~Renders(advice)
    <3>1. \/ ~RendersFirst(advice) \/ ~RendersYear(advice.year)
          \/ advice.consumption \in {Null, Nested}
      BY <2>1, <2>3, CheckedRenders
    <3>2. ~RendersYear(advice.year) => advice.year = Null
      BY DEF RendersYear, isObject
    <3> QED BY <3>1, <3>2 DEF RendersFirst, NotLookedAt
  <2> QED BY <2>1, <2>2, <2>3
<1> QED BY <1>1, Typed, PTL

-----------------------------------------------------------------------------
(* Less movement.                                                             *)

\* Under less movement nothing on the plate moves: a preference that changes while
\* frames are asked for leaves the plate complete, and no frame comes after it.
THEOREM Still == Spec => []ReducedIsStill
<1>1. Init => ReducedIsStill
  BY DEF Init, ReducedIsStill
<1>2. PageInv /\ ReducedIsStill /\ [Next]_vars => ReducedIsStill'
  <2> SUFFICES ASSUME PageInv, ReducedIsStill, [Next]_vars PROVE ReducedIsStill'
    OBVIOUS
  <2>1. ASSUME UNCHANGED <<page, advice, colours, reduced, canvas, frame>> PROVE ReducedIsStill'
    BY <2>1, SameAdvice DEF ReducedIsStill
  <2>2. ASSUME NEW days, NEW still, StartPlate(days, still), still, paletteFrom(colours)
        PROVE  ~frame' /\ canvas' = Whole(days)
    BY <2>2 DEF StartPlate
  <2>3. CASE AnswerComes
    <3>1. ASSUME page' # "shown" PROVE ReducedIsStill'
      BY <3>1 DEF ReducedIsStill
    <3>2. ASSUME NEW body \in Bodies, Arrives(body), page' = "shown" PROVE ReducedIsStill'
      <4>1. /\ StartPlate(Decoded'.days, reduced) /\ reduced' = reduced /\ colours' = colours
        BY <3>2 DEF Arrives
      <4> QED BY <2>2, <4>1 DEF ReducedIsStill
    <3> QED BY <2>3, <3>1, <3>2 DEF AnswerComes, Fails
  <2>4. CASE PreferenceChanges
    <3>1. /\ reduced' = ~reduced /\ colours' = colours /\ page' = page /\ advice' = advice
          /\ page = "shown" => StartPlate(Decoded.days, ~reduced)
      BY <2>4 DEF PreferenceChanges
    <3> QED BY <2>2, <3>1, SameAdvice DEF ReducedIsStill
  <2>5. CASE PlateFrame
    <3>1. /\ page = "shown" /\ frame /\ UNCHANGED <<page, colours, reduced>>
      BY <2>5 DEF PlateFrame, Frame
    <3> QED BY <3>1 DEF ReducedIsStill
  <2>6. CASE Leave
    BY <2>6 DEF Leave, ReducedIsStill
  <2>7. CASE ~(AnswerComes \/ PreferenceChanges \/ PlateFrame \/ Leave)
    <3>1. page' = "blank" \/ UNCHANGED <<page, advice, colours, reduced, canvas, frame>>
      BY <2>7 DEF Next, Grow, Point, PointerLeaves, Press, Read, Toggle, Copy, vars
    <3> QED BY <2>1, <3>1 DEF ReducedIsStill
  <2> QED BY <2>3, <2>4, <2>5, <2>6, <2>7
<1> QED BY <1>1, <1>2, Typed, PTL DEF Spec

-----------------------------------------------------------------------------
(* Bands of the rules.                                                        *)

\* A set of naturals that is not empty has a least one.
LEMMA LeastOf ==
    ASSUME NEW T, T \subseteq Nat, T # {}
    PROVE  \E x \in T : \A y \in T : x <= y
<1> DEFINE R == OpToRel(<, Nat)
<1>1. IsWellFoundedOn(R, Nat)
  BY NatLessThanWellFounded
<1>2. \A x, y \in Nat : <<x, y>> \in R <=> x < y
  BY DEF OpToRel
<1> HIDE DEF R
<1>3. \E x \in T : \A y \in T : ~ (<<y, x>> \in R)
  BY <1>1, WFMin
<1>4. PICK x \in T : \A y \in T : ~ (<<y, x>> \in R)
  BY <1>3
<1>5. \A y \in T : x \in Nat /\ y \in Nat /\ ~(y < x)
  BY <1>2, <1>4
<1>6. \A y \in T : x <= y
  BY <1>5
<1> QED BY <1>6

\* A list has places from the first on.
LEMMA Places ==
    ASSUME NEW s, IsList(s)
    PROVE  DOMAIN s \subseteq Nat /\ (DOMAIN s # {} => 1 \in DOMAIN s)
<1> DEFINE R == {s[i] : i \in DOMAIN s}
<1>1. s \in Seq(R)
  BY DEF IsList
<1> HIDE DEF R
<1>2. Len(s) \in Nat /\ DOMAIN s = 1 .. Len(s)
  BY <1>1
<1> QED BY <1>2

\* The first step shows a rule of the advice, when there is one.
LEMMA FirstIsOne ==
    ASSUME NEW a, IsList(a.routes), \A i \in DOMAIN a.routes : IsList(a.routes[i].rules),
           Rules(a) # {}
    PROVE  firstActionableRule(a) \in Rules(a)
<1> DEFINE T == {i \in DOMAIN a.routes : DOMAIN a.routes[i].rules # {}}
<1>1. T \subseteq Nat
  BY Places
<1>2. \A s \in Rules(a) : s[1] \in T
  BY DEF Rules
<1>3. T # {}
  BY <1>2
<1>4. PICK i \in T : \A j \in T : i <= j
  BY <1>1, <1>3, LeastOf
<1>5. 1 \in DOMAIN a.routes[i].rules
  BY <1>4, Places
<1>6. <<i, 1>> \in Rules(a)
  BY <1>4, <1>5 DEF Rules
<1>7. \A s \in Rules(a) : i <= s[1]
  BY <1>2, <1>4
<1>8. \E r \in Rules(a) : r[2] = 1 /\ \A s \in Rules(a) : r[1] <= s[1]
  BY <1>6, <1>7
<1> QED BY <1>8 DEF firstActionableRule

\* Every rule with a saving has one figure, in the first step or in its route.
LEMMA OneFigure ==
    ASSUME NEW a, IsList(a.routes), \A i \in DOMAIN a.routes : IsList(a.routes[i].rules),
           \A r, s \in Rules(a) : RuleAt(a, r).rule_id = RuleAt(a, s).rule_id => r = s,
           NEW r \in Rules(a), RuleAt(a, r).saving # Null
    PROVE  Cardinality({f \in RuleFigures(a) : f.rule = r}) = 1
<1> DEFINE first == firstActionableRule(a)
           place == IF r = first THEN "first" ELSE "route"
           figure == [at |-> place, rule |-> r]
<1>1. first \in Rules(a)
  BY FirstIsOne
<1>2. RuleAt(a, r).rule_id = RuleAt(a, first).rule_id <=> r = first
  BY <1>1
<1>3. RuleFigures(a) =
        {[at |-> "first", rule |-> s] : s \in {s \in Rules(a) : s = first /\ RuleAt(a, s).saving # Null}}
        \cup {[at |-> "route", rule |-> s] :
                s \in {s \in Rules(a) : /\ RuleAt(a, s).saving # Null
                                        /\ RuleAt(a, s).rule_id # RuleAt(a, first).rule_id}}
  BY DEF RuleFigures
<1> HIDE DEF first
<1>4. figure \in RuleFigures(a) /\ figure.rule = r
  BY <1>2, <1>3
<1>5. ASSUME NEW f \in RuleFigures(a), f.rule = r PROVE f = figure
  <2>1. CASE \E s \in Rules(a) : s = first /\ f = [at |-> "first", rule |-> s]
    BY <1>5, <2>1
  <2>2. CASE \E s \in Rules(a) : /\ RuleAt(a, s).rule_id # RuleAt(a, first).rule_id
                                 /\ f = [at |-> "route", rule |-> s]
    BY <1>2, <1>5, <2>2
  <2> QED BY <1>3, <2>1, <2>2
<1> HIDE DEF figure
<1>6. {f \in RuleFigures(a) : f.rule = r} = {figure}
  BY <1>4, <1>5
<1> QED BY <1>6, FS_Singleton

\* Every rule with a saving has its band on the page once, for every advice the
\* service can send.
THEOREM BandsOnce ==
    ASSUME RulesFireOnce
    PROVE  Spec => []EveryBandOnce
<1>1. PageInv => EveryBandOnce
  BY OneFigure DEF PageInv, EveryBandOnce, RulesFireOnce
<1> QED BY <1>1, Typed, PTL

-----------------------------------------------------------------------------
(* The headline band.                                                         *)

\* A product keeps the order of its first factor.
LEMMA Grows ==
    ASSUME NEW a \in Int, NEW b \in Int, NEW w \in Nat, a >= b
    PROVE  a * w \in Int /\ b * w \in Int /\ a * w >= b * w
<1>1. a - b \in Nat /\ a = b + (a - b)
  OBVIOUS
<1>2. \A d \in Nat : d * w \in Nat /\ (b + d) * w = b * w + d * w
  OBVIOUS
<1>3. (a - b) * w \in Nat /\ (b + (a - b)) * w = b * w + (a - b) * w
  BY <1>1, <1>2
<1>4. a * w = b * w + (a - b) * w
  BY <1>1, <1>3
<1> QED BY <1>3, <1>4

\* A fill of a band that has an axis, and the shares of its marker and labels.
LEMMA Placed ==
    ASSUME NEW band, NEW shown \in BOOLEAN,
           {band.low, band.mid, band.high} \subseteq Int \ {Unreadable},
           band.low <= band.mid, band.mid <= band.high, band.low # 0 \/ band.high # 0
    PROVE  LET fill == Fill(band, shown)
           IN  /\ fill.left >= 0 /\ fill.right <= fill.whole
               /\ shown => /\ On(Marker(band), fill)
                           /\ On(LowLabel(band), fill) /\ On(HighLabel(band), fill)
<1> DEFINE low == band.low
           mid == band.mid
           high == band.high
           min == Lesser(0, low)
           W == Greater(0, high) - min
           s == high - low
           o == low - min
           m == mid - min
           fill == Fill(band, shown)
<1>0. low \in Int /\ mid \in Int /\ high \in Int /\ low <= mid /\ mid <= high
  OBVIOUS
<1>1. /\ W \in Nat \ {0} /\ s \in Nat /\ o \in Nat /\ m \in Nat
      /\ o <= m /\ m <= o + s /\ o + s <= W
      /\ low >= 0 => o + s = W
      /\ low < 0 => o = 0
  BY <1>0 DEF Lesser, Greater
<1>2. axisFor(low, high) = [min |-> min, max |-> Greater(0, high)]
  BY <1>0 DEF axisFor
<1>3. axisFor(low, high) # NoAxis
  BY <1>0, <1>1, <1>2 DEF NoAxis, Lesser, Greater
<1>4. /\ bandSpanFraction(low, high) = [part |-> s, whole |-> W]
      /\ bandOffsetFraction(low, high) = [part |-> o, whole |-> W]
      /\ axisPercentage(low, mid, high) = [part |-> m, whole |-> W]
  <2>1. ASSUME NEW part \in Int, 0 <= part, part <= W
        PROVE  Share(part, axisFor(low, high)) = [part |-> part, whole |-> W]
    <3>1. Within(part, 0, W) = part
      BY <1>1, <2>1 DEF Within, Lesser, Greater
    <3> QED BY <1>2, <1>3, <3>1 DEF Share
  <2>2. Share(s, axisFor(low, high)) = [part |-> s, whole |-> W]
    BY <1>1, <2>1
  <2>3. Share(o, axisFor(low, high)) = [part |-> o, whole |-> W]
    BY <1>1, <2>1
  <2>4. Share(m, axisFor(low, high)) = [part |-> m, whole |-> W]
    BY <1>1, <2>1
  <2>5. axisFor(low, high).min = min
    BY <1>2
  <2> QED BY <1>3, <2>2, <2>3, <2>4, <2>5 DEF bandSpanFraction, bandOffsetFraction, axisPercentage
<1> DEFINE width == Greater(IF shown THEN s * Floor ELSE 0, W)
           left == IF low >= 0 THEN W * Floor - width ELSE 0
<1>5. Floor \in Nat \ {0}
  BY FloorAssumption
<1>6. /\ W * Floor \in Nat /\ s * Floor \in Nat /\ o * Floor \in Nat
      /\ W <= W * Floor /\ s * Floor <= W * Floor
      /\ (o + s) * Floor = o * Floor + s * Floor
      /\ (o + s) * Floor <= W * Floor
  <2>1. Floor * W >= 1 * W /\ Floor * W = W * Floor
    BY <1>1, <1>5, Grows
  <2>2. W * Floor >= s * Floor /\ W * Floor >= (o + s) * Floor
    BY <1>1, <1>5, Grows
  <2>3. W * Floor \in Nat /\ s * Floor \in Nat /\ o * Floor \in Nat
    BY <1>1, <1>5
  <2>4. (o + s) * Floor = o * Floor + s * Floor
    BY <1>1, <1>5
  <2> QED BY <1>1, <2>1, <2>2, <2>3, <2>4
<1> HIDE DEF W, s, o, m
<1>7. width \in Nat /\ width <= W * Floor /\ (shown => s * Floor <= width)
  BY <1>1, <1>6 DEF Greater
<1>8. Fill(band, shown) = [left |-> left, right |-> left + width, whole |-> W * Floor]
  <2>1. low >= 0 => Greater(0, W * Floor - (o + s) * Floor) = 0
    BY <1>1, <1>6 DEF Greater
  <2>2. bandIsRightPinned(low) <=> low >= 0
    BY DEF bandIsRightPinned
  <2>3. low < 0 => o * Floor = 0
    BY <1>1, <1>5
  <2> QED BY <1>0, <1>4, <1>6, <1>7, <2>1, <2>2, <2>3 DEF Fill
<1>9. /\ left \in Nat /\ left + width \in Nat /\ left + width <= W * Floor
      /\ shown => left <= o * Floor /\ o * Floor + s * Floor <= left + width
  BY <1>0, <1>1, <1>6, <1>7
<1> HIDE DEF left, width
<1>10. ASSUME shown, NEW p \in Nat, o <= p, p <= o + s
       PROVE  On([part |-> p, whole |-> W], Fill(band, shown))
  <2>1. p * Floor >= o * Floor /\ (o + s) * Floor >= p * Floor /\ p * Floor \in Int
    BY <1>1, <1>5, <1>10, Grows
  <2>2. p * Floor >= left /\ left + width >= p * Floor
    BY <1>6, <1>9, <1>10, <2>1
  <2>3. (p * Floor) * W >= left * W /\ (left + width) * W >= (p * Floor) * W
    BY <1>1, <1>9, <2>1, <2>2, Grows
  <2>4. p * (W * Floor) = (p * Floor) * W
    BY <1>1, <1>5
  <2> QED BY <1>8, <2>3, <2>4 DEF On
<1>11. Marker(band) = [part |-> m, whole |-> W] /\ LowLabel(band) = [part |-> o, whole |-> W]
  BY <1>4 DEF Marker, LowLabel
<1>12. HighLabel(band) = [part |-> s + o, whole |-> W]
  BY <1>4 DEF HighLabel
<1>13. ASSUME shown
       PROVE  /\ On(Marker(band), Fill(band, shown))
              /\ On(LowLabel(band), Fill(band, shown)) /\ On(HighLabel(band), Fill(band, shown))
  <2>1. On([part |-> m, whole |-> W], Fill(band, shown))
    BY <1>1, <1>10, <1>13
  <2>2. o <= o /\ o <= o + s /\ s + o \in Nat /\ o <= s + o /\ s + o <= o + s
    BY <1>1
  <2>3. On([part |-> o, whole |-> W], Fill(band, shown))
    BY <1>1, <1>10, <1>13, <2>2
  <2>4. On([part |-> s + o, whole |-> W], Fill(band, shown))
    BY <1>10, <1>13, <2>2
  <2> QED BY <1>11, <1>12, <2>1, <2>3, <2>4
<1>14. Fill(band, shown).left >= 0 /\ Fill(band, shown).right <= Fill(band, shown).whole
  BY <1>8, <1>9
<1> QED BY <1>13, <1>14

\* A band without a low end stands as a piece as wide as the track is high.
LEMMA Unplaced ==
    ASSUME NEW band, NEW shown \in BOOLEAN, band.low = Unreadable
    PROVE  /\ axisFor(band.low, band.high) = NoAxis
           /\ Fill(band, shown).left >= 0
           /\ Fill(band, shown).right <= Fill(band, shown).whole
<1>1. axisFor(band.low, band.high) = NoAxis
  BY DEF axisFor
<1>2. /\ bandSpanFraction(band.low, band.high) = [part |-> 0, whole |-> 1]
      /\ bandOffsetFraction(band.low, band.high) = [part |-> 0, whole |-> 1]
  BY <1>1 DEF bandSpanFraction, bandOffsetFraction, Share
<1>3. ~bandIsRightPinned(band.low)
  BY DEF bandIsRightPinned
<1>4. Fill(band, shown) = [left |-> 0, right |-> 1, whole |-> Floor]
  BY <1>2, <1>3, FloorAssumption DEF Fill, Greater
<1> QED BY <1>1, <1>4, FloorAssumption

\* The headline's fill never leaves its track, and its marker and labels stand on
\* it once it has grown, for every band of amounts in their order.
THEOREM HeadlineStays ==
    ASSUME HeadlinesAreBands
    PROVE  Spec => []HeadlineOnTrack
<1>1. PageInv => HeadlineOnTrack
  <2> SUFFICES ASSUME PageInv, page = "shown" PROVE HeadlineOnTrack
    BY DEF HeadlineOnTrack
  <2> DEFINE band == advice.headline
             shown == reduced \/ grown
  <2>1. shown \in BOOLEAN
    BY DEF PageInv, TypeOK
  <2>2. \/ band.low = Unreadable
        \/ /\ {band.low, band.mid, band.high} \subseteq Int \ {Unreadable}
           /\ band.low <= band.mid /\ band.mid <= band.high
           /\ band.low # 0 \/ band.high # 0
    BY DEF PageInv, HeadlinesAreBands
  <2> HIDE DEF band, shown
  <2>3. CASE band.low = Unreadable
    <3>1. /\ axisFor(band.low, band.high) = NoAxis
          /\ Fill(band, shown).left >= 0
          /\ Fill(band, shown).right <= Fill(band, shown).whole
      BY <2>1, <2>3, Unplaced
    <3> QED BY <3>1 DEF HeadlineOnTrack, band, shown
  <2>4. CASE band.low # Unreadable
    <3>1. LET fill == Fill(band, shown)
          IN  /\ fill.left >= 0 /\ fill.right <= fill.whole
              /\ shown => /\ On(Marker(band), fill)
                          /\ On(LowLabel(band), fill) /\ On(HighLabel(band), fill)
      BY <2>1, <2>2, <2>4, Placed
    <3> QED BY <3>1 DEF HeadlineOnTrack, band, shown
  <2> QED BY <2>3, <2>4
<1> QED BY <1>1, Typed, PTL

-----------------------------------------------------------------------------
(* The plate: the packing of a year and its bytes.                            *)

\* Amounts in a list of naturals are bounded.
LEMMA Bounded ==
    ASSUME NEW n \in Nat, NEW g, \A i \in 1 .. n : g[i] \in Nat
    PROVE  \E x \in Nat : \A i \in 1 .. n : g[i] <= x
<1> DEFINE B(k) == \E x \in Nat : \A i \in 1 .. k : g[i] <= x
           T == {k \in 0 .. n : ~B(k)}
<1>1. CASE T # {}
  <2>1. T \subseteq Nat
    OBVIOUS
  <2>2. PICK k \in T : \A l \in T : k <= l
    BY <1>1, <2>1, LeastOf
  <2>3. B(0)
    OBVIOUS
  <2>4. k # 0 /\ k - 1 \in 0 .. n /\ k \in 1 .. n
    BY <2>2, <2>3
  <2> HIDE DEF T
  <2>5. k - 1 \notin T
    BY <2>1, <2>2, <2>4
  <2>6. PICK x \in Nat : \A i \in 1 .. k - 1 : g[i] <= x
    <3>1. B(k - 1)
      <4> HIDE DEF B
      <4> QED BY <2>4, <2>5 DEF T
    <3> QED BY <3>1
  <2> DEFINE y == IF x < g[k] THEN g[k] ELSE x
  <2>7. g[k] \in Nat
    BY <2>4
  <2>8. y \in Nat /\ x <= y /\ g[k] <= y
    BY <2>7
  <2>9. \A i \in 1 .. k : g[i] \in Nat /\ (i \in 1 .. k - 1 \/ i = k)
    BY <2>4
  <2> HIDE DEF y
  <2>10. \A i \in 1 .. k : g[i] <= y
    BY <2>6, <2>8, <2>9
  <2>11. B(k)
    BY <2>8, <2>10
  <2>12. ~B(k)
    <3> HIDE DEF B
    <3> QED BY <2>2 DEF T
  <2> QED BY <2>11, <2>12
<1>2. CASE T = {}
  <2>1. B(n)
    <3> HIDE DEF B
    <3>1. n \in 0 .. n
      OBVIOUS
    <3> QED BY <1>2, <3>1
  <2> QED BY <2>1
<1> QED BY <1>1, <1>2

\* The ceiling of a flow is a natural that no quarter is above.
LEMMA CeilingTops ==
    ASSUME NEW n \in Nat, NEW g, \A i \in 1 .. n : g[i] \in Nat
    PROVE  LET top == Max({0} \cup {g[i] : i \in 1 .. n})
           IN  top \in Nat /\ \A i \in 1 .. n : g[i] <= top
<1> DEFINE S == {0} \cup {g[i] : i \in 1 .. n}
           U == {x \in Nat : \A y \in S : y <= x}
<1>1. S \subseteq Nat /\ 0 \in S
  OBVIOUS
<1>2. U # {}
  <2>1. PICK x \in Nat : \A i \in 1 .. n : g[i] <= x
    BY Bounded
  <2>2. \A y \in S : y <= x
    BY <2>1
  <2> QED BY <2>2
<1>3. U \subseteq Nat
  OBVIOUS
<1>4. PICK u \in U : \A x \in U : u <= x
  BY <1>2, <1>3, LeastOf
<1>5. u \in S
  <2>1. ASSUME u \notin S PROVE FALSE
    <3>1. \A y \in S : y \in Nat /\ y <= u /\ y # u
      BY <1>1, <2>1
    <3>2. u \in Nat /\ u # 0
      BY <1>1, <2>1
    <3>3. u - 1 \in Nat /\ \A y \in S : y <= u - 1
      BY <3>1, <3>2
    <3>4. u <= u - 1
      BY <1>4, <3>3
    <3> QED BY <3>2, <3>4
  <2> QED BY <2>1
<1>6. \A y \in S : u >= y /\ u \in Nat
  BY <1>1
<1> HIDE DEF S, U
<1>7. Max(S) \in S /\ \A y \in S : Max(S) >= y
  BY <1>5, <1>6 DEF Max
<1>8. \A i \in 1 .. n : g[i] \in S
  BY DEF S
<1>9. Max(S) \in Nat
  BY <1>1, <1>7
<1>10. \A i \in 1 .. n : g[i] <= Max(S)
  BY <1>7, <1>8, <1>9
<1> QED BY <1>9, <1>10 DEF S

\* No quarter of a year is above its ceilings.
LEMMA Tops ==
    ASSUME NEW flows \in Flows
    PROVE  /\ Ceilings(flows).own \in Nat /\ Ceilings(flows).export \in Nat
           /\ Ceilings(flows).grid \in Nat
           /\ \A i \in DOMAIN flows :
                /\ flows[i].own \in Nat /\ flows[i].export \in Nat /\ flows[i].grid \in Nat
                /\ flows[i].own <= Ceilings(flows).own
                /\ flows[i].export <= Ceilings(flows).export
                /\ flows[i].grid <= Ceilings(flows).grid
<1> DEFINE n == Len(flows)
<1>1. /\ n \in Nat /\ DOMAIN flows = 1 .. n
      /\ \A i \in 1 .. n : flows[i] \in [own : Nat, export : Nat, grid : Nat]
  <2> DEFINE R == [own : Nat, export : Nat, grid : Nat]
  <2>1. flows \in Seq(R)
    BY DEF Flows
  <2> HIDE DEF R
  <2>2. Len(flows) \in Nat /\ DOMAIN flows = 1 .. Len(flows)
    BY <2>1
  <2>3. \A i \in 1 .. Len(flows) : flows[i] \in R
    BY <2>1
  <2> QED BY <2>2, <2>3 DEF R
<1>2. \A i \in 1 .. n : flows[i].own \in Nat /\ flows[i].export \in Nat /\ flows[i].grid \in Nat
  BY <1>1
<1> HIDE DEF n
<1>3. ASSUME NEW f \in {"own", "export", "grid"}
      PROVE  /\ Ceilings(flows)[f] \in Nat
             /\ \A i \in 1 .. n : flows[i][f] <= Ceilings(flows)[f]
  <2> DEFINE g == [i \in 1 .. n |-> flows[i][f]]
  <2>1. \A i \in 1 .. n : g[i] \in Nat
    BY <1>2
  <2>2. \A i \in 1 .. n : g[i] = flows[i][f]
    OBVIOUS
  <2> HIDE DEF g
  <2>3. LET top == Max({0} \cup {g[i] : i \in 1 .. n})
        IN  top \in Nat /\ \A i \in 1 .. n : g[i] <= top
    BY <1>1, <2>1, CeilingTops
  <2>4. {0} \cup {g[i] : i \in 1 .. n} = {0} \cup {flows[i][f] : i \in DOMAIN flows}
    BY <1>1, <2>2
  <2>5. Ceilings(flows)[f] = Max({0} \cup {flows[i][f] : i \in DOMAIN flows})
    BY DEF Ceilings
  <2> QED BY <2>2, <2>3, <2>4, <2>5
<1>4. /\ Ceilings(flows).own \in Nat /\ \A i \in 1 .. n : flows[i].own <= Ceilings(flows).own
  BY <1>3
<1>5. /\ Ceilings(flows).export \in Nat
      /\ \A i \in 1 .. n : flows[i].export <= Ceilings(flows).export
  BY <1>3
<1>6. /\ Ceilings(flows).grid \in Nat /\ \A i \in 1 .. n : flows[i].grid <= Ceilings(flows).grid
  BY <1>3
<1> QED BY <1>1, <1>2, <1>4, <1>5, <1>6

\* A scaled amount fits its scale, and is within half a step of the amount.
LEMMA ScaleFits ==
    ASSUME NEW a \in Nat, NEW c \in Nat, NEW full \in Nat, a <= c
    PROVE  /\ Scale(a, c, full) \in 0 .. full
           /\ a * full \in Nat /\ c * Scale(a, c, full) \in Nat
           /\ 2 * (c * Scale(a, c, full)) <= 2 * (a * full) + c
           /\ 2 * (a * full) <= 2 * (c * Scale(a, c, full)) + c
<1>1. CASE c = 0
  <2>1. a = 0 /\ Scale(a, c, full) = 0
    BY <1>1 DEF Scale
  <2> QED BY <1>1, <2>1
<1>2. CASE c # 0
  <2> DEFINE S == Scale(a, c, full)
             p == a * full
             n == 2 * p + c
             d == 2 * c
  <2>1. p \in Nat /\ n \in Nat /\ d \in Nat \ {0}
    BY <1>2
  <2>2. S = n \div d
    <3>1. 2 * a * full = 2 * p
      OBVIOUS
    <3> QED BY <1>2, <3>1 DEF Scale
  <2>3. c * full >= a * full /\ c * full \in Nat
    BY Grows
  <2> HIDE DEF S, p, n, d
  <2>4. S \in Nat /\ S * d <= n /\ n < S * d + d
    BY <2>1, <2>2
  <2>5. S * d = 2 * (c * S) /\ c * S \in Nat
    BY <2>4 DEF d
  <2>6. ~(full < S)
    <3>1. ASSUME full < S PROVE FALSE
      <4>1. S >= full + 1
        BY <2>4, <3>1
      <4>2. S * c >= (full + 1) * c
        BY <2>4, <4>1, Grows
      <4>3. (full + 1) * c = c * full + c /\ S * c = c * S
        BY <2>4
      <4>4. c * S >= c * full + c
        BY <4>2, <4>3
      <4>5. n <= 2 * (c * full) + c
        BY <2>1, <2>3 DEF n, p
      <4>6. 2 * (c * S) <= 2 * (c * full) + c
        BY <2>1, <2>3, <2>4, <2>5, <4>5
      <4> DEFINE x == c * full
                 y == c * S
      <4>7. x \in Nat /\ y \in Nat /\ y >= x + c /\ 2 * y <= 2 * x + c
        BY <2>3, <2>5, <4>4, <4>6
      <4> HIDE DEF x, y
      <4> QED BY <1>2, <4>7
    <3> QED BY <3>1
  <2>7. S \in 0 .. full
    BY <2>4, <2>6
  <2>8. 2 * (c * S) <= 2 * p + c /\ 2 * p <= 2 * (c * S) + c
    BY <2>1, <2>4, <2>5 DEF n, d
  <2> QED BY <2>1, <2>5, <2>7, <2>8 DEF S, p
<1> QED BY <1>1, <1>2

\* Division of a multiple and a rest.
LEMMA DivisionIs ==
    ASSUME NEW d \in Nat \ {0}, NEW q \in Int, NEW r \in 0 .. d - 1
    PROVE  /\ q * d + r \in Int
           /\ (q * d + r) \div d = q /\ (q * d + r) % d = r
<1> DEFINE n == q * d + r
<1>1. n \in Int /\ d \in Nat /\ d > 0 /\ r \in Int /\ 0 <= r /\ r < d
  OBVIOUS
<1>2. n = q * d + r
  OBVIOUS
<1> HIDE DEF n
<1>3. n % d = r
  BY <1>1, <1>2, SMTT(30)
<1>4. n >= q * d /\ n < q * d + d
  BY <1>1, <1>2, SMTT(30)
<1>5. n \div d = q
  BY <1>1, <1>4, SMTT(30)
<1> QED BY <1>1, <1>3, <1>5 DEF n

\* A magnitude is what is left of its byte, with the flag of an export or without.
LEMMA MagnitudeOf ==
    ASSUME NEW k \in 0 .. MAGNITUDE_MASK
    PROVE  /\ EXPORT_FLAG + k >= EXPORT_FLAG /\ (EXPORT_FLAG + k) % EXPORT_FLAG = k
           /\ ~(k >= EXPORT_FLAG) /\ k % EXPORT_FLAG = k
BY DEF EXPORT_FLAG, MAGNITUDE_MASK

\* The colour of a quarter read back is its state, wherever its two flows differ by
\* more than half a step of each scale.
LEMMA QuarterIsTrue ==
    ASSUME NEW flow \in [own : Nat, export : Nat, grid : Nat], flow.export = 0 \/ flow.grid = 0,
           NEW c \in [{"own", "export", "grid"} -> Nat],
           flow.own <= c.own, flow.export <= c.export, flow.grid <= c.grid,
           NEW year, NEW index, year.ceilings = c,
           byteAt(year.own, index) = Scale(flow.own, c.own, OWN_FULL_SCALE),
           byteAt(year.meter, index) = Byte(flow, c),
           Told(flow, c)
    PROVE  stateOf(reading(year, index)) = TrueState(flow)
<1> DEFINE out == flow.export > 0
           m == IF out THEN flow.export ELSE flow.grid
           top == IF out THEN c.export ELSE c.grid
           o == flow.own
           S == Scale(o, c.own, OWN_FULL_SCALE)
           M == Scale(m, top, MAGNITUDE_MASK)
<1>1. /\ o \in Nat /\ m \in Nat /\ top \in Nat /\ c.own \in Nat /\ o <= c.own /\ m <= top
      /\ flow.export \in Nat /\ flow.grid \in Nat
  OBVIOUS
<1>2. Meter(flow) = m
  BY <1>1 DEF Meter
<1>3. /\ S \in 0 .. OWN_FULL_SCALE /\ o * OWN_FULL_SCALE \in Nat /\ c.own * S \in Nat
      /\ 2 * (c.own * S) <= 2 * (o * OWN_FULL_SCALE) + c.own
      /\ 2 * (o * OWN_FULL_SCALE) <= 2 * (c.own * S) + c.own
  <2>1. OWN_FULL_SCALE \in Nat
    BY DEF OWN_FULL_SCALE
  <2> QED BY <1>1, <2>1, ScaleFits
<1>4. /\ M \in 0 .. MAGNITUDE_MASK /\ m * MAGNITUDE_MASK \in Nat /\ top * M \in Nat
      /\ 2 * (top * M) <= 2 * (m * MAGNITUDE_MASK) + top
      /\ 2 * (m * MAGNITUDE_MASK) <= 2 * (top * M) + top
  <2> HIDE DEF m, top
  <2>1. MAGNITUDE_MASK \in Nat
    BY DEF MAGNITUDE_MASK
  <2> QED BY <1>1, <2>1, ScaleFits
<1>5. byteAt(year.meter, index) = IF out THEN EXPORT_FLAG + M ELSE M
  BY DEF Byte
<1> DEFINE r == reading(year, index)
<1>6. r.own = (S * c.own) * 127
  BY DEF reading, OWN_FULL_SCALE, MAGNITUDE_MASK
<1>7. /\ r.exported <=> out
      /\ r.meter = M * 255 * top
  <2> HIDE DEF M
  <2> DEFINE b == byteAt(year.meter, index)
  <2>0. M \in 0 .. MAGNITUDE_MASK
    BY <1>4
  <2>3. /\ r.exported = (b >= EXPORT_FLAG)
        /\ r.meter = (b % EXPORT_FLAG) * 255
                     * (IF b >= EXPORT_FLAG THEN year.ceilings.export ELSE year.ceilings.grid)
    BY DEF reading, OWN_FULL_SCALE
  <2>4. b = IF out THEN EXPORT_FLAG + M ELSE M
    BY <1>5
  <2>5. top = IF out THEN year.ceilings.export ELSE year.ceilings.grid
    OBVIOUS
  <2> HIDE DEF b, r, top, out
  <2>1. CASE out
    <3>1. EXPORT_FLAG + M >= EXPORT_FLAG /\ (EXPORT_FLAG + M) % EXPORT_FLAG = M
      BY <2>0, MagnitudeOf
    <3>2. b = EXPORT_FLAG + M /\ top = year.ceilings.export
      BY <2>1, <2>4, <2>5
    <3> QED BY <2>1, <2>3, <3>1, <3>2
  <2>2. CASE ~out
    <3>1. ~(M >= EXPORT_FLAG) /\ M % EXPORT_FLAG = M
      BY <2>0, MagnitudeOf
    <3>2. b = M /\ top = year.ceilings.grid
      BY <2>2, <2>4, <2>5
    <3> QED BY <2>2, <2>3, <3>1, <3>2
  <2> QED BY <2>1, <2>2
<1>8. Most(o - m, m - o) * 2 * 255 * 127 > c.own * 127 + top * 255
  BY <1>1, <1>2 DEF Told, OWN_FULL_SCALE, MAGNITUDE_MASK
<1> HIDE DEF S, M, m, top, r
<1>9. r.own = (c.own * S) * 127 /\ r.meter = (top * M) * 255
  BY <1>1, <1>3, <1>4, <1>6, <1>7
<1>10. r.own > r.meter <=> o > m
  <2> DEFINE a == c.own * S
             b == top * M
  <2>1. a \in Nat /\ b \in Nat
    BY <1>3, <1>4
  <2>2. /\ 2 * a <= 2 * (o * 255) + c.own /\ 2 * (o * 255) <= 2 * a + c.own
        /\ 2 * b <= 2 * (m * 127) + top /\ 2 * (m * 127) <= 2 * b + top
        /\ r.own = a * 127 /\ r.meter = b * 255
    BY <1>3, <1>4, <1>9 DEF OWN_FULL_SCALE, MAGNITUDE_MASK
  <2> HIDE DEF a, b
  <2>3. CASE o > m
    <3>1. Most(o - m, m - o) = o - m
      BY <1>1, <2>3 DEF Most
    <3>2. (o - m) * 2 * 255 * 127 > c.own * 127 + top * 255
      BY <1>8, <3>1
    <3> QED BY <1>1, <2>1, <2>2, <2>3, <3>2
  <2>4. CASE ~(o > m)
    <3>1. Most(o - m, m - o) = m - o
      BY <1>1, <2>4 DEF Most
    <3>2. (m - o) * 2 * 255 * 127 > c.own * 127 + top * 255
      BY <1>8, <3>1
    <3> QED BY <1>1, <2>1, <2>2, <2>4, <3>2
  <2> QED BY <2>3, <2>4
<1>11. stateOf(r) = IF o > m THEN "own" ELSE IF out THEN "export" ELSE "offtake"
  BY <1>7, <1>10 DEF stateOf
<1> QED BY <1>2, <1>11 DEF TrueState, r

-----------------------------------------------------------------------------
(* The plate: the days of the payload and the hours of the image.             *)

\* A quarter of a day of the payload, and the cell it has in the image.
LEMMA TurnedOver ==
    ASSUME NEW days \in Nat, NEW d \in 0 .. days - 1, NEW q \in 0 .. QUARTERS_PER_DAY - 1
    PROVE  /\ d * QUARTERS_PER_DAY + q \in 0 .. days * QUARTERS_PER_DAY - 1
           /\ q * days + d \in 0 .. days * QUARTERS_PER_DAY - 1
           /\ (q * days + d) % days = d /\ (q * days + d) \div days = q
<1> DEFINE Q == QUARTERS_PER_DAY
<1>1. Q \in Nat \ {0} /\ days \in Nat \ {0} /\ d \in Int /\ q \in Int
  BY QuartersAssumption
<1> HIDE DEF Q
<1>2. q \in 0 .. Q - 1
  BY DEF Q
<1>3. d * Q \in Nat /\ q * days \in Nat /\ days * Q \in Nat
  BY <1>1, <1>2
<1>4. (days - 1) * Q >= d * Q /\ (days - 1) * Q = days * Q - Q
  <2>1. days - 1 \in Int /\ days - 1 >= d
    BY <1>1
  <2>2. (days - 1) * Q >= d * Q
    BY <1>1, <2>1, Grows
  <2>3. (days - 1) * Q = days * Q - Q
    BY <1>1
  <2> QED BY <2>2, <2>3
<1>5. (Q - 1) * days >= q * days /\ (Q - 1) * days = days * Q - days
  <2>1. Q - 1 \in Int /\ Q - 1 >= q
    BY <1>1, <1>2
  <2>2. (Q - 1) * days >= q * days
    BY <1>1, <2>1, Grows
  <2>3. (Q - 1) * days = days * Q - days
    BY <1>1
  <2> QED BY <2>2, <2>3
<1>6. d * Q + q \in 0 .. days * Q - 1
  BY <1>1, <1>2, <1>3, <1>4
<1>7. q * days + d \in 0 .. days * Q - 1
  BY <1>1, <1>3, <1>5
<1>8. (q * days + d) % days = d /\ (q * days + d) \div days = q
  BY <1>1, DivisionIs
<1> QED BY <1>6, <1>7, <1>8 DEF Q

\* The pixel of a quarter has the state of the quarter of that day and that hour.
LEMMA PixelOf ==
    ASSUME NEW year, year.days \in Nat, NEW d \in 0 .. year.days - 1,
           NEW q \in 0 .. QUARTERS_PER_DAY - 1
    PROVE  buildPixels(year)[q * year.days + d].state
               = stateOf(reading(year, d * QUARTERS_PER_DAY + q))
<1> DEFINE at == q * year.days + d
           index == (at % year.days) * QUARTERS_PER_DAY + at \div year.days
<1>1. at \in 0 .. year.days * QUARTERS_PER_DAY - 1 /\ index = d * QUARTERS_PER_DAY + q
  BY TurnedOver
<1>2. buildPixels(year)[at] = cellColour(year, index, stateOf(reading(year, index)))
  BY <1>1 DEF buildPixels
<1> HIDE DEF at, index
<1>3. buildPixels(year)[at].state = stateOf(reading(year, index))
  BY <1>2 DEF cellColour
<1> QED BY <1>1, <1>3 DEF at

\* What the page decodes of a year that was packed and not refused.
LEMMA Unpacked ==
    ASSUME NEW flows \in Flows, NEW year, year = decodeYear(encode_year(flows)), year # Refused
    PROVE  /\ year.days \in Nat /\ year.days * QUARTERS_PER_DAY = Len(flows)
           /\ year.ceilings = Ceilings(flows)
           /\ \A index \in 0 .. Len(flows) - 1 :
                /\ byteAt(year.own, index)
                       = Scale(flows[index + 1].own, Ceilings(flows).own, OWN_FULL_SCALE)
                /\ byteAt(year.meter, index) = Byte(flows[index + 1], Ceilings(flows))
<1> DEFINE n == Len(flows)
           c == Ceilings(flows)
           own == [i \in DOMAIN flows |-> Scale(flows[i].own, c.own, OWN_FULL_SCALE)]
           meter == [i \in DOMAIN flows |-> Byte(flows[i], c)]
           packed == encode_year(flows)
<1>1. n \in Nat /\ DOMAIN flows = 1 .. n
  <2> DEFINE R == [own : Nat, export : Nat, grid : Nat]
  <2>1. flows \in Seq(R)
    BY DEF Flows
  <2> HIDE DEF R
  <2> QED BY <2>1
<1>2. packed.quarters = n /\ packed.own = own /\ packed.meter = meter /\ packed.ceilings = c
  BY DEF encode_year
<1> HIDE DEF n, packed, own, meter, c
<1>3. /\ ~(n <= 0) /\ n % QUARTERS_PER_DAY = 0
      /\ year = [days |-> n \div QUARTERS_PER_DAY, own |-> own, meter |-> meter, ceilings |-> c]
  <2>1. ~ \/ packed.quarters <= 0 \/ packed.quarters % QUARTERS_PER_DAY # 0
          \/ Garbled \in {packed.own, packed.meter}
    BY DEF decodeYear, packed
  <2>2. ~(Len(packed.own) # packed.quarters \/ Len(packed.meter) # packed.quarters)
    BY <2>1 DEF decodeYear, packed
  <2>3. year = [days |-> packed.quarters \div QUARTERS_PER_DAY, own |-> packed.own,
                meter |-> packed.meter, ceilings |-> packed.ceilings]
    BY <2>1, <2>2 DEF decodeYear, packed
  <2> QED BY <1>2, <2>1, <2>3
<1>4. /\ n \div QUARTERS_PER_DAY \in Nat
      /\ (n \div QUARTERS_PER_DAY) * QUARTERS_PER_DAY = n
  <2> DEFINE Q == QUARTERS_PER_DAY
             k == n \div Q
             r == n % Q
  <2>1. Q \in Nat /\ Q > 0 /\ n \in Int
    BY <1>1, QuartersAssumption
  <2>2. k \in Int /\ k = n \div Q /\ r \in Int /\ r = n % Q /\ r = 0
    BY <1>3, <2>1
  <2>3. k \in Nat
    BY <1>1, <2>1
  <2> HIDE DEF Q, k, r
  <2>4. n = k * Q + r
    BY <2>1, <2>2
  <2>5. k * Q = n
    BY <2>1, <2>2, <2>4
  <2> QED BY <2>3, <2>5 DEF Q, k
<1>5. ASSUME NEW index \in 0 .. n - 1
      PROVE  /\ byteAt(year.own, index) = Scale(flows[index + 1].own, c.own, OWN_FULL_SCALE)
             /\ byteAt(year.meter, index) = Byte(flows[index + 1], c)
  <2>1. index + 1 \in DOMAIN flows
    BY <1>1
  <2>2. year.own = own /\ year.meter = meter
    BY <1>3
  <2>3. index + 1 \in DOMAIN own /\ index + 1 \in DOMAIN meter
    BY <2>1 DEF own, meter
  <2>4. byteAt(year.own, index) = own[index + 1] /\ byteAt(year.meter, index) = meter[index + 1]
    BY <2>2, <2>3 DEF byteAt
  <2> QED BY <2>1, <2>4 DEF own, meter
<1>6. year.days = n \div QUARTERS_PER_DAY /\ year.ceilings = c
  BY <1>3
<1> QED BY <1>4, <1>5, <1>6 DEF n, c

\* A year that renders, is not refused and has what reading it needs is read.
LEMMA ShownIsRead ==
    ASSUME NEW a, Renders(a), ReadsYear(a.year), a.year # Missing, decodeYear(a.year) # Refused
    PROVE  IsRead(a.year)
BY DEF Renders, RendersYear, ReadsYear, IsRead, isObject

\* Every quarter drawn is the state the simulation had it in, wherever its two flows
\* differ by more than half a step of each scale.
THEOREM PlateIsTrue ==
    ASSUME YearsArePacked
    PROVE  Spec => []PlateIsTheModel
<1>1. PageInv => PlateIsTheModel
  <2> SUFFICES ASSUME PageInv, NEW d \in DOMAIN canvas, canvas[d] = "data",
                      NEW q \in 0 .. QUARTERS_PER_DAY - 1,
                      Told(advice.flows[d * QUARTERS_PER_DAY + q + 1], Ceilings(advice.flows))
               PROVE  buildPixels(Decoded)[q * Decoded.days + d].state
                          = TrueState(advice.flows[d * QUARTERS_PER_DAY + q + 1])
    BY DEF PlateIsTheModel
  <2>0. paletteFrom(colours)
    BY DEF PageInv
  <2>1. d \in 0 .. Decoded.days - 1
    BY DEF PageInv, TypeOK, Columns
  <2>2. Decoded # Refused
    BY <2>1 DEF Refused
  <2>3. page = "shown" /\ advice.year # Missing /\ Decoded = decodeYear(advice.year)
    BY <2>2 DEF Decoded
  <2>4. IsRead(advice.year)
    <3>1. Renders(advice) /\ ReadsYear(advice.year)
      BY <2>3, <2>0 DEF PageInv
    <3> QED BY <2>2, <2>3, <3>1, ShownIsRead
  <2> DEFINE flows == advice.flows
             year == Decoded
             index == d * QUARTERS_PER_DAY + q
             c == Ceilings(flows)
  <2>5. flows \in Flows /\ year = decodeYear(encode_year(flows)) /\ year # Refused
    BY <2>2, <2>3, <2>4 DEF PageInv, YearsArePacked
  <2> HIDE DEF flows, year
  <2>6. /\ year.days \in Nat /\ year.days * QUARTERS_PER_DAY = Len(flows)
        /\ year.ceilings = c
        /\ \A i \in 0 .. Len(flows) - 1 :
             /\ byteAt(year.own, i) = Scale(flows[i + 1].own, c.own, OWN_FULL_SCALE)
             /\ byteAt(year.meter, i) = Byte(flows[i + 1], c)
    BY <2>5, Unpacked
  <2>7. index \in 0 .. Len(flows) - 1
    BY <2>1, <2>6, TurnedOver DEF year
  <2> DEFINE flow == flows[index + 1]
  <2>8. /\ flow \in [own : Nat, export : Nat, grid : Nat]
        /\ flow.export = 0 \/ flow.grid = 0
        /\ index + 1 \in DOMAIN flows
    <3> DEFINE R == [own : Nat, export : Nat, grid : Nat]
    <3>1. flows \in Seq(R) /\ \A i \in DOMAIN flows : flows[i].export = 0 \/ flows[i].grid = 0
      BY <2>5 DEF Flows
    <3> HIDE DEF R, index
    <3>2. index + 1 \in DOMAIN flows
      BY <2>7, <3>1
    <3>3. flows[index + 1] \in R
      BY <3>1, <3>2
    <3> QED BY <3>1, <3>2, <3>3 DEF R
  <2> HIDE DEF index
  <2>9. /\ c \in [{"own", "export", "grid"} -> Nat]
        /\ flow.own <= c.own /\ flow.export <= c.export /\ flow.grid <= c.grid
    <3>1. c.own \in Nat /\ c.export \in Nat /\ c.grid \in Nat
      BY <2>5, Tops
    <3>2. c = [f \in {"own", "export", "grid"} |-> c[f]]
      BY DEF Ceilings
    <3> HIDE DEF c
    <3>3. c \in [{"own", "export", "grid"} -> Nat]
      BY <3>1, <3>2
    <3> USE DEF c
    <3>4. flow.own <= c.own /\ flow.export <= c.export /\ flow.grid <= c.grid
      BY <2>5, <2>8, Tops
    <3> QED BY <3>3, <3>4
  <2>10. /\ byteAt(year.own, index) = Scale(flow.own, c.own, OWN_FULL_SCALE)
         /\ byteAt(year.meter, index) = Byte(flow, c)
    BY <2>6, <2>7
  <2>11. Told(flow, c)
    BY DEF flows, index
  <2> HIDE DEF flow, c
  <2>12. stateOf(reading(year, index)) = TrueState(flow)
    BY <2>6, <2>8, <2>9, <2>10, <2>11, QuarterIsTrue
  <2>13. buildPixels(year)[q * year.days + d].state = stateOf(reading(year, index))
    BY <2>1, <2>6, PixelOf DEF year, index
  <2> QED BY <2>12, <2>13 DEF year, flow, flows, index
<1> QED BY <1>1, Typed, PTL

-----------------------------------------------------------------------------
(* The reading under a pointer or a cursor.                                   *)

\* The plate of a page has days, or none.
LEMMA DaysAreCounted ==
    ASSUME YearsArePacked, PageInv, page = "shown", ReadsYear(advice.year)
    PROVE  Decoded.days \in Nat
<1>1. CASE Decoded = Refused
  BY <1>1 DEF Refused
<1>2. CASE Decoded # Refused
  <2>1. advice.year # Missing /\ Decoded = decodeYear(advice.year)
    BY <1>2 DEF Decoded
  <2>0. IsRead(advice.year)
    BY <1>2, <2>1, ShownIsRead DEF PageInv
  <2>2. advice.flows \in Flows /\ advice.year = encode_year(advice.flows)
    BY <2>0 DEF PageInv, YearsArePacked
  <2> DEFINE year == Decoded
             flows == advice.flows
  <2>3. flows \in Flows /\ year = decodeYear(encode_year(flows)) /\ year # Refused
    BY <1>2, <2>1, <2>2
  <2> HIDE DEF year, flows
  <2>4. year.days \in Nat
    BY <2>3, Unpacked
  <2> QED BY <2>4 DEF year
<1> QED BY <1>1, <1>2

\* An amount held between two bounds is between them.
LEMMA ClampHolds ==
    ASSUME NEW a \in Int, NEW high \in Nat
    PROVE  Clamp(a, 0, high) \in 0 .. high
BY DEF Clamp

\* A pointer over the plate is on a quarter of it, wherever it is.
LEMMA PointedAt ==
    ASSUME Decoded.days \in Nat, Decoded.days > 0, NEW of \in {0, Pointers},
           NEW across \in -1 .. of + 1, NEW down \in -1 .. of + 1,
           NEW c, c = cellFromPointer(across, down, of, Decoded.days)
    PROVE  c = NoCursor \/ OnPlate(c)
<1> DEFINE days == Decoded.days
           Q == QUARTERS_PER_DAY
<1>1. CASE of = 0
  BY <1>1 DEF cellFromPointer
<1>2. CASE of # 0
  <2>1. of \in Nat \ {0} /\ across \in Int /\ down \in Int
    BY <1>2, AdviceAssumption
  <2>2. days - 1 \in Nat /\ Q - 1 \in Nat
    BY QuartersAssumption
  <2>3. (across * days) \div of \in Int /\ (down * Q) \div of \in Int
    BY <2>1, QuartersAssumption
  <2>4. /\ Clamp((across * days) \div of, 0, days - 1) \in 0 .. days - 1
        /\ Clamp((down * Q) \div of, 0, Q - 1) \in 0 .. Q - 1
    BY <2>2, <2>3, ClampHolds
  <2> QED BY <1>2, <2>4 DEF cellFromPointer, OnPlate
<1> QED BY <1>1, <1>2

\* A key moves the cursor to a quarter of the plate, from a quarter or from none.
LEMMA MovedTo ==
    ASSUME Decoded.days \in Nat, Decoded.days > 0, CursorInv, NEW key \in DOMAIN STEPS,
           NEW c, c = moveCursor(cursor, key, Decoded.days)
    PROVE  OnPlate(c)
<1> DEFINE days == Decoded.days
           Q == QUARTERS_PER_DAY
           at == IF cursor = NoCursor THEN [day |-> 0, quarter |-> 0] ELSE cursor
<1>1. at.day \in Int /\ at.quarter \in Int
  BY DEF CursorInv, OnPlate
<1>2. STEPS[key][1] \in Int /\ STEPS[key][2] \in Int
  <2>1. key \in {"ArrowLeft", "ArrowRight", "ArrowUp", "ArrowDown"}
    BY DEF STEPS
  <2>2. STEPS[key] \in {<<-1, 0>>, <<1, 0>>, <<0, -1>>, <<0, 1>>}
    BY <2>1 DEF STEPS
  <2> QED BY <2>2
<1>3. days - 1 \in Nat /\ Q - 1 \in Nat
  BY QuartersAssumption
<1> HIDE DEF at
<1>4. /\ Clamp(at.day + STEPS[key][1], 0, days - 1) \in 0 .. days - 1
      /\ Clamp(at.quarter + STEPS[key][2], 0, Q - 1) \in 0 .. Q - 1
  <2> DEFINE x == at.day + STEPS[key][1]
             y == at.quarter + STEPS[key][2]
  <2>1. x \in Int /\ y \in Int
    BY <1>1, <1>2
  <2> HIDE DEF x, y
  <2>2. Clamp(x, 0, days - 1) \in 0 .. days - 1 /\ Clamp(y, 0, Q - 1) \in 0 .. Q - 1
    BY <1>3, <2>1, ClampHolds
  <2> QED BY <2>2 DEF x, y
<1>5. c = [day |-> Clamp(at.day + STEPS[key][1], 0, days - 1),
           quarter |-> Clamp(at.quarter + STEPS[key][2], 0, Q - 1)]
  BY DEF moveCursor, at
<1> QED BY <1>4, <1>5 DEF OnPlate

\* Every step leaves the cursor on a quarter of the plate, or on none.
LEMMA CursorSteps ==
    ASSUME YearsArePacked, PageInv, CursorInv, [Next]_vars
    PROVE  CursorInv'
<1>1. ASSUME advice' = advice, page' = page, cursor' = cursor PROVE CursorInv'
  BY <1>1, SameAdvice DEF CursorInv, OnPlate
<1>2. ASSUME cursor' = NoCursor PROVE CursorInv'
  BY <1>2 DEF CursorInv
<1>3. CASE AnswerComes \/ Leave
  <2>1. cursor' = NoCursor
    BY <1>3 DEF AnswerComes, Arrives, Fails, Nothing, Leave, Unmount, PageInv, TypeOK
  <2> QED BY <1>2, <2>1
<1>4. ASSUME NEW c, Read(c), Decoded.days \in Nat => c = NoCursor \/ OnPlate(c)
      PROVE  CursorInv'
  <2>1. CASE cursor' = NoCursor
    BY <1>2, <2>1
  <2>2. CASE cursor' # NoCursor
    <3>1. /\ page = "shown" /\ ReadsYear(advice.year) /\ cursor' = c /\ c # NoCursor
          /\ advice' = advice /\ page' = page
      BY <1>4, <2>2 DEF Read, Unmount
    <3>2. Decoded.days \in Nat
      BY <3>1, DaysAreCounted
    <3>3. OnPlate(c)
      BY <1>4, <3>1, <3>2
    <3> QED BY <3>1, <3>3, SameAdvice DEF CursorInv, OnPlate
  <2> QED BY <2>1, <2>2
<1>5. ASSUME NEW of \in {0, Pointers}, NEW across \in -1 .. of + 1, NEW down \in -1 .. of + 1,
             Point(across, down, of)
      PROVE  CursorInv'
  <2> DEFINE c == cellFromPointer(across, down, of, Decoded.days)
  <2>1. Read(c) /\ Decoded.days > 0
    BY <1>5 DEF Point, Read
  <2>2. Decoded.days \in Nat => c = NoCursor \/ OnPlate(c)
    BY <2>1, PointedAt
  <2> QED BY <1>4, <2>1, <2>2
<1>6. ASSUME NEW key \in DOMAIN STEPS, Press(key) PROVE CursorInv'
  <2> DEFINE c == moveCursor(cursor, key, Decoded.days)
  <2>1. Read(c) /\ Decoded.days > 0
    BY <1>6 DEF Press, Read
  <2>2. Decoded.days \in Nat => c = NoCursor \/ OnPlate(c)
    BY <2>1, MovedTo
  <2> QED BY <1>4, <2>1, <2>2
<1>7. CASE PointerLeaves
  BY <1>2, <1>7 DEF PointerLeaves, Read, Unmount
<1>8. CASE PreferenceChanges \/ Grow \/ PlateFrame \/ Copy \/ (\E p \in Panels : Toggle(p))
           \/ UNCHANGED vars
  <2>1. advice' = advice /\ page' = page /\ cursor' = cursor
    BY <1>8 DEF PreferenceChanges, Grow, PlateFrame, Frame, Copy, Toggle, vars
  <2> QED BY <1>1, <2>1
<1> QED BY <1>3, <1>5, <1>6, <1>7, <1>8 DEF Next

\* The middle of a column is in that column, and the middle of a row in that row.
LEMMA MiddleOf ==
    ASSUME NEW k \in Nat, NEW n \in Nat \ {0}
    PROVE  ((2 * k + 1) * n) \div (2 * n) = k
<1> DEFINE w == 2 * n
<1>1. w \in Nat \ {0} /\ n \in 0 .. w - 1
  OBVIOUS
<1>2. (2 * k + 1) * n = k * w + n
  OBVIOUS
<1>3. (k * w + n) \div w = k
  <2> HIDE DEF w
  <2> QED BY <1>1, DivisionIs
<1> QED BY <1>2, <1>3

\* The label of a day is a day of a month, counted from the start of the year.
LEMMA Labelled ==
    ASSUME NEW days, NEW day \in Nat, DOMAIN MONTHS \subseteq Nat \ {0},
           \A m \in DOMAIN MONTHS : DaysBefore(m, days) \in Nat,
           \E m \in DOMAIN MONTHS : day - DaysBefore(m, days) < monthsOf(days)[m]
    PROVE  /\ dayLabel(day, days).month # 0
           /\ DaysBefore(dayLabel(day, days).month, days) + dayLabel(day, days).date = day + 1
<1> DEFINE here == {m \in DOMAIN MONTHS : day - DaysBefore(m, days) < monthsOf(days)[m]}
           month == CHOOSE m \in here : \A n \in here : m <= n
<1>1. here \subseteq Nat /\ here # {} /\ here \subseteq DOMAIN MONTHS
  OBVIOUS
<1>2. dayLabel(day, days) = [month |-> month, date |-> day - DaysBefore(month, days) + 1]
  BY <1>1 DEF dayLabel
<1> HIDE DEF here
<1>3. \E m \in here : \A n \in here : m <= n
  BY <1>1, LeastOf
<1>4. month \in here
  BY <1>3
<1> HIDE DEF month
<1>5. month # 0 /\ DaysBefore(month, days) \in Nat
  BY <1>1, <1>4
<1> QED BY <1>2, <1>5

\* A cursor always reads a quarter, the reading agrees with the colour of the pixel
\* under the crosshair, and its label is the day of the year it is on.
THEOREM ReadingIsTrue ==
    ASSUME YearsArePacked, MonthsHoldYears
    PROVE  Spec => []ReadingIsThePixel
<1>1. Init => CursorInv
  BY DEF Init, CursorInv
<1>2. PageInv /\ CursorInv /\ [Next]_vars => CursorInv'
  BY CursorSteps
<1>3. PageInv /\ CursorInv => ReadingIsThePixel
  <2> SUFFICES ASSUME PageInv, CursorInv, cursor # NoCursor PROVE ReadingIsThePixel
    BY DEF ReadingIsThePixel
  <2> DEFINE year == Decoded
             days == Decoded.days
             Q == QUARTERS_PER_DAY
             d == cursor.day
             q == cursor.quarter
  <2>1. page = "shown"
    BY DEF PageInv, TypeOK
  <2>2. d \in 0 .. days - 1 /\ q \in 0 .. Q - 1
    BY DEF CursorInv, OnPlate
  <2>3. days \in Nat /\ ReadsYear(advice.year)
    BY <2>1, DaysAreCounted DEF PageInv
  <2>4. cellAt(year, d, q) = [day |-> d, quarter |-> q, reads |-> reading(year, d * Q + q)]
    BY <2>2 DEF cellAt
  <2>5. cellAt(year, d, q) # NoCell
    <3>1. cellAt(year, d, q).day = d
      BY <2>4
    <3>2. NoCell.day = -1
      BY DEF NoCell
    <3>3. d # -1
      BY <2>2
    <3> QED BY <3>1, <3>2, <3>3
  <2>6. Pixel(downOf(cursor), Q) = q
    <3>1. downOf(cursor) = [part |-> 2 * q + 1, whole |-> 2 * Q]
      BY DEF downOf
    <3>2. ((2 * q + 1) * Q) \div (2 * Q) = q
      <4>1. q \in Nat /\ Q \in Nat \ {0}
        BY <2>2, QuartersAssumption
      <4> HIDE DEF q, Q
      <4> QED BY <4>1, MiddleOf
    <3> QED BY <3>1, <3>2 DEF Pixel
  <2>7. Pixel(acrossOf(cursor, days), days) = d
    <3>1. acrossOf(cursor, days) = [part |-> 2 * d + 1, whole |-> 2 * days]
      BY DEF acrossOf
    <3>2. ((2 * d + 1) * days) \div (2 * days) = d
      <4>1. d \in Nat /\ days \in Nat \ {0}
        BY <2>2, <2>3
      <4> HIDE DEF d, days
      <4> QED BY <4>1, MiddleOf
    <3> QED BY <3>1, <3>2 DEF Pixel
  <2>8. buildPixels(year)[q * days + d].state = stateOf(reading(year, d * Q + q))
    BY <2>2, <2>3, PixelOf
  <2>9. /\ dayLabel(d, days).month # 0
        /\ DaysBefore(dayLabel(d, days).month, days) + dayLabel(d, days).date = d + 1
    <3>1. Decoded # Refused
      BY <2>2 DEF Refused
    <3>2. advice.year # Missing /\ Decoded = decodeYear(advice.year)
      BY <3>1 DEF Decoded
    <3>3. /\ \A m \in DOMAIN MONTHS : DaysBefore(m, days) \in Nat
          /\ \A day \in 0 .. days - 1 :
                 \E m \in DOMAIN MONTHS : day - DaysBefore(m, days) < monthsOf(days)[m]
      <4>1. IsRead(advice.year)
        BY <2>1, <2>3, <3>1, <3>2, ShownIsRead DEF PageInv
      <4> QED BY <2>1, <3>2, <4>1 DEF PageInv, MonthsHoldYears
    <3>4. d \in Nat /\ DOMAIN MONTHS \subseteq Nat \ {0}
      BY <2>2 DEF MonthsHoldYears
    <3>5. \E m \in DOMAIN MONTHS : d - DaysBefore(m, days) < monthsOf(days)[m]
      BY <2>2, <3>3
    <3> HIDE DEF d, days
    <3> QED BY <3>3, <3>4, <3>5, Labelled
  <2>10. cellAt(year, d, q).reads = reading(year, d * Q + q)
    BY <2>4
  <2> QED BY <2>5, <2>6, <2>7, <2>8, <2>9, <2>10 DEF ReadingIsThePixel
<1> QED BY <1>1, <1>2, <1>3, Typed, PTL DEF Spec

=============================================================================
