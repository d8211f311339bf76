------------------------------ MODULE AdvicePage ------------------------------
(* The page of one advice, from the answer to its link until the visitor goes:  *)
(* the shape check at the one place JSON becomes an advice (lib/api.ts), what   *)
(* React builds from what passed, the bands and their panels, the plate of the  *)
(* year as it draws itself in, and the reading under a pointer or a cursor.     *)
(*                                                                              *)
(* A body is a record of the fields the page uses, each whole or spoilt in one  *)
(* of the ways a proxy, an older service or a renamed field can spoil it.  A    *)
(* body with a year also holds the flows it was packed from.  The request       *)
(* itself, and the token in the path, are in Flow.                              *)
EXTENDS Bands, Carpet, FiniteSets

CONSTANTS
    Null, Missing,  \* what JSON holds, and what a renamed field leaves
    Nested,         \* an object where a sentence or a number is shown
    Bodies,         \* the answers with status 200
    Frames,         \* bound: how many steps of time the plate draws itself in
    Pointers        \* bound: the positions of a pointer, in Pointers-ths

VARIABLES
    page,      \* loading, failed, shown, blank (React unmounted) or away
    advice,    \* the advice on the page, or the one that blanked it
    colours,   \* the colours of the plate the stylesheet gives
    reduced,   \* the visitor asks for less movement
    grown,     \* the headline band has its width
    canvas,    \* per column of the plate: ground, edge or data
    time,      \* how far the plate's drawing is, in Frames-ths; -1 before it starts
    frame,     \* a frame of the plate is asked for
    cursor,    \* the quarter that is read
    open,      \* the panels that are open
    copied     \* the status beside the copy button

vars == <<page, advice, colours, reduced, grown, canvas, time, frame, cursor, open, copied>>

-----------------------------------------------------------------------------
(* lib/api.ts: the shape check.                                                 *)
isObject(v) == v \notin {Null, Missing}

CONFIDENCE_LEVELS == {"INDICATIVE", "GOOD", "PRECISE"}
ROUTE_ORDER == {"SHIFT_BEHAVIOUR", "SMART_CONTROL", "STORAGE"}

ASSUME AdviceAssumption ==
    /\ Null \notin ROUTE_ORDER /\ Missing \notin ROUTE_ORDER
    /\ Frames \in Nat \ {0} /\ Pointers \in Nat

isPercentileBand(v) == isObject(v) /\ v.strings

(* Mutant: the lists of what varied are not looked at.                          *)
isScenarioBandAmounts(v) == isObject(v) /\ v.strings

isScenarioBand(v) == isObject(v) /\ v.strings /\ v.lists

isBandlessFigure(v) == isObject(v)

(* Neither the action nor anything else FirstStep shows is looked at.           *)
isFiredRule(v) == isObject(v) /\ (v.saving = Null \/ isScenarioBand(v.saving))

isRouteBlock(v) ==
    /\ isObject(v) /\ v.route \in ROUTE_ORDER
    /\ isObject(v.rules) /\ \A i \in DOMAIN v.rules : isFiredRule(v.rules[i])

isBatteryAdvice(v) ==
    /\ isObject(v) /\ isBandlessFigure(v.sized)
    /\ isScenarioBand(v.saving) /\ isScenarioBand(v.payback) /\ isScenarioBand(v.cost)
    /\ isObject(v.curve) /\ \A i \in DOMAIN v.curve : isScenarioBand(v.curve[i])

(* The year and the modelled consumption are not looked at.                     *)
isAdvice(v) ==
    /\ isObject(v) /\ v.confidence \in CONFIDENCE_LEVELS
    /\ isPercentileBand(v.headline)
    /\ isObject(v.routes) /\ \A i \in DOMAIN v.routes : isRouteBlock(v.routes[i])
    /\ v.battery = Null \/ isBatteryAdvice(v.battery)

-----------------------------------------------------------------------------
Rules(a) == UNION {{<<i, j>> : j \in DOMAIN a.routes[i].rules} : i \in DOMAIN a.routes}
RuleAt(a, r) == a.routes[r[1]].rules[r[2]]

(* firstActionableRule: the first rule of the first route that has one.         *)
firstActionableRule(a) ==
    IF Rules(a) = {} THEN <<>>
    ELSE CHOOSE r \in Rules(a) : r[2] = 1 /\ \A s \in Rules(a) : r[1] <= s[1]

(* What React can build.  A property read from null or undefined throws, so     *)
(* does an object where text belongs, and nothing above the page catches it.    *)
RendersBand(v) == isObject(v) /\ v.lists
RendersRule(v) == isObject(v) /\ (v.saving = Null \/ RendersBand(v.saving))

RendersRoute(v) ==
    /\ isObject(v) /\ isObject(v.route)
    /\ isObject(v.rules) /\ \A i \in DOMAIN v.rules : RendersRule(v.rules[i])

RendersBattery(v) ==
    /\ isObject(v) /\ isObject(v.sized)
    /\ RendersBand(v.saving) /\ RendersBand(v.payback) /\ RendersBand(v.cost)
    /\ isObject(v.curve) /\ \A i \in DOMAIN v.curve : RendersBand(v.curve[i])

(* decodeYear reads a field of whatever is not undefined, and hands the         *)
(* ceilings on unread; whoever colours or reads a quarter reads their fields.   *)
RendersYear(v) == v = Missing \/ isObject(v)
ReadsYear(v)   == isObject(v) /\ decodeYear(v) # Refused => isObject(v.ceilings)

(* FirstStep shows the action of its rule, which no check looked at.            *)
RendersFirst(v) ==
    \A r \in Rules(v) : r = firstActionableRule(v) => RuleAt(v, r).action # Nested

Renders(v) ==
    /\ isObject(v.headline)
    /\ isObject(v.routes) /\ \A i \in DOMAIN v.routes : RendersRoute(v.routes[i])
    /\ v.battery = Null \/ RendersBattery(v.battery)
    /\ RendersFirst(v)
    /\ RendersYear(v.year)
    /\ v.consumption \notin {Null, Nested}

-----------------------------------------------------------------------------
(* The figures of the page.                                                     *)
NoAdvice == [year |-> Missing, routes |-> <<>>, battery |-> Null]

(* FirstStep and RuleCard: the figures drawn for rules, each with where it is   *)
(* and the rule whose band it is.  A rule whose id is the first step's has its  *)
(* figure there.                                                                *)
(* Mutant: the routes repeat the first step's band.                             *)
RuleFiguresTwice(a) ==
    {[at |-> "first", rule |-> r] : r \in {r \in Rules(a) : r = firstActionableRule(a)
                                                            /\ RuleAt(a, r).saving # Null}}
    \cup {[at |-> "route", rule |-> r] : r \in {r \in Rules(a) : RuleAt(a, r).saving # Null}}

RuleFigures(a) ==
    LET first == firstActionableRule(a)
        Hidden(r) == RuleAt(a, r).rule_id = RuleAt(a, first).rule_id
    IN  {[at |-> "first", rule |-> r] : r \in {r \in Rules(a) : r = first
                                                            /\ RuleAt(a, r).saving # Null}}
        \cup {[at |-> "route", rule |-> r] :
                  r \in {r \in Rules(a) : RuleAt(a, r).saving # Null /\ ~Hidden(r)}}

(* The figures inside the battery's own panel.                                  *)
Figure(name, i) == [at |-> name, rule |-> <<i>>]
BatteryPanel == Figure("battery", 0)

BatteryFigures(a) ==
    IF a.battery = Null THEN {}
    ELSE {Figure(name, 0) : name \in {"saving", "payback", "cost"}}
         \cup {Figure("curve", i) : i \in DOMAIN a.battery.curve}

(* The battery's own panel is open from the start only for one verdict.         *)
OpenAtFirst(a) ==
    IF a.battery = Null THEN {}
    ELSE IF a.battery.verdict = "CONSIDER_BATTERY" THEN {BatteryPanel} ELSE {}

-----------------------------------------------------------------------------
(* The plate.  It is drawn when the payload is a year; a stylesheet without one *)
(* of the four colours, or a browser without a canvas, draws nothing.           *)
Decoded ==
    IF page # "shown" \/ advice.year = Missing THEN Refused ELSE decodeYear(advice.year)
Columns == 0 .. Decoded.days - 1

Blank(days) == [d \in 0 .. days - 1 |-> "ground"]
Whole(days) == [d \in 0 .. days - 1 |-> "data"]

(* paletteFrom: all four colours or none.                                       *)
CARPET_TOKENS == {"ground", "own", "offtake", "export"}
paletteFrom(given) == CARPET_TOKENS \subseteq given

(* Math.round(days * through * (2 - through)).                                  *)
ColumnsAt(t, days) == (2 * days * t * (2 * Frames - t) + Frames * Frames) \div (2 * Frames * Frames)

(* The effect, on the first render and after a change of preference: ground,    *)
(* and then everything at once or the first of the frames.                      *)
(* Mutant: the frame that was asked for is left when the preference changes.    *)
StartPlateOver(days, still) ==
    /\ canvas' = IF still /\ paletteFrom(colours) THEN Whole(days) ELSE Blank(days)
    /\ frame' = (frame \/ (~still /\ days > 0 /\ paletteFrom(colours)))
    /\ time' = IF frame /\ still THEN time ELSE -1

StartPlate(days, still) ==
    /\ canvas' = IF still /\ paletteFrom(colours) THEN Whole(days) ELSE Blank(days)
    /\ frame' = (~still /\ days > 0 /\ paletteFrom(colours))
    /\ time' = -1

Init ==
    /\ page = "loading" /\ advice = NoAdvice
    /\ colours \in {CARPET_TOKENS, CARPET_TOKENS \ {"export"}}
    /\ reduced \in BOOLEAN
    /\ grown = FALSE
    /\ canvas = Blank(0) /\ time = -1 /\ frame = FALSE
    /\ cursor = NoCursor /\ open = {} /\ copied = "idle"

Nothing == UNCHANGED <<grown, canvas, time, frame, cursor, open, copied>>

(* React takes down what was on the page.                                       *)
Unmount ==
    /\ grown' = FALSE /\ canvas' = Blank(0) /\ time' = -1 /\ frame' = FALSE
    /\ cursor' = NoCursor /\ open' = {} /\ copied' = "idle"
    /\ UNCHANGED <<colours, reduced>>

(* The effect that draws the plate colours every quarter before the first frame.*)
Builds(body) == Renders(body) /\ (paletteFrom(colours) => ReadsYear(body.year))

(* The answer arrives.  A body that is no advice is a failure with a sentence;  *)
(* one that passed and cannot be built leaves the visitor with nothing.         *)
Arrives(body) ==
    /\ page = "loading"
    /\ \/ ~isAdvice(body) /\ page' = "failed" /\ UNCHANGED <<advice, colours, reduced>> /\ Nothing
       \/ isAdvice(body) /\ ~Builds(body) /\ page' = "blank" /\ advice' = body /\ Unmount
       \/ /\ isAdvice(body) /\ Builds(body)
          /\ page' = "shown" /\ advice' = body
          /\ StartPlate(Decoded'.days, reduced)
          /\ open' = OpenAtFirst(body)
          /\ UNCHANGED <<colours, reduced, grown, cursor, copied>>

(* An answer with another status, or none.                                      *)
Fails == page = "loading" /\ page' = "failed" /\ UNCHANGED <<advice, colours, reduced>> /\ Nothing

(* The preference of the system changes under the page.                         *)
PreferenceChanges ==
    /\ page # "away"
    /\ reduced' = ~reduced
    /\ IF page = "shown" THEN StartPlate(Decoded.days, ~reduced)
                         ELSE UNCHANGED <<canvas, time, frame>>
    /\ UNCHANGED <<page, advice, colours, grown, cursor, open, copied>>

(* The frame in which the headline band gets its width.                         *)
Grow ==
    /\ page = "shown" /\ ~grown /\ grown' = TRUE
    /\ UNCHANGED <<page, advice, colours, reduced, canvas, time, frame, cursor, open, copied>>

(* Mutant: a frame stamped from before the start is taken for the last one.     *)
FrameStops(t) ==
    /\ page = "shown" /\ frame
    /\ t > time \/ (t = -1 /\ time = -1)
    /\ LET columns == ColumnsAt(t, Decoded.days)
       IN  canvas' = [d \in Columns |->
                         IF d < columns THEN "data"
                         ELSE IF t < Frames /\ d = columns THEN "edge" ELSE canvas[d]]
    /\ time' = t /\ frame' = (t \in 0 .. Frames - 1)
    /\ UNCHANGED <<page, advice, colours, reduced, grown, cursor, open, copied>>

(* A frame of the plate at time t: the columns so far, and the edge they are    *)
(* written at.  The first one may be stamped from before the drawing started.   *)
Frame(t) ==
    /\ page = "shown" /\ frame
    /\ t > time \/ (t = -1 /\ time = -1)
    /\ LET columns == ColumnsAt(t, Decoded.days)
       IN  canvas' = [d \in Columns |->
                         IF d < columns THEN "data"
                         ELSE IF t < Frames /\ d = columns THEN "edge" ELSE canvas[d]]
    /\ time' = t /\ frame' = (t < Frames)
    /\ UNCHANGED <<page, advice, colours, reduced, grown, cursor, open, copied>>

-----------------------------------------------------------------------------
(* The visitor reads a quarter.  cellAt reads the ceilings of a year that was   *)
(* never drawn.                                                                 *)
Read(c) ==
    /\ page = "shown" /\ Decoded.days > 0
    /\ \/ /\ c = NoCursor \/ ReadsYear(advice.year)
          /\ cursor' = c
          /\ UNCHANGED <<page, advice, colours, reduced, grown, canvas, time, frame, open, copied>>
       \/ /\ c # NoCursor /\ ~ReadsYear(advice.year)
          /\ page' = "blank" /\ advice' = advice /\ Unmount

Point(across, down, of) == Read(cellFromPointer(across, down, of, Decoded.days))
PointerLeaves == Read(NoCursor)
Press(key) == Read(moveCursor(cursor, key, Decoded.days))

(* A panel opens or closes: a figure's own, or the battery's.                   *)
Panels == RuleFigures(advice) \cup BatteryFigures(advice)
          \cup (IF advice.battery = Null THEN {} ELSE {BatteryPanel})

Toggle(p) ==
    /\ page = "shown" /\ p \in Panels
    /\ p \in BatteryFigures(advice) => BatteryPanel \in open
    /\ open' = IF p \in open THEN open \ {p} ELSE open \cup {p}
    /\ UNCHANGED <<page, advice, colours, reduced, grown, canvas, time, frame, cursor, copied>>

(* The clipboard takes the link or refuses it.                                  *)
Copy ==
    /\ page = "shown" /\ copied' \in {"copied", "failed"}
    /\ UNCHANGED <<page, advice, colours, reduced, grown, canvas, time, frame, cursor, open>>

Leave ==
    page # "away" /\ page' = "away" /\ advice' = NoAdvice /\ Unmount

PlateFrame == \E t \in -1 .. Frames : Frame(t)
AnswerComes == Fails \/ \E body \in Bodies : Arrives(body)

Next ==
    \/ AnswerComes
    \/ PreferenceChanges
    \/ Grow
    \/ PlateFrame
    \/ \E of \in {0, Pointers} : \E across, down \in -1 .. of + 1 : Point(across, down, of)
    \/ PointerLeaves
    \/ \E key \in DOMAIN STEPS : Press(key)
    \/ \E p \in Panels : Toggle(p)
    \/ Copy
    \/ Leave

Spec == Init /\ [][Next]_vars

(* The browser keeps handing out frames that are later than the last: a frame   *)
(* stamped from before the start is followed by one that is not.                *)
FairSpec ==
    /\ Spec
    /\ WF_vars(AnswerComes)
    /\ WF_vars(Grow)
    /\ WF_vars(\E t \in 0 .. Frames : Frame(t))

-----------------------------------------------------------------------------
(* Types.  What is on the page belongs to the advice on it, and nothing is left *)
(* of it once the visitor has gone.                                             *)
TypeOK ==
    /\ page \in {"loading", "failed", "shown", "blank", "away"}
    /\ page \notin {"shown", "blank"} => advice = NoAdvice
    /\ page # "shown" => open = {} /\ ~frame /\ cursor = NoCursor
    /\ reduced \in BOOLEAN /\ grown \in BOOLEAN /\ frame \in BOOLEAN
    /\ canvas \in [Columns -> {"ground", "edge", "data"}]
    /\ time \in -1 .. Frames
    /\ copied \in {"idle", "copied", "failed"}
    /\ open \subseteq Panels

(* What is on the page passed the shape check and could be built, its year      *)
(* wherever a quarter of it was coloured or read.  What blanked a page passed   *)
(* the check as well.                                                           *)
PageInv ==
    /\ TypeOK
    /\ page = "shown" => advice \in Bodies /\ isAdvice(advice) /\ Renders(advice)
    /\ page = "blank" => isAdvice(advice) /\ ~(Renders(advice) /\ ReadsYear(advice.year))
    /\ page = "shown" /\ (paletteFrom(colours) \/ cursor # NoCursor) => ReadsYear(advice.year)
    /\ frame \/ (\E d \in DOMAIN canvas : canvas[d] = "data") => paletteFrom(colours)

(* What no check of lib/api.ts looks at: a null where the year or the modelled  *)
(* consumption is, a year without its ceilings, and an object where the first   *)
(* step's sentence or the consumption is shown.                                 *)
NotLookedAt(a) ==
    \/ a.year = Null \/ a.consumption \in {Null, Nested}
    \/ isObject(a.year) /\ decodeYear(a.year) # Refused /\ ~isObject(a.year.ceilings)
    \/ \E r \in Rules(a) : r = firstActionableRule(a) /\ RuleAt(a, r).action = Nested

(* The visitor is left with an empty page only by an advice with something in   *)
(* it that the shape check does not look at: of all it looks at, nothing that   *)
(* passed throws, while the page is built or when a quarter is read later.      *)
BlankOnlyUnlooked == page = "blank" => NotLookedAt(advice)

(* What the check's own comment asks for (api.ts:83-103), and the program does  *)
(* not give; README.md has the run that refutes it.                             *)
NeverBlank == page # "blank"

(* What the service puts in an advice (advice/rendering.py): lists are lists,   *)
(* and no rule fires twice (ampeer_advice/rules.py).                            *)
IsList(s) == s \in Seq({s[i] : i \in DOMAIN s})

RulesFireOnce ==
    \A b \in Bodies : isAdvice(b) =>
        /\ IsList(b.routes) /\ \A i \in DOMAIN b.routes : IsList(b.routes[i].rules)
        /\ \A r, s \in Rules(b) : RuleAt(b, r).rule_id = RuleAt(b, s).rule_id => r = s

(* Every rule with a saving has its band on the page once: in the first step or *)
(* in its route.                                                                *)
EveryBandOnce ==
    page = "shown" =>
        \A r \in Rules(advice) : RuleAt(advice, r).saving # Null =>
            Cardinality({f \in RuleFigures(advice) : f.rule = r}) = 1

(* The band of the headline: three amounts in their order, not zero at both     *)
(* ends, or no amount at its low end.                                           *)
HeadlinesAreBands ==
    \A b \in Bodies : isAdvice(b) =>
        LET band == b.headline
        IN  \/ band.low = Unreadable
            \/ /\ {band.low, band.mid, band.high} \subseteq Int \ {Unreadable}
               /\ band.low <= band.mid /\ band.mid <= band.high
               /\ band.low # 0 \/ band.high # 0

(* The headline's fill never leaves its track, at no moment of its growth and   *)
(* for no such band; once it has grown the marker is inside it and the two      *)
(* labels stand under it.                                                       *)
On(share, fill) == share.part * fill.whole >= fill.left * share.whole
                   /\ share.part * fill.whole <= fill.right * share.whole

HeadlineOnTrack ==
    page = "shown" =>
        LET band == advice.headline
            fill == Fill(band, reduced \/ grown)
        IN  /\ fill.left >= 0 /\ fill.right <= fill.whole
            /\ (reduced \/ grown) /\ axisFor(band.low, band.high) # NoAxis =>
                   /\ On(Marker(band), fill)
                   /\ On(LowLabel(band), fill) /\ On(HighLabel(band), fill)

(* The flows of a year, none of whose quarters both exports and takes           *)
(* (advice/series.py); a year whose quarters can be read is packed from them.   *)
IsRead(year) ==
    isObject(year) /\ decodeYear(year) # Refused /\ isObject(year.ceilings)

Flows ==
    {flows \in Seq([own : Nat, export : Nat, grid : Nat]) :
        \A i \in DOMAIN flows : flows[i].export = 0 \/ flows[i].grid = 0}

YearsArePacked ==
    \A b \in Bodies : isAdvice(b) /\ IsRead(b.year) =>
        b.flows \in Flows /\ b.year = encode_year(b.flows)

(* Every quarter drawn is the state the simulation had it in, wherever the two  *)
(* flows differ by more than half a step of each scale: the packing, the        *)
(* decoding and the turning of the image lose nothing else.                     *)
Meter(flow) == flow.export + flow.grid
TrueState(flow) ==
    IF flow.own > Meter(flow) THEN "own" ELSE IF flow.export > 0 THEN "export" ELSE "offtake"

Told(flow, ceilings) ==
    LET most == IF flow.export > 0 THEN ceilings.export ELSE ceilings.grid
        gap  == flow.own - Meter(flow)
    IN  Most(gap, -gap) * 2 * OWN_FULL_SCALE * MAGNITUDE_MASK
            > ceilings.own * MAGNITUDE_MASK + most * OWN_FULL_SCALE

PlateIsTheModel ==
    LET pixels == buildPixels(Decoded)
    IN  \A d \in DOMAIN canvas : canvas[d] = "data" =>
            \A q \in 0 .. QUARTERS_PER_DAY - 1 :
                LET flow == advice.flows[d * QUARTERS_PER_DAY + q + 1]
                IN  Told(flow, Ceilings(advice.flows)) =>
                        pixels[q * Decoded.days + d].state = TrueState(flow)

(* The months hold every day of the years that are sent.                        *)
MonthsHoldYears ==
    /\ DOMAIN MONTHS \subseteq Nat \ {0}
    /\ \A b \in Bodies : isAdvice(b) /\ IsRead(b.year) =>
           LET days == decodeYear(b.year).days
           IN  /\ \A m \in DOMAIN MONTHS : DaysBefore(m, days) \in Nat
               /\ \A day \in 0 .. days - 1 :
                      \E m \in DOMAIN MONTHS : day - DaysBefore(m, days) < monthsOf(days)[m]

(* The cursor is on a quarter of the plate, or on none.                         *)
OnPlate(c) == c.day \in 0 .. Decoded.days - 1 /\ c.quarter \in 0 .. QUARTERS_PER_DAY - 1
CursorInv == cursor # NoCursor => OnPlate(cursor)

(* A cursor always reads a quarter; the reading agrees with the colour of the   *)
(* pixel under the crosshair, and its label is the day of the year it is on.    *)
Pixel(share, size) == (share.part * size) \div share.whole

ReadingIsThePixel ==
    cursor # NoCursor =>
        LET days  == Decoded.days
            cell  == cellAt(Decoded, cursor.day, cursor.quarter)
            label == dayLabel(cursor.day, days)
            at    == Pixel(downOf(cursor), QUARTERS_PER_DAY) * days
                     + Pixel(acrossOf(cursor, days), days)
        IN  /\ cell # NoCell
            /\ buildPixels(Decoded)[at].state = stateOf(cell.reads)
            /\ label.month # 0
            /\ DaysBefore(label.month, days) + label.date = cursor.day + 1

(* Under less movement nothing on the plate moves: it is complete, and no frame *)
(* of a drawing that was under way comes after the preference changed.          *)
ReducedIsStill ==
    page = "shown" /\ reduced /\ paletteFrom(colours) =>
        ~frame /\ canvas = Whole(Decoded.days)

(* An answer that is awaited ends in a page, and a page that stays comes to     *)
(* rest with its band at its width and its plate complete.                      *)
Settled ==
    /\ reduced \/ grown
    /\ paletteFrom(colours) => canvas = Whole(Decoded.days)

PageSettles ==
    page = "loading" ~> page \in {"failed", "blank", "away"} \/ (page = "shown" /\ Settled)

=============================================================================
