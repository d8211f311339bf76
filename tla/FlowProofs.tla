------------------------------- MODULE FlowProofs -------------------------------
(* Proofs about Flow for any answers a tab starts with and any number of edits  *)
(* and visits.                                                                  *)
(*                                                                              *)
(* The properties are not inductive one by one.  EarlierAnswered says nothing   *)
(* of a form that shows that round one is missing, nor why a form past the last *)
(* question of round one can only have been left there by a change of round;    *)
(* FunnelAddsUp does not know that the questions a form has passed were         *)
(* reported, nor that only a form that waits has a request; RequestsAreWhole    *)
(* needs the stored answers to be of their kinds.  FlowInv says these together. *)
EXTENDS Flow, TLAPS

-----------------------------------------------------------------------------
(* The questions, one by one.                                                   *)

(* Which number field a position shows.                                         *)
LEMMA FieldTable ==
    ASSUME NEW a
    PROVE  /\ FieldAt(a, 1, 0) = "postcode4" /\ FieldAt(a, 1, 1) = "peakPowerWp"
           /\ FieldAt(a, 1, 2) = "none" /\ FieldAt(a, 1, 3) = "annualConsumptionKwh"
           /\ FieldAt(a, 1, 4) = "annualConsumptionKwh"
           /\ FieldAt(a, 2, 0) = "none" /\ FieldAt(a, 2, 1) = "none"
           /\ FieldAt(a, 2, 2) = IF a["heatPump"] = "ja" THEN "heatDemandKwh" ELSE "none"
           /\ FieldAt(a, 2, 3) = "none"
           /\ FieldAt(a, 2, 4) = IF a["battery"] = "ja" THEN "batteryCapacityKwh" ELSE "none"
BY DEF FieldAt, YesNoAt, DetailOf

(* What a question needs to be answered.                                        *)
LEMMA StepTable ==
    ASSUME NEW a
    PROVE  /\ StepComplete(a, 1, 0) <=> a["postcode4"] # "none"
           /\ StepComplete(a, 1, 1) <=> a["peakPowerWp"] # "none"
           /\ StepComplete(a, 1, 2) <=> a["roof"] # "none"
           /\ StepComplete(a, 1, 3) <=> a["annualConsumptionKwh"] # "none"
           /\ StepComplete(a, 1, 4) <=> a["annualConsumptionKwh"] # "none"
           /\ StepComplete(a, 2, 0) <=> a["daytimeOccupancy"] # "none"
           /\ StepComplete(a, 2, 1) <=> a["ev"] # "none"
           /\ StepComplete(a, 2, 2) <=> /\ a["heatPump"] # "none"
                                        /\ a["heatPump"] = "ja" => a["heatDemandKwh"] # "none"
           /\ StepComplete(a, 2, 3) <=> a["dynamicContract"] # "none"
           /\ StepComplete(a, 2, 4) <=> /\ a["battery"] # "none"
                                        /\ a["battery"] = "ja" => a["batteryCapacityKwh"] # "none"
BY FieldTable DEF StepComplete, YesNoAt

(* What is allowed of each kind of answer.                                      *)
LEMMA AllowedTable ==
    /\ Allowed("postcode4") = {"none"} \cup {"good", "bad"}
    /\ Allowed("peakPowerWp") = {"none"} \cup {"good"}
    /\ Allowed("annualConsumptionKwh") = {"none"} \cup {"good"}
    /\ Allowed("heatDemandKwh") = {"none"} \cup {"good"}
    /\ Allowed("batteryCapacityKwh") = {"none"} \cup {"good"}
    /\ Allowed("daytimeOccupancy") = {"none"} \cup {"ja", "nee"}
    /\ Allowed("heatPump") = {"none"} \cup {"ja", "nee"}
    /\ Allowed("dynamicContract") = {"none"} \cup {"ja", "nee"}
    /\ Allowed("battery") = {"none"} \cup {"ja", "nee"}
    /\ Allowed("ev") = {"none"} \cup {"NONE", "NIGHT"}
    /\ Allowed("roof") = {"none"} \cup {"chosen"}
<1>1. Allowed("postcode4") = {"none"} \cup {"good", "bad"}
  BY DEF Allowed, NumberKeys, YesNoKeys
<1>2. Allowed("peakPowerWp") = {"none"} \cup {"good"}
  BY DEF Allowed, NumberKeys, YesNoKeys
<1>3. Allowed("annualConsumptionKwh") = {"none"} \cup {"good"}
  BY DEF Allowed, NumberKeys, YesNoKeys
<1>4. Allowed("heatDemandKwh") = {"none"} \cup {"good"}
  BY DEF Allowed, NumberKeys, YesNoKeys
<1>5. Allowed("batteryCapacityKwh") = {"none"} \cup {"good"}
  BY DEF Allowed, NumberKeys, YesNoKeys
<1>6. Allowed("daytimeOccupancy") = {"none"} \cup {"ja", "nee"}
  BY DEF Allowed, NumberKeys, YesNoKeys
<1>7. Allowed("heatPump") = {"none"} \cup {"ja", "nee"}
  BY DEF Allowed, NumberKeys, YesNoKeys
<1>8. Allowed("dynamicContract") = {"none"} \cup {"ja", "nee"}
  BY DEF Allowed, NumberKeys, YesNoKeys
<1>9. Allowed("battery") = {"none"} \cup {"ja", "nee"}
  BY DEF Allowed, NumberKeys, YesNoKeys
<1>10. Allowed("ev") = {"none"} \cup {"NONE", "NIGHT"}
  BY DEF Allowed, NumberKeys, YesNoKeys
<1>11. Allowed("roof") = {"none"} \cup {"chosen"}
  BY DEF Allowed, NumberKeys, YesNoKeys
<1> QED
  BY <1>1, <1>2, <1>3, <1>4, <1>5, <1>6, <1>7, <1>8, <1>9, <1>10, <1>11

(* The answers have the values of their kind.                                   *)
LEMMA AnswerTypes ==
    ASSUME NEW a \in Answers
    PROVE  /\ a \in [Keys -> Values]
           /\ \A k \in NumberKeys : a[k] \in {"none", "good", "bad"}
           /\ \A k \in NumberKeys \ {"postcode4"} : a[k] \in {"none", "good"}
           /\ \A k \in YesNoKeys : a[k] \in {"none", "ja", "nee"}
           /\ a["ev"] \in {"none", "NONE", "NIGHT"} /\ a["roof"] \in {"none", "chosen"}
<1>1. a \in [Keys -> Values] /\ \A k \in Keys : a[k] \in Allowed(k)
  BY DEF Answers
<1> QED
  BY <1>1, AllowedTable DEF Keys, NumberKeys, YesNoKeys

(* What is sent is complete and agrees with itself.                             *)
Whole(c) ==
    /\ \A k \in RoundOneKeys : c.input[k] \notin {"none", "bad"}
    /\ c.round = 2 =>
        /\ \A k \in YesNoKeys \cup {"ev"} : c.input[k] # "none"
        /\ \A k \in {"heatPump", "battery"} :
              c.input[k] = "ja" <=> c.input[DetailOf(k)] # "none"

(* The body that is built from answers is a request, and a whole one: the two   *)
(* yeses of a refinement come with their details and the noes without.          *)
LEMMA InputIsWhole ==
    ASSUME NEW a \in Answers, NEW r \in Rounds, NEW x \in InputOf(a, r)
    PROVE  Compute(r, x) \in Call /\ Whole(Compute(r, x))
<1>1. /\ a \in [Keys -> Values] /\ a["postcode4"] # "bad"
      /\ \A k \in RoundOneKeys : a[k] # "none"
      /\ \A k \in RoundOneKeys \ {"postcode4"} : a[k] # "bad"
      /\ RoundOneKeys \subseteq Keys
  <2>1. ToEstimateInput(a) # {}
    BY DEF InputOf, ToRefineInput, Rounds
  <2> QED
    BY <2>1, AnswerTypes DEF ToEstimateInput, RoundOneKeys, NumberKeys, Keys
<1>2. \A k \in RoundOneKeys : a[k] \notin {"none", "bad"}
  BY <1>1 DEF RoundOneKeys
<1>3. CASE r = 1
  <2>1. x = [k \in RoundOneKeys |-> a[k]]
    BY <1>3 DEF InputOf, ToEstimateInput
  <2>2. x \in [RoundOneKeys -> Values]
    BY <1>1, <2>1
  <2>3. \A k \in RoundOneKeys : x[k] \notin {"none", "bad"}
    BY <1>2, <2>1
  <2> QED
    BY <1>3, <2>2, <2>3 DEF Compute, Call, Whole, Rounds
<1>4. CASE r = 2
  <2> DEFINE h == Detail(a, "heatPump")
             b == Detail(a, "battery")
  <2>1. /\ x = [a EXCEPT !["heatDemandKwh"] = h, !["batteryCapacityKwh"] = b]
        /\ \A k \in YesNoKeys \cup {"ev"} : a[k] # "none"
        /\ \A k \in {"heatPump", "battery"} : a[k] = "ja" => a[DetailOf(k)] # "none"
    BY <1>4 DEF InputOf, ToRefineInput
  <2>2. /\ DetailOf("heatPump") = "heatDemandKwh"
        /\ DetailOf("battery") = "batteryCapacityKwh"
    BY DEF DetailOf
  <2>3. /\ h \in {"none", "good"} /\ (a["heatPump"] = "ja" <=> h # "none")
        /\ b \in {"none", "good"} /\ (a["battery"] = "ja" <=> b # "none")
    BY <2>1, <2>2, AnswerTypes DEF Detail, NumberKeys
  <2> HIDE DEF h, b
  <2>4. /\ x \in [Keys -> Values]
        /\ x["heatDemandKwh"] = h /\ x["batteryCapacityKwh"] = b
        /\ \A k \in Keys \ {"heatDemandKwh", "batteryCapacityKwh"} : x[k] = a[k]
    BY <1>1, <2>1, <2>3 DEF Keys, NumberKeys, Values
  <2>5. \A k \in Keys : x[k] \in Allowed(k)
    <3>1. \A k \in Keys : a[k] \in Allowed(k)
      BY DEF Answers
    <3>2. h \in Allowed("heatDemandKwh") /\ b \in Allowed("batteryCapacityKwh")
      BY <2>3, AllowedTable DEF NumberKeys
    <3> QED
      BY <2>4, <3>1, <3>2
  <2>6. x \in Answers
    BY <2>4, <2>5 DEF Answers
  <2>7. \A k \in RoundOneKeys : x[k] \notin {"none", "bad"}
    BY <1>1, <1>2, <2>4 DEF RoundOneKeys, Keys, NumberKeys
  <2>8. \A k \in YesNoKeys \cup {"ev"} : x[k] = a[k] /\ x[k] # "none"
    BY <2>1, <2>4 DEF YesNoKeys, Keys
  <2>9. /\ x["heatPump"] = "ja" <=> x["heatDemandKwh"] # "none"
        /\ x["battery"] = "ja" <=> x["batteryCapacityKwh"] # "none"
    BY <2>3, <2>4, <2>8 DEF YesNoKeys
  <2>10. \A k \in {"heatPump", "battery"} : x[k] = "ja" <=> x[DetailOf(k)] # "none"
    BY <2>2, <2>9
  <2>11. Compute(r, x) \in Call
    BY <1>4, <2>6 DEF Compute, Call, Rounds
  <2>12. Compute(r, x).input = x
    BY DEF Compute
  <2> QED
    BY <2>7, <2>8, <2>10, <2>11, <2>12 DEF Whole
<1> QED
  BY <1>3, <1>4 DEF Rounds

-----------------------------------------------------------------------------
(* The inductive invariant.                                                     *)

(* A form, also one that says round one is missing, has the questions it went   *)
(* past answered, and is only past the last one where a change of round left it.*)
Filled ==
    page.at = "form" =>
        /\ \A i \in kept .. page.index - 1 : StepComplete(cached, page.round, i)
        /\ page.index <= LastIndex(page.round) \/ page.index <= kept

(* The counters a form has reported are in the order of the questions.          *)
InOrder(s, k) ==
    /\ \A i \in (k + 1) .. 3 : QuestionCount(i) \in s => QuestionCount(i - 1) \in s
    /\ SubmitCount(1) \in s => QuestionCount(3) \in s

(* A form in round one has reported the questions it passed.                    *)
Reported ==
    page.at = "form" /\ page.round = 1 =>
        \A i \in kept .. page.index - 1 : QuestionCount(i) \in sent

(* The field on the screen fits the answers.                                    *)
Fits(a, p, f) ==
    LET key == FieldAt(a, p.round, p.index) IN
    IF key = "none" THEN f = NoField
    ELSE a[key] = f.draft \/ (f.draft = "bad" /\ a[key] = "none")

(* The field on the screen belongs to the question and fits its answer.         *)
Shown == Asking => Fits(cached, page, field)

(* The module and the storage agree once the module has read it.                *)
Stored == read /\ blocked = "no" => session = cached

(* A computation a form waits for has been reported as submitted.               *)
Told == \A c \in Computes : c.alive => SubmitCount(c.round) \in sent

(* All of it.                                                                   *)
FlowInv ==
    /\ TypeOK
    /\ Filled /\ Shown /\ Stored
    /\ RequestsAreWhole /\ BusyIsComputing
    /\ InOrder(sent, kept) /\ Told /\ Reported

-----------------------------------------------------------------------------
(* The further a change of round left the form, the fewer questions are meant.  *)
LEMMA FurtherIsLess ==
    ASSUME NEW k \in 0 .. 4, NEW l \in 0 .. 4
    PROVE  /\ \A i \in (l + 1) .. 3 : i \in 1 .. 3
           /\ k <= l => \A i \in (l + 1) .. 3 : i \in (k + 1) .. 3
OBVIOUS

(* Wherever a visitor goes, nobody waits for what is under way any more, and a  *)
(* form that opens is at its first question with nothing reported.              *)
LEMMA ElsewhereIsSafe ==
    ASSUME FlowInv, UNCHANGED blocked, session' \in Answers, cached' \in Answers,
           read' \in BOOLEAN, page' \in Position, page'.index = 0, ~page'.busy,
           page'.at = "form" => read',
           page'.at = "form" /\ ~Missing(cached', page'.round) => Fits(cached', page', field'),
           field' \in Field, read' /\ blocked = "no" => session' = cached',
           advice' \in {"none", "loading", "shown", "failed"},
           calls' \subseteq {Read} \cup Orphaned,
           sent' \subseteq {StartCount(1), StartCount(2)},
           entered' \subseteq Rounds, kept' \in 0 .. 4,
           edits' \in 0 .. MaxEdits, mounts' \in 0 .. MaxMounts
    PROVE  FlowInv'
<1>1. \A c \in calls' : c = Read \/ (c \in Call /\ c.what = "compute" /\ ~c.alive /\ Whole(c))
  <2> SUFFICES ASSUME NEW c \in calls', c # Read
               PROVE  c \in Call /\ c.what = "compute" /\ ~c.alive /\ Whole(c)
    OBVIOUS
  <2>1. PICK d \in Computes : c = [d EXCEPT !.alive = FALSE]
    BY DEF Orphaned
  <2>2. d \in Call /\ d.what = "compute" /\ Whole(d)
    BY DEF FlowInv, TypeOK, Computes, RequestsAreWhole, Whole
  <2>3. d \in [what : {"compute"}, round : Rounds, input : Answers \cup [RoundOneKeys -> Values],
               alive : BOOLEAN]
    BY <2>2 DEF Call
  <2>4. c \in Call /\ c.what = "compute" /\ ~c.alive /\ c.input = d.input /\ c.round = d.round
    BY <2>1, <2>3 DEF Call
  <2> QED
    BY <2>2, <2>4 DEF Whole
<1>2. \A c \in Computes' : ~c.alive /\ Whole(c)
  BY <1>1 DEF Computes, Read
<1>3. calls' \subseteq Call
  BY <1>1 DEF Call, Read
<1>4. /\ StartCount(1) = "funnel_started" /\ StartCount(2) = "funnel_refine_started"
      /\ SubmitCount(1) = "funnel_submitted"
  BY DEF StartCount, SubmitCount
<1>5. /\ QuestionCount(0) = "funnel_question_1" /\ QuestionCount(1) = "funnel_question_2"
      /\ QuestionCount(2) = "funnel_question_3" /\ QuestionCount(3) = "funnel_question_4"
  BY DEF QuestionCount
<1>6. InOrder(sent', kept')
  <2>1. \A i \in 1 .. 3 : QuestionCount(i) \notin sent'
    BY <1>4, <1>5
  <2>2. SubmitCount(1) \notin sent'
    BY <1>4
  <2>3. \A i \in (kept' + 1) .. 3 : i \in 1 .. 3
    BY FurtherIsLess
  <2> QED
    BY <2>1, <2>2, <2>3 DEF InOrder
<1>7. sent' \subseteq CountNames
  BY DEF CountNames, Rounds
<1>8. TypeOK'
  BY <1>3, <1>7 DEF FlowInv, TypeOK
<1>9. Filled' /\ Reported'
  BY DEF Filled, Reported, LastIndex
<1>10. Shown' /\ Stored'
  BY DEF Shown, Stored, Fits, Asking, FourMissing
<1>11. RequestsAreWhole' /\ Told' /\ BusyIsComputing'
  BY <1>2 DEF RequestsAreWhole, Whole, Told, BusyIsComputing
<1> QED
  BY <1>6, <1>8, <1>9, <1>10, <1>11 DEF FlowInv, InOrder

(* Leaving a page for another one of the site.                                  *)
LEMMA AwayIsNowhere ==
    /\ Away \in Position /\ Away.index = 0 /\ ~Away.busy /\ Away.at = "away"
    /\ Away.round = 1 /\ ~Away.failure
    /\ NoField \in Field
BY DEF Away, Position, NoField, Field, Rounds

(* The storage of a tab that has not been asked anything.                       *)
LEMMA EmptyIsAnswers == EmptyAnswers \in Answers
BY DEF EmptyAnswers, Answers, Values, Allowed

(* Leaving the page for another one of the site.                                *)
LEMMA LeaveIsSafe ==
    ASSUME FlowInv, Leave
    PROVE  FlowInv'
<1>1. /\ page' = Away /\ field' = NoField /\ sent' = {} /\ advice' = "none" /\ calls' = Orphaned
      /\ kept' = 0 /\ UNCHANGED <<blocked, session, cached, read, entered, edits, mounts>>
  BY DEF Leave
<1>2. /\ entered' \subseteq Rounds /\ kept' \in 0 .. 4
      /\ session' \in Answers /\ cached' \in Answers /\ read' \in BOOLEAN
      /\ edits' \in 0 .. MaxEdits /\ mounts' \in 0 .. MaxMounts
      /\ read' /\ blocked = "no" => session' = cached'
  BY <1>1 DEF FlowInv, TypeOK, Stored
<1> QED
  BY <1>1, <1>2, AwayIsNowhere, ElsewhereIsSafe

-----------------------------------------------------------------------------
(* What an edit at one question leaves of the questions before it.              *)

(* The positions of the two rounds.                                             *)
LEMMA Positions ==
    ASSUME NEW r \in Rounds, NEW i \in 0 .. 4
    PROVE  (r = 1 \/ r = 2) /\ (i = 0 \/ i = 1 \/ i = 2 \/ i = 3 \/ i = 4)
BY DEF Rounds

(* One answer changed.                                                          *)
Change(a, k, v) == [a EXCEPT ![k] = v]

(* It changes that answer and no other.                                         *)
LEMMA ChangeIsAnswers ==
    ASSUME NEW a \in Answers, NEW k \in Keys, NEW v \in Allowed(k)
    PROVE  /\ Change(a, k, v) \in Answers /\ Change(a, k, v)[k] = v
           /\ \A l \in Keys \ {k} : Change(a, k, v)[l] = a[l]
<1>1. a \in [Keys -> Values] /\ \A l \in Keys : a[l] \in Allowed(l)
  BY DEF Answers
<1>2. v \in Values
  BY AllowedTable DEF Keys, NumberKeys, YesNoKeys, Values
<1> QED
  BY <1>1, <1>2 DEF Answers, Change

(* The number field of a question is no other question's, but for the last of   *)
(* round one, which is also shown past it.                                      *)
LEMMA NumberIsItsOwn ==
    ASSUME NEW a \in Answers, NEW r \in Rounds, NEW i \in 0 .. 4,
           NEW k, k = FieldAt(a, r, i), k # "none", NEW v \in Allowed(k)
    PROVE  /\ k \in NumberKeys /\ Change(a, k, v) \in Answers /\ Change(a, k, v)[k] = v
           /\ FieldAt(Change(a, k, v), r, i) = k
           /\ i <= LastIndex(r) => \A j \in 0 .. i - 1 :
                 StepComplete(a, r, j) => StepComplete(Change(a, k, v), r, j)
<1> DEFINE b == Change(a, k, v)
<1>1. \/ r = 1 /\ i = 0 /\ k = "postcode4"
      \/ r = 1 /\ i = 1 /\ k = "peakPowerWp"
      \/ r = 1 /\ (i = 3 \/ i = 4) /\ k = "annualConsumptionKwh"
      \/ r = 2 /\ i = 2 /\ a["heatPump"] = "ja" /\ k = "heatDemandKwh"
      \/ r = 2 /\ i = 4 /\ a["battery"] = "ja" /\ k = "batteryCapacityKwh"
  BY Positions, FieldTable
<1>2. k \in NumberKeys /\ k \in Keys
  BY <1>1 DEF NumberKeys, Keys
<1>3. b \in Answers /\ b[k] = v /\ \A l \in Keys \ {k} : b[l] = a[l]
  BY <1>2, ChangeIsAnswers
<1> HIDE DEF b
<1>4. FieldAt(b, r, i) = k
  <2>1. b["heatPump"] = a["heatPump"] /\ b["battery"] = a["battery"]
    BY <1>1, <1>3 DEF Keys, YesNoKeys
  <2> QED
    BY <1>1, <2>1, FieldTable
<1>5. ASSUME i <= LastIndex(r), NEW j \in 0 .. i - 1, StepComplete(a, r, j)
      PROVE  StepComplete(b, r, j)
  <2>1. j = 0 \/ j = 1 \/ j = 2 \/ j = 3
    OBVIOUS
  <2>2. /\ k # "roof" /\ \A l \in YesNoKeys \cup {"ev"} : b[l] = a[l]
        /\ b["roof"] = a["roof"]
    BY <1>2, <1>3 DEF Keys, YesNoKeys, NumberKeys
  <2>3. CASE r = 1
    <3>0. i # 4
      BY <1>5, <2>3 DEF LastIndex
    <3>1. \/ j = 0 /\ k # "postcode4" /\ b["postcode4"] = a["postcode4"]
          \/ j = 1 /\ k # "peakPowerWp" /\ b["peakPowerWp"] = a["peakPowerWp"]
          \/ j = 2
      BY <1>1, <1>3, <2>1, <2>3, <3>0 DEF Keys, NumberKeys
    <3> QED
      BY <1>5, <2>2, <2>3, <3>1, StepTable
  <2>4. CASE r = 2
    <3>1. \/ j # 2
          \/ j = 2 /\ k # "heatDemandKwh" /\ b["heatDemandKwh"] = a["heatDemandKwh"]
      BY <1>1, <1>3, <2>1, <2>4 DEF Keys, NumberKeys
    <3> QED
      BY <1>5, <2>1, <2>2, <2>4, <3>1, StepTable DEF YesNoKeys
  <2> QED
    BY <2>3, <2>4 DEF Rounds
<1> QED
  BY <1>2, <1>3, <1>4, <1>5 DEF b

(* A field that mounts shows the answer there is.                               *)
LEMMA MountedFits ==
    ASSUME NEW a \in Answers, NEW p, p.round \in Rounds, p.index \in 0 .. 4
    PROVE  /\ FieldFor(a, p.round, p.index) \in Field
           /\ Fits(a, p, FieldFor(a, p.round, p.index))
<1> DEFINE k == FieldAt(a, p.round, p.index)
<1>1. k = "none" \/ k \in NumberKeys
  <2> HIDE DEF k
  <2>1. k = FieldAt(a, p.round, p.index)
    BY DEF k
  <2> QED
    BY <2>1, Positions, FieldTable DEF NumberKeys
<1>2. CASE k = "none"
  BY <1>2 DEF FieldFor, Fits, NoField, Field
<1>3. CASE k # "none" /\ k \in NumberKeys
  <2>1. a[k] \in {"none", "good", "bad"}
    BY <1>3, AnswerTypes
  <2>2. FieldFor(a, p.round, p.index) = [draft |-> a[k], left |-> FALSE]
    BY <1>3 DEF FieldFor
  <2> QED
    BY <1>3, <2>1, <2>2 DEF Fits, Field
<1> QED
  BY <1>1, <1>2, <1>3

(* So does the field of a question that is on the screen.                       *)
LEMMA FieldOnFits ==
    ASSUME NEW a \in Answers, NEW p, p.round \in Rounds, p.index \in 0 .. 4
    PROVE  /\ FieldOn(a, p.round, p.index) \in Field
           /\ ~Missing(a, p.round) => Fits(a, p, FieldOn(a, p.round, p.index))
BY MountedFits, AwayIsNowhere DEF FieldOn

(* A change at the question that is asked keeps the invariant when it keeps the *)
(* questions before it and the field fits what is stored.                       *)
LEMMA EditIsSafe ==
    ASSUME FlowInv, Asking, UNCHANGED <<blocked, read, advice, calls, sent,
                                        entered, kept, mounts>>,
           cached' \in Answers, session' \in Answers,
           read /\ blocked = "no" => session' = cached', page' \in Position,
           page'.at = page.at, page'.round = page.round, page'.index = page.index,
           page'.busy = page.busy, page'.failure = page.failure,
           field' \in Field, Fits(cached', page', field'),
           \A j \in kept .. page.index - 1 :
               StepComplete(cached, page.round, j) => StepComplete(cached', page.round, j),
           edits' \in 0 .. MaxEdits
    PROVE  FlowInv'
<1>2. TypeOK'
  BY DEF FlowInv, TypeOK
<1>3. \A j : StepComplete(cached, page.round, j)' = StepComplete(cached', page'.round, j)
  BY DEF StepComplete, FieldAt, YesNoAt, DetailOf
<1>4. Filled'
  BY <1>3 DEF FlowInv, Filled, Asking, LastIndex
<1>5. Shown' /\ Stored'
  BY DEF Shown, Stored, Fits
<1>6. RequestsAreWhole' /\ BusyIsComputing' /\ Told'
  BY DEF FlowInv, RequestsAreWhole, BusyIsComputing, Told, Computes
<1>7. InOrder(sent, kept)' /\ Reported'
  BY DEF FlowInv, InOrder, Reported
<1> QED
  BY <1>2, <1>4, <1>5, <1>6, <1>7 DEF FlowInv

-----------------------------------------------------------------------------
(* The controls, one by one.                                                    *)

(* A question has a number field for a number, or none.                         *)
LEMMA FieldKinds ==
    ASSUME NEW a \in Answers, NEW r \in Rounds, NEW i \in 0 .. 4
    PROVE  FieldAt(a, r, i) = "none" \/ FieldAt(a, r, i) \in NumberKeys
BY Positions, FieldTable DEF NumberKeys

(* Where an asking form stands.                                                 *)
LEMMA AskingStands ==
    ASSUME FlowInv, Asking
    PROVE  /\ page \in Position /\ page.at = "form" /\ page.round \in Rounds
           /\ page.index \in 0 .. 4 /\ kept \in 0 .. 4
           /\ page.index <= LastIndex(page.round) \/ page.index <= kept
           /\ cached \in Answers /\ session \in Answers /\ field \in Field
           /\ read \in BOOLEAN /\ Fits(cached, page, field)
           /\ \A i \in kept .. page.index - 1 : StepComplete(cached, page.round, i)
           /\ read /\ blocked = "no" => session = cached
BY DEF FlowInv, TypeOK, Asking, Position, Shown, Filled, Stored

(* Typing stores what the field accepts, and nothing for what it refuses.       *)
LEMMA TypeIsSafe ==
    ASSUME FlowInv, NEW draft \in {"none", "good", "bad"}, Type(draft)
    PROVE  FlowInv'
<1> DEFINE key == FieldAt(cached, page.round, page.index)
           v == IF draft = "bad" THEN "none" ELSE draft
           b == Change(cached, key, v)
           p == [page EXCEPT !.refusing = (draft = "bad"), !.missing = FALSE]
           f == [field EXCEPT !.draft = draft]
<1>1. /\ Asking /\ key # "none" /\ cached' = b /\ page' = p /\ field' = f
      /\ session' = IF blocked = "no" THEN b ELSE session
      /\ edits < MaxEdits /\ edits' = edits + 1
      /\ UNCHANGED <<blocked, read, advice, calls, sent, entered, kept, mounts>>
  BY DEF Type, Edit, Update, Change
<1>2. key \in NumberKeys
  BY <1>1, AskingStands, FieldKinds
<1>3. v \in Allowed(key)
  <2>1. v = "none" \/ v = "good"
    OBVIOUS
  <2> HIDE DEF key, v
  <2> QED
    BY <1>2, <2>1, AllowedTable DEF NumberKeys
<1>4. /\ b \in Answers /\ b[key] = v /\ FieldAt(b, page.round, page.index) = key
      /\ \A j \in kept .. page.index - 1 :
            StepComplete(cached, page.round, j) => StepComplete(b, page.round, j)
  <2>1. /\ cached \in Answers /\ page.round \in Rounds /\ page.index \in 0 .. 4
        /\ kept \in 0 .. 4
        /\ page.index <= LastIndex(page.round) \/ page.index <= kept
    BY <1>1, AskingStands
  <2>3. key = FieldAt(cached, page.round, page.index)
    OBVIOUS
  <2> HIDE DEF v, key, b
  <2>4. /\ b \in Answers /\ b[key] = v /\ FieldAt(b, page.round, page.index) = key
        /\ page.index <= LastIndex(page.round) => \A j \in 0 .. page.index - 1 :
              StepComplete(cached, page.round, j) => StepComplete(b, page.round, j)
    BY <1>1, <1>3, <2>1, <2>3, NumberIsItsOwn DEF b
  <2> QED
    BY <2>1, <2>4
<1>5. /\ p \in Position /\ p.at = page.at /\ p.round = page.round /\ p.index = page.index
      /\ p.busy = page.busy /\ p.failure = page.failure
  BY <1>1, AskingStands DEF Position
<1>6. f \in Field /\ f.draft = draft
  BY <1>1, AskingStands DEF Field
<1> HIDE DEF key, b, p, f
<1>7. Fits(b, p, f)
  BY <1>1, <1>4, <1>5, <1>6 DEF Fits
<1>8. edits' \in 0 .. MaxEdits
  BY <1>1, FlowAssumption DEF FlowInv, TypeOK
<1>9. session' \in Answers
  BY <1>1, <1>4, AskingStands
<1> QED
  BY <1>1, <1>4, <1>5, <1>6, <1>7, <1>8, <1>9, EditIsSafe

(* A yes or no is no other question's, and neither is the detail it forgets.    *)
LEMMA YesNoIsItsOwn ==
    ASSUME NEW a \in Answers, NEW i \in {0, 2, 3, 4}, NEW v \in {"ja", "nee"}
    PROVE  LET c == Change(a, YesNoAt(i), v)
               b == IF DetailOf(YesNoAt(i)) # "none" /\ v = "nee"
                    THEN Change(c, DetailOf(YesNoAt(i)), "none") ELSE c
           IN  b \in Answers /\ \A j \in 0 .. i - 1 : StepComplete(a, 2, j) => StepComplete(b, 2, j)
<1> DEFINE k == YesNoAt(i)
           d == DetailOf(k)
           c == Change(a, k, v)
           e == Change(c, d, "none")
           b == IF d # "none" /\ v = "nee" THEN e ELSE c
<1>1. /\ YesNoAt(0) = "daytimeOccupancy" /\ YesNoAt(2) = "heatPump"
      /\ YesNoAt(3) = "dynamicContract" /\ YesNoAt(4) = "battery"
      /\ DetailOf("heatPump") = "heatDemandKwh" /\ DetailOf("battery") = "batteryCapacityKwh"
      /\ DetailOf("daytimeOccupancy") = "none" /\ DetailOf("dynamicContract") = "none"
  BY DEF YesNoAt, DetailOf
<1>2. \/ i = 0 /\ k = "daytimeOccupancy" /\ d = "none"
      \/ i = 2 /\ k = "heatPump" /\ d = "heatDemandKwh"
      \/ i = 3 /\ k = "dynamicContract" /\ d = "none"
      \/ i = 4 /\ k = "battery" /\ d = "batteryCapacityKwh"
  BY <1>1
<1>3. k \in YesNoKeys /\ k \in Keys /\ (d # "none" => d \in Keys)
  <2> HIDE DEF k, d
  <2> QED
    BY <1>2 DEF YesNoKeys, Keys, NumberKeys
<1>4. v \in Allowed(k) /\ (d # "none" => "none" \in Allowed(d))
  <2> HIDE DEF k, d
  <2> QED
    BY <1>2, AllowedTable
<1> HIDE DEF k, d
<1>5. c \in Answers /\ \A l \in Keys \ {k} : c[l] = a[l]
  BY <1>3, <1>4, ChangeIsAnswers
<1> HIDE DEF c
<1>6. d # "none" => e \in Answers /\ \A l \in Keys \ {d} : e[l] = c[l]
  BY <1>3, <1>4, <1>5, ChangeIsAnswers
<1> HIDE DEF e
<1>7. b \in Answers /\ \A l \in Keys \ {k, d} : b[l] = a[l]
  BY <1>5, <1>6
<1> HIDE DEF b
<1>8. ASSUME NEW j \in 0 .. i - 1, StepComplete(a, 2, j)
      PROVE  StepComplete(b, 2, j)
  <2>1. \/ j = 0 /\ b["daytimeOccupancy"] = a["daytimeOccupancy"]
        \/ j = 1 /\ b["ev"] = a["ev"]
        \/ j = 2 /\ b["heatPump"] = a["heatPump"] /\ b["heatDemandKwh"] = a["heatDemandKwh"]
        \/ j = 3 /\ b["dynamicContract"] = a["dynamicContract"]
    BY <1>2, <1>7 DEF Keys, YesNoKeys, NumberKeys
  <2> QED
    BY <1>8, <2>1, StepTable
<1> QED
  BY <1>7, <1>8 DEF b, c, d, e, k

(* Choosing a yes or a no mounts the field of its detail anew, or takes it      *)
(* away.                                                                        *)
LEMMA ChooseIsSafe ==
    ASSUME FlowInv, NEW value \in {"ja", "nee"}, Choose(value)
    PROVE  FlowInv'
<1> DEFINE i == page.index
           c == Change(cached, YesNoAt(i), value)
           b == IF DetailOf(YesNoAt(i)) # "none" /\ value = "nee"
                THEN Change(c, DetailOf(YesNoAt(i)), "none") ELSE c
           p == [page EXCEPT !.missing = FALSE]
           f == FieldFor(b, 2, i)
<1>1. /\ Asking /\ page.round = 2 /\ i # 1 /\ cached' = b /\ page' = p /\ field' = f
      /\ session' = IF blocked = "no" THEN b ELSE session
      /\ edits < MaxEdits /\ edits' = edits + 1
      /\ UNCHANGED <<blocked, read, advice, calls, sent, entered, kept, mounts>>
  BY DEF Choose, Edit, Update, Change
<1>2. i \in {0, 2, 3, 4}
  BY <1>1, AskingStands
<1>3. b \in Answers /\ \A j \in 0 .. i - 1 : StepComplete(cached, 2, j) => StepComplete(b, 2, j)
  <2>1. cached \in Answers
    BY <1>1, AskingStands
  <2> HIDE DEF i
  <2> QED
    BY <1>2, <2>1, YesNoIsItsOwn
<1> HIDE DEF b
<1>4. /\ p \in Position /\ p.at = page.at /\ p.round = page.round /\ p.index = page.index
      /\ p.busy = page.busy /\ p.failure = page.failure
  BY <1>1, AskingStands DEF Position
<1> HIDE DEF p
<1>5. f \in Field /\ Fits(b, p, f)
  BY <1>1, <1>3, <1>4, AskingStands, MountedFits
<1> HIDE DEF f
<1>6. edits' \in 0 .. MaxEdits
  BY <1>1, FlowAssumption DEF FlowInv, TypeOK
<1>7. session' \in Answers
  BY <1>1, <1>3, AskingStands
<1>8. \A j \in kept .. page.index - 1 :
        StepComplete(cached, page.round, j) => StepComplete(b, page.round, j)
  <2>1. kept \in 0 .. 4
    BY <1>1, AskingStands
  <2> QED
    BY <1>1, <1>3, <2>1
<1> QED
  BY <1>1, <1>3, <1>4, <1>5, <1>6, <1>7, <1>8, EditIsSafe

(* Choosing how the car is charged leaves the first question of round two       *)
(* alone.                                                                       *)
LEMMA ChooseEvIsSafe ==
    ASSUME FlowInv, NEW value \in {"NONE", "NIGHT"}, ChooseEv(value)
    PROVE  FlowInv'
<1> DEFINE b == Change(cached, "ev", value)
           p == [page EXCEPT !.missing = FALSE]
<1>1. /\ Asking /\ page.round = 2 /\ page.index = 1 /\ cached' = b /\ page' = p
      /\ session' = IF blocked = "no" THEN b ELSE session
      /\ edits < MaxEdits /\ edits' = edits + 1
      /\ UNCHANGED <<blocked, read, field, advice, calls, sent, entered, kept, mounts>>
  BY DEF ChooseEv, Edit, Update, Change
<1>2. "ev" \in Keys /\ value \in Allowed("ev") /\ "daytimeOccupancy" \in Keys \ {"ev"}
  BY AllowedTable DEF Keys, YesNoKeys
<1>3. b \in Answers /\ b["daytimeOccupancy"] = cached["daytimeOccupancy"]
  BY <1>1, <1>2, AskingStands, ChangeIsAnswers
<1> HIDE DEF b
<1>4. /\ p \in Position /\ p.at = page.at /\ p.round = page.round /\ p.index = page.index
      /\ p.busy = page.busy /\ p.failure = page.failure
  BY <1>1, AskingStands DEF Position
<1> HIDE DEF p
<1>5. Fits(b, p, field)
  BY <1>1, <1>4, AskingStands, FieldTable DEF Fits
<1>6. \A j \in kept .. page.index - 1 :
        StepComplete(cached, page.round, j) => StepComplete(b, page.round, j)
  BY <1>1, <1>3, AskingStands, StepTable
<1>7. edits' \in 0 .. MaxEdits
  BY <1>1, FlowAssumption DEF FlowInv, TypeOK
<1>8. session' \in Answers /\ field' \in Field
  BY <1>1, <1>3, AskingStands
<1> QED
  BY <1>1, <1>3, <1>4, <1>5, <1>6, <1>7, <1>8, EditIsSafe

(* So does the roof, with the first two questions of round one.                 *)
LEMMA PickRoofIsSafe ==
    ASSUME FlowInv, NEW direction \in BOOLEAN, PickRoof(direction)
    PROVE  FlowInv'
<1> DEFINE v == IF direction THEN "chosen" ELSE cached["roof"]
           b == Change(cached, "roof", v)
           p == [page EXCEPT !.missing = FALSE]
<1>1. /\ Asking /\ page.round = 1 /\ page.index = 2 /\ cached' = b /\ page' = p
      /\ session' = IF blocked = "no" THEN b ELSE session
      /\ edits < MaxEdits /\ edits' = edits + 1
      /\ UNCHANGED <<blocked, read, field, advice, calls, sent, entered, kept, mounts>>
  BY DEF PickRoof, Edit, Update, Change
<1>2. /\ "roof" \in Keys
      /\ {"postcode4", "peakPowerWp"} \subseteq Keys \ {"roof"}
  BY DEF Keys, NumberKeys
<1>3. v \in Allowed("roof")
  BY <1>1, AskingStands, AnswerTypes, AllowedTable
<1> HIDE DEF v
<1>4. /\ b \in Answers /\ b["postcode4"] = cached["postcode4"]
      /\ b["peakPowerWp"] = cached["peakPowerWp"]
  BY <1>1, <1>2, <1>3, AskingStands, ChangeIsAnswers
<1> HIDE DEF b
<1>5. /\ p \in Position /\ p.at = page.at /\ p.round = page.round /\ p.index = page.index
      /\ p.busy = page.busy /\ p.failure = page.failure
  BY <1>1, AskingStands DEF Position
<1> HIDE DEF p
<1>6. Fits(b, p, field)
  BY <1>1, <1>5, AskingStands, FieldTable DEF Fits
<1>7. \A j \in kept .. page.index - 1 :
        StepComplete(cached, page.round, j) => StepComplete(b, page.round, j)
  <2> SUFFICES ASSUME NEW j \in {0, 1}, StepComplete(cached, 1, j)
               PROVE  StepComplete(b, 1, j)
    BY <1>1, AskingStands
  <2> QED
    BY <1>4, StepTable
<1>8. edits' \in 0 .. MaxEdits
  BY <1>1, FlowAssumption DEF FlowInv, TypeOK
<1>9. session' \in Answers /\ field' \in Field
  BY <1>1, <1>4, AskingStands
<1> QED
  BY <1>1, <1>4, <1>5, <1>6, <1>7, <1>8, <1>9, EditIsSafe

(* Leaving the field changes what it says, not what it holds.                   *)
LEMMA LeaveFieldIsSafe ==
    ASSUME FlowInv, LeaveField
    PROVE  FlowInv'
<1> DEFINE f == [field EXCEPT !.left = TRUE]
<1>1. /\ Asking /\ field # NoField /\ field' = f
      /\ UNCHANGED <<blocked, session, cached, read, page, advice, calls, sent,
                     entered, kept, edits, mounts>>
  BY DEF LeaveField
<1>2. f \in Field /\ f.draft = field.draft
  BY <1>1, AskingStands DEF Field
<1> HIDE DEF f
<1>3. Fits(cached, page, f)
  BY <1>1, <1>2, AskingStands DEF Fits
<1>4. edits' \in 0 .. MaxEdits
  BY <1>1 DEF FlowInv, TypeOK
<1> QED
  BY <1>1, <1>2, <1>3, <1>4, AskingStands, EditIsSafe

-----------------------------------------------------------------------------
(* On and back.                                                                 *)

(* A form that stays, at the same question or another, keeps the invariant when *)
(* its field fits, the questions before it are answered and reported, and what  *)
(* it waits for is under way.                                                   *)
LEMMA FormIsSafe ==
    ASSUME FlowInv, UNCHANGED <<blocked, session, cached, read, advice,
                                entered, kept, edits, mounts>>,
           page.at = "form", page' \in Position, page'.at = "form", page'.round = page.round,
           page'.index <= LastIndex(page.round) \/ page'.index <= kept,
           field' \in Field, Fits(cached, page', field'),
           \A j \in kept .. page'.index - 1 : StepComplete(cached, page.round, j),
           calls' \subseteq Call, RequestsAreWhole', BusyIsComputing', Told',
           sent' \subseteq CountNames, InOrder(sent', kept),
           page.round = 1 => \A j \in kept .. page'.index - 1 : QuestionCount(j) \in sent'
    PROVE  FlowInv'
<1>1. TypeOK'
  BY DEF FlowInv, TypeOK
<1>2. \A j : StepComplete(cached, page.round, j)' = StepComplete(cached', page'.round, j)
  BY DEF StepComplete, FieldAt, YesNoAt, DetailOf
<1>3. Filled'
  BY <1>2 DEF Filled, LastIndex
<1>4. Shown' /\ Stored'
  BY DEF FlowInv, Shown, Stored, Fits
<1>5. InOrder(sent, kept)'
  BY DEF InOrder
<1>6. Reported'
  BY DEF Reported, QuestionCount
<1> QED
  BY <1>1, <1>3, <1>4, <1>5, <1>6 DEF FlowInv

(* The question before this one is answered, and so are those before it.        *)
LEMMA BackIsSafe ==
    ASSUME FlowInv, Back
    PROVE  FlowInv'
<1>1. Asking /\ ~page.busy
  BY DEF Back
<1>2. CASE page.index = 0
  <2>1. Leave
    BY <1>2 DEF Back
  <2> QED
    BY <2>1, LeaveIsSafe
<1>3. CASE page.index # 0
  <2> DEFINE p == [page EXCEPT !.missing = FALSE, !.refusing = FALSE,
                               !.failure = FALSE, !.index = page.index - 1]
             f == FieldFor(cached, page.round, page.index - 1)
  <2>1. /\ page' = p /\ field' = f
        /\ UNCHANGED <<blocked, session, cached, read, advice, calls, sent,
                       entered, kept, edits, mounts>>
    BY <1>3 DEF Back
  <2>2. /\ page.index - 1 \in 0 .. 4
        /\ page.index - 1 <= LastIndex(page.round) \/ page.index - 1 <= kept
    BY <1>1, <1>3, AskingStands DEF LastIndex
  <2>3. /\ p \in Position /\ p.at = "form" /\ p.round = page.round
        /\ p.index = page.index - 1 /\ p.busy = page.busy /\ ~p.failure
    BY <1>1, <2>2, AskingStands DEF Position
  <2> HIDE DEF p
  <2>4. f \in Field /\ Fits(cached, p, f)
    BY <1>1, <2>2, <2>3, AskingStands, MountedFits
  <2> HIDE DEF f
  <2>5. \A j \in kept .. p.index - 1 : StepComplete(cached, page.round, j)
    BY <1>1, <2>3, AskingStands
  <2>6. RequestsAreWhole' /\ BusyIsComputing' /\ Told' /\ calls' \subseteq Call
    BY <1>1, <2>1, <2>3
    DEF FlowInv, TypeOK, RequestsAreWhole, BusyIsComputing, Told, Computes
  <2>7. sent' \subseteq CountNames /\ InOrder(sent', kept)
    BY <2>1 DEF FlowInv, TypeOK
  <2>8. page.round = 1 => \A j \in kept .. p.index - 1 : QuestionCount(j) \in sent'
    BY <1>1, <2>1, <2>3, AskingStands DEF FlowInv, Reported
  <2> QED
    BY <1>1, <2>1, <2>2, <2>3, <2>4, <2>5, <2>6, <2>7, <2>8, AskingStands, FormIsSafe
<1> QED
  BY <1>2, <1>3

(* The field that stays on the screen fits as it did.                           *)
LEMMA StayFits ==
    ASSUME FlowInv, Asking, NEW enter \in BOOLEAN
    PROVE  Stay(enter) \in Field /\ Fits(cached, page, Stay(enter))
<1> DEFINE l == field # NoField
           f == [field EXCEPT !.left = l]
<1>1. field \in Field /\ Fits(cached, page, field)
  BY AskingStands
<1>2. f \in Field /\ f.draft = field.draft /\ f.left = l
  BY <1>1 DEF Field
<1>3. field = NoField => f = NoField
  <2> SUFFICES ASSUME field = NoField PROVE f = NoField
    OBVIOUS
  <2>1. l = FALSE
    OBVIOUS
  <2>2. NoField \in Field /\ NoField.left = FALSE
    BY AwayIsNowhere DEF NoField
  <2>3. [NoField EXCEPT !.left = FALSE] = NoField
    BY <2>2 DEF Field
  <2> HIDE DEF l
  <2> QED
    BY <2>1, <2>3
<1> HIDE DEF f
<1>4. Fits(cached, page, f)
  BY <1>1, <1>2, <1>3 DEF Fits
<1> QED
  BY <1>1, <1>2, <1>4 DEF Stay, f

(* The names of the counters.                                                   *)
LEMMA CountTable ==
    /\ QuestionCount(0) = "funnel_question_1" /\ QuestionCount(1) = "funnel_question_2"
    /\ QuestionCount(2) = "funnel_question_3" /\ QuestionCount(3) = "funnel_question_4"
    /\ SubmitCount(1) = "funnel_submitted" /\ SubmitCount(2) = "funnel_refine_submitted"
BY DEF QuestionCount, SubmitCount

(* What next() reports comes after what was reported.                           *)
LEMMA CountedInOrder ==
    ASSUME FlowInv, Asking, page.index <= LastIndex(page.round)
    PROVE  /\ sent \subseteq Counted /\ Counted \subseteq CountNames /\ InOrder(Counted, kept)
           /\ page.round = 1 => \A j \in kept .. page.index : QuestionCount(j) \in Counted
<1>1. /\ sent \subseteq CountNames /\ InOrder(sent, kept) /\ page.at = "form"
      /\ page.round \in Rounds /\ page.index \in 0 .. 4 /\ kept \in 0 .. 4
      /\ page.round = 1 => \A j \in kept .. page.index - 1 : QuestionCount(j) \in sent
  BY AskingStands DEF FlowInv, TypeOK, Reported
<1>2. CASE page.round = 2
  BY <1>1, <1>2 DEF Counted
<1>3. CASE page.round = 1
  <2>1. Counted = sent \cup {QuestionCount(page.index)}
    BY <1>3 DEF Counted
  <2>2. page.index = 0 \/ page.index = 1 \/ page.index = 2 \/ page.index = 3
    BY <1>1, <1>3 DEF LastIndex
  <2>3. \A j \in kept .. page.index : QuestionCount(j) \in Counted
    BY <1>1, <1>3, <2>1
  <2>4. InOrder(Counted, kept)
    <3>1. ASSUME NEW i \in (kept + 1) .. 3, QuestionCount(i) \in Counted
          PROVE  QuestionCount(i - 1) \in Counted
      <4>1. i = 1 \/ i = 2 \/ i = 3
        BY <1>1
      <4>2. CASE QuestionCount(i) \in sent
        BY <1>1, <2>1, <4>2 DEF InOrder
      <4>3. CASE QuestionCount(i) = QuestionCount(page.index)
        <5>1. i = page.index
          BY <2>2, <4>1, <4>3, CountTable
        <5> QED
          BY <1>1, <1>3, <2>1, <5>1
      <4> QED
        BY <2>1, <3>1, <4>2, <4>3
    <3>2. SubmitCount(1) \in Counted => QuestionCount(3) \in Counted
      <4>1. SubmitCount(1) # QuestionCount(page.index)
        BY <2>2, CountTable
      <4> QED
        BY <1>1, <2>1, <4>1 DEF InOrder
    <3> QED
      BY <3>1, <3>2 DEF InOrder
  <2>5. QuestionCount(page.index) \in CountNames
    BY <2>2 DEF CountNames
  <2> QED
    BY <1>1, <2>1, <2>3, <2>4, <2>5
<1> QED
  BY <1>1, <1>2, <1>3 DEF Rounds

(* There is one body to send, or none.                                          *)
LEMMA OneInput ==
    ASSUME NEW a, NEW r
    PROVE  \A x, y \in InputOf(a, r) : x = y
BY DEF InputOf, ToEstimateInput, ToRefineInput

(* The last question is answered: a form that is not waiting sends one request, *)
(* or says that nothing can be sent.                                            *)
LEMMA SubmitIsSafe ==
    ASSUME FlowInv, Asking, ~page.busy, page.index = LastIndex(page.round), Submit(Counted),
           NEW enter \in BOOLEAN, field' = Stay(enter),
           UNCHANGED <<blocked, session, cached, read, advice,
                       entered, kept, edits, mounts>>
    PROVE  FlowInv'
<1>1. /\ page.round \in Rounds /\ page.index \in 0 .. 4 /\ page \in Position
      /\ calls \subseteq Call /\ cached \in Answers
      /\ \A c \in Computes : ~c.alive /\ Whole(c)
  BY AskingStands DEF FlowInv, TypeOK, BusyIsComputing, RequestsAreWhole, Whole
<1>9. /\ page.index <= LastIndex(page.round) /\ kept \in 0 .. 4
      /\ \A j \in kept .. page.index - 1 : StepComplete(cached, page.round, j)
      /\ Counted \subseteq CountNames /\ InOrder(Counted, kept) /\ sent \subseteq Counted
      /\ page.round = 1 => \A j \in kept .. page.index - 1 : QuestionCount(j) \in Counted
  <2>1. page.index <= LastIndex(page.round)
    BY <1>1
  <2> QED
    BY <1>1, <2>1, AskingStands, CountedInOrder
<1>2. field' \in Field /\ Fits(cached, page, field')
  BY StayFits
<1>3. CASE InputOf(cached, page.round) = {}
  <2> DEFINE p == [page EXCEPT !.missing = TRUE, !.failure = FALSE]
  <2>1. page' = p /\ sent' = Counted /\ calls' = calls
    BY <1>3 DEF Submit
  <2>2. /\ p \in Position /\ p.at = "form" /\ p.round = page.round /\ p.index = page.index
        /\ ~p.busy
    BY <1>1, AskingStands DEF Position
  <2> HIDE DEF p
  <2>3. Computes' = Computes
    BY <2>1 DEF Computes
  <2>5. RequestsAreWhole' /\ BusyIsComputing' /\ Told'
    BY <1>1, <1>9, <2>1, <2>2, <2>3 DEF RequestsAreWhole, Whole, BusyIsComputing, Told
  <2>4. Fits(cached, p, field')
    BY <1>2, <2>2 DEF Fits
  <2> QED
    BY <1>1, <1>2, <1>9, <2>1, <2>2, <2>4, <2>5, AskingStands, FormIsSafe
<1>4. CASE InputOf(cached, page.round) # {}
  <2>1. PICK x \in InputOf(cached, page.round) : TRUE
    BY <1>4
  <2> DEFINE c == Compute(page.round, x)
             p == [page EXCEPT !.missing = FALSE, !.busy = TRUE, !.failure = FALSE]
             s == Counted \cup {SubmitCount(page.round)}
  <2>2. InputOf(cached, page.round) = {x}
    BY <2>1, OneInput
  <2>3. page' = p /\ sent' = s /\ calls' = calls \cup {c}
    BY <1>4, <2>2 DEF Submit
  <2>4. /\ p \in Position /\ p.at = "form" /\ p.round = page.round /\ p.index = page.index
        /\ p.busy /\ ~p.failure
    BY <1>1, AskingStands DEF Position
  <2> HIDE DEF p
  <2>5. c \in Call /\ Whole(c)
    BY <1>1, <2>1, InputIsWhole
  <2>6. c.what = "compute" /\ c.alive /\ c.round = page.round
    BY DEF Compute
  <2> HIDE DEF c
  <2>7. Computes' = Computes \cup {c}
    BY <2>3, <2>6 DEF Computes
  <2>8. RequestsAreWhole' /\ BusyIsComputing' /\ Told'
    BY <1>1, <2>3, <2>4, <2>5, <2>6, <2>7 DEF RequestsAreWhole, Whole, BusyIsComputing, Told
  <2>9. s \subseteq CountNames /\ InOrder(s, kept)
    <3>1. SubmitCount(page.round) \in CountNames
      BY <1>1 DEF CountNames
    <3>2. /\ SubmitCount(page.round) \notin {QuestionCount(i) : i \in 0 .. 3}
          /\ page.round # 1 => SubmitCount(page.round) # SubmitCount(1)
      <4>1. page.round = 1 \/ page.round = 2
        BY <1>1 DEF Rounds
      <4>2. \A i \in 0 .. 3 : i = 0 \/ i = 1 \/ i = 2 \/ i = 3
        OBVIOUS
      <4> QED
        BY <4>1, <4>2, CountTable
    <3>3. page.round = 1 => QuestionCount(3) \in Counted
      <4>1. SUFFICES ASSUME page.round = 1 PROVE QuestionCount(3) \in Counted
        OBVIOUS
      <4>2. page.index = 3
        BY <4>1 DEF LastIndex
      <4> QED
        BY <4>1, <4>2 DEF Counted
    <3>4. ASSUME NEW i \in (kept + 1) .. 3, QuestionCount(i) \in s
          PROVE  QuestionCount(i - 1) \in s
      <4>1. i \in 0 .. 3
        BY <1>9
      <4>2. QuestionCount(i) \in Counted
        BY <3>2, <3>4, <4>1
      <4> QED
        BY <1>9, <4>2 DEF InOrder
    <3>5. SubmitCount(1) \in s => QuestionCount(3) \in s
      BY <1>9, <3>2, <3>3 DEF InOrder
    <3>6. InOrder(s, kept)
      BY <3>4, <3>5 DEF InOrder
    <3> QED
      BY <1>9, <3>1, <3>6
  <2>10. page.round = 1 => \A j \in kept .. page.index - 1 : QuestionCount(j) \in s
    BY <1>9
  <2> HIDE DEF s
  <2>11. Fits(cached, p, field')
    BY <1>2, <2>4 DEF Fits
  <2>12. calls' \subseteq Call
    BY <1>1, <2>3, <2>5
  <2> QED
    BY <1>1, <1>2, <1>9, <2>3, <2>4, <2>8, <2>9, <2>10, <2>11, <2>12, AskingStands, FormIsSafe
<1> QED
  BY <1>3, <1>4

(* next(): the question is refused, the next one asked, or the round submitted. *)
LEMMA GoOnIsSafe ==
    ASSUME FlowInv, NEW enter \in BOOLEAN, GoOn(enter)
    PROVE  FlowInv'
<1>1. /\ Asking /\ ~page.busy /\ Advance(Stay(enter))
      /\ UNCHANGED <<blocked, session, cached, read, advice,
                     entered, kept, edits, mounts>>
  BY DEF GoOn
<1>2. /\ page \in Position /\ page.at = "form" /\ page.round \in Rounds
      /\ page.index \in 0 .. 4 /\ kept \in 0 .. 4 /\ cached \in Answers
      /\ LastIndex(page.round) \in {3, 4}
      /\ \A i \in kept .. page.index - 1 : StepComplete(cached, page.round, i)
      /\ Stay(enter) \in Field /\ Fits(cached, page, Stay(enter))
  BY <1>1, AskingStands, StayFits DEF LastIndex
<1>3. CASE ~StepComplete(cached, page.round, page.index)
  <2> DEFINE p == [page EXCEPT !.missing = MissingSaid]
  <2>1. page' = p /\ field' = Stay(enter) /\ UNCHANGED <<calls, sent>>
    BY <1>1, <1>3 DEF Advance
  <2>2. /\ p \in Position /\ p.at = page.at /\ p.round = page.round /\ p.index = page.index
        /\ p.busy = page.busy /\ p.failure = page.failure
    BY <1>2 DEF Position, MissingSaid
  <2> HIDE DEF p
  <2>3. Fits(cached, p, field')
    BY <1>2, <2>1, <2>2 DEF Fits
  <2>4. edits' \in 0 .. MaxEdits
    BY <1>1 DEF FlowInv, TypeOK
  <2> QED
    BY <1>1, <1>2, <2>1, <2>2, <2>3, <2>4, AskingStands, EditIsSafe
<1>4. CASE StepComplete(cached, page.round, page.index) /\ page.index = LastIndex(page.round)
  <2>1. Submit(Counted) /\ field' = Stay(enter)
    BY <1>1, <1>2, <1>4 DEF Advance
  <2> QED
    BY <1>1, <1>4, <2>1, SubmitIsSafe
<1>6. CASE StepComplete(cached, page.round, page.index) /\ page.index > LastIndex(page.round)
  <2> DEFINE p == [page EXCEPT !.missing = FALSE]
  <2>1. page' = p /\ field' = Stay(enter) /\ UNCHANGED <<calls, sent>>
    BY <1>1, <1>6 DEF Advance, Thrown
  <2>2. /\ p \in Position /\ p.at = page.at /\ p.round = page.round /\ p.index = page.index
        /\ p.busy = page.busy /\ p.failure = page.failure
    BY <1>2 DEF Position
  <2> HIDE DEF p
  <2>3. Fits(cached, p, field')
    BY <1>2, <2>1, <2>2 DEF Fits
  <2>4. edits' \in 0 .. MaxEdits
    BY <1>1 DEF FlowInv, TypeOK
  <2> QED
    BY <1>1, <1>2, <2>1, <2>2, <2>3, <2>4, AskingStands, EditIsSafe
<1>5. CASE StepComplete(cached, page.round, page.index) /\ page.index < LastIndex(page.round)
  <2> DEFINE p == [page EXCEPT !.missing = FALSE, !.refusing = FALSE, !.index = page.index + 1]
  <2>1. page' = p /\ field' = NextField /\ sent' = Counted /\ UNCHANGED calls
    BY <1>1, <1>2, <1>5 DEF Advance
  <2>2. page.index + 1 \in 0 .. 4 /\ page.index + 1 <= LastIndex(page.round)
    BY <1>2, <1>5
  <2>9. /\ sent \subseteq Counted /\ Counted \subseteq CountNames /\ InOrder(Counted, kept)
        /\ page.round = 1 => \A j \in kept .. page.index : QuestionCount(j) \in Counted
    <3>1. page.index <= LastIndex(page.round)
      BY <1>2, <1>5
    <3> QED
      BY <1>1, <3>1, CountedInOrder
  <2>3. /\ p \in Position /\ p.at = "form" /\ p.round = page.round
        /\ p.index = page.index + 1 /\ p.busy = page.busy /\ p.failure = page.failure
    BY <1>2, <2>2 DEF Position
  <2> HIDE DEF p
  <2>4. NextField \in Field /\ Fits(cached, p, NextField)
    BY <1>2, <2>2, <2>3, MountedFits DEF NextField
  <2>5. \A j \in kept .. p.index - 1 : StepComplete(cached, page.round, j)
    BY <1>2, <1>5, <2>3
  <2>6. RequestsAreWhole' /\ BusyIsComputing' /\ calls' \subseteq Call
    BY <1>1, <2>1, <2>3 DEF FlowInv, TypeOK, RequestsAreWhole, BusyIsComputing, Computes
  <2>7. Told'
    BY <1>1, <2>1, <2>9 DEF FlowInv, Told, Computes
  <2>8. page.round = 1 => \A j \in kept .. p.index - 1 : QuestionCount(j) \in Counted
    BY <1>1, <1>2, <2>3, <2>9
  <2> QED
    BY <1>1, <1>2, <2>1, <2>2, <2>3, <2>4, <2>5, <2>6, <2>7, <2>8, <2>9, FormIsSafe
<1> QED
  BY <1>2, <1>3, <1>4, <1>5, <1>6

-----------------------------------------------------------------------------
(* The visitor comes and goes.                                                  *)

(* A form that opens shows the answers there are, and a page that could not     *)
(* read them asks nothing.                                                      *)
LEMMA OpenIsSafe ==
    ASSUME FlowInv, NEW r \in Rounds, NEW load \in BOOLEAN, Open(r, load)
    PROVE  FlowInv'
<1>1. /\ mounts < MaxMounts /\ mounts' = mounts + 1 /\ read' = (blocked # "denied")
      /\ calls' = IF load THEN {} ELSE Orphaned
      /\ advice' = "none" /\ UNCHANGED <<blocked, session, edits>>
      /\ sent' = {StartCount(IF load THEN 1 ELSE r)} /\ kept' = 0
      /\ entered' \subseteq entered \cup {r}
  BY DEF Open
<1>2. /\ mounts' \in 0 .. MaxMounts /\ edits' \in 0 .. MaxEdits
      /\ session \in Answers /\ cached \in Answers /\ read' \in BOOLEAN
      /\ read /\ blocked = "no" => session = cached
      /\ entered' \subseteq Rounds /\ kept' \in 0 .. 4
  BY <1>1, FlowAssumption DEF FlowInv, TypeOK, Stored
<1>3. sent' \subseteq {StartCount(1), StartCount(2)}
  BY <1>1 DEF Rounds
<1>4. calls' \subseteq {Read} \cup Orphaned
  BY <1>1
<1>5. CASE blocked = "denied"
  <2> DEFINE p == [Away EXCEPT !.at = "crashed"]
  <2>1. cached' = EmptyAnswers /\ page' = p /\ field' = NoField
    BY <1>5 DEF Open
  <2>2. p \in Position /\ p.index = 0 /\ ~p.busy /\ p.at = "crashed"
    BY AwayIsNowhere DEF Position
  <2> HIDE DEF p
  <2>3. ~read'
    BY <1>1, <1>5
  <2> QED
    BY <1>1, <1>2, <1>3, <1>4, <2>1, <2>2, <2>3, EmptyIsAnswers, AwayIsNowhere, ElsewhereIsSafe
<1>6. CASE blocked # "denied"
  <2> DEFINE a == IF load THEN session ELSE Snapshot
             p == FormFrom(r)
             f == FieldOn(a, r, 0)
  <2>1. cached' = a /\ page' = p /\ field' = FieldOn(cached', r, 0)
    BY <1>6 DEF Open
  <2>2. a \in Answers /\ (blocked = "no" => session = a)
    BY <1>2 DEF Snapshot
  <2>3. p \in Position /\ p.at = "form" /\ p.round = r /\ p.index = 0 /\ ~p.busy
    BY AwayIsNowhere DEF FormFrom, Position
  <2>4. field' = f
    BY <2>1
  <2> HIDE DEF a, p
  <2>5. f \in Field /\ (~Missing(a, p.round) => Fits(a, p, f))
    BY <2>2, <2>3, FieldOnFits
  <2> HIDE DEF f
  <2>6. read' /\ (~Missing(cached', page'.round) => Fits(cached', page', field'))
    BY <1>1, <1>6, <2>1, <2>4, <2>5
  <2> QED
    BY <1>1, <1>2, <1>3, <1>4, <2>1, <2>2, <2>3, <2>4, <2>5, <2>6, ElsewhereIsSafe
<1> QED
  BY <1>5, <1>6

(* A change of round keeps where the form stands and what it waits for: nothing *)
(* is said any more of the questions before that place, and the field is the    *)
(* one of the other round.                                                      *)
LEMMA SwitchIsSafe ==
    ASSUME FlowInv, NEW r \in Rounds, Switch(r)
    PROVE  FlowInv'
<1> DEFINE p == [page EXCEPT !.round = r]
           f == FieldOn(cached, r, page.index)
<1>1. /\ page.at = "form" /\ mounts < MaxMounts /\ mounts' = mounts + 1
      /\ page' = p /\ field' = f /\ entered' = entered \cup {r}
      /\ kept' = IF page.index > kept THEN page.index ELSE kept
      /\ UNCHANGED <<blocked, session, cached, read, advice, calls, sent, edits>>
  BY DEF Switch
<1>2. /\ page \in Position /\ cached \in Answers /\ kept \in 0 .. 4 /\ page.index \in 0 .. 4
  BY DEF FlowInv, TypeOK, Position
<1>3. /\ kept' \in 0 .. 4 /\ kept <= kept' /\ page.index <= kept'
  BY <1>1, <1>2
<1>4. /\ p \in Position /\ p.at = page.at /\ p.round = r /\ p.index = page.index
      /\ p.busy = page.busy /\ p.failure = page.failure
  BY <1>2 DEF Position
<1> HIDE DEF p
<1>5. f \in Field /\ (~Missing(cached, p.round) => Fits(cached, p, f))
  BY <1>2, <1>4, FieldOnFits
<1> HIDE DEF f
<1>6. TypeOK'
  <2>1. mounts' \in 0 .. MaxMounts
    BY <1>1, FlowAssumption DEF FlowInv, TypeOK
  <2> QED
    BY <1>1, <1>3, <1>4, <1>5, <2>1 DEF FlowInv, TypeOK
<1>7. Filled' /\ Reported'
  <2>1. kept' .. page'.index - 1 = {} /\ page'.index <= kept'
    BY <1>1, <1>2, <1>3, <1>4
  <2> QED
    BY <2>1 DEF Filled, Reported
<1>8. Shown' /\ Stored'
  BY <1>1, <1>4, <1>5 DEF FlowInv, Shown, Stored, Asking, FourMissing, Missing, Fits
<1>9. RequestsAreWhole' /\ BusyIsComputing' /\ Told'
  BY <1>1, <1>4 DEF FlowInv, RequestsAreWhole, BusyIsComputing, Told, Computes
<1>10. InOrder(sent, kept)'
  <2>1. InOrder(sent, kept)
    BY DEF FlowInv
  <2>2. \A i \in (kept' + 1) .. 3 : i \in (kept + 1) .. 3
    BY <1>2, <1>3, FurtherIsLess
  <2>3. InOrder(sent, kept')
    BY <2>1, <2>2 DEF InOrder
  <2> QED
    BY <1>1, <2>3 DEF InOrder
<1> QED
  BY <1>6, <1>7, <1>8, <1>9, <1>10 DEF FlowInv

(* So is the page of an advice, by a link or by the answer of a computation.    *)
LEMMA ShowAdviceIsSafe ==
    ASSUME FlowInv, NEW token, ShowAdvice(token), UNCHANGED <<blocked, session, edits>>,
           mounts' \in 0 .. MaxMounts
    PROVE  FlowInv'
<1> DEFINE p == [Away EXCEPT !.at = "advice"]
<1>1. /\ page' = p /\ field' = NoField /\ sent' = {} /\ cached' = EmptyAnswers
      /\ read' = FALSE /\ entered' = {} /\ kept' = 0
      /\ advice' \in {"none", "loading", "shown", "failed"}
      /\ calls' \subseteq {Read} \cup Orphaned
  BY DEF ShowAdvice
<1>2. p \in Position /\ p.index = 0 /\ ~p.busy /\ p.at = "advice"
  BY AwayIsNowhere DEF Position
<1> HIDE DEF p
<1>3. /\ session' \in Answers /\ edits' \in 0 .. MaxEdits
      /\ entered' \subseteq Rounds /\ kept' \in 0 .. 4
  BY <1>1 DEF FlowInv, TypeOK
<1> QED
  BY <1>1, <1>2, <1>3, EmptyIsAnswers, AwayIsNowhere, ElsewhereIsSafe

-----------------------------------------------------------------------------
(* The API answers.                                                             *)

(* A computation that fails is the form's only one, or nobody's any more.       *)
LEMMA ComputeFailsIsSafe ==
    ASSUME FlowInv, NEW c \in Computes, ComputeFails(c)
    PROVE  FlowInv'
<1> DEFINE p == IF c.alive THEN [page EXCEPT !.busy = FALSE, !.failure = TRUE] ELSE page
<1>1. /\ calls' = calls \ {c} /\ page' = p
      /\ UNCHANGED <<blocked, session, cached, read, field, advice, sent,
                     entered, kept, edits, mounts>>
  BY DEF ComputeFails
<1>2. /\ page \in Position /\ calls \subseteq Call
      /\ page.busy <=> \E d \in Computes : d.alive
      /\ \A d, e \in Computes : d.alive /\ e.alive => d = e
      /\ page.busy => page.at = "form" /\ ~page.failure
  BY DEF FlowInv, TypeOK, BusyIsComputing
<1>3. /\ p \in Position /\ p.at = page.at /\ p.round = page.round /\ p.index = page.index
      /\ p.busy = (page.busy /\ ~c.alive) /\ (~c.alive => p = page)
  BY <1>2 DEF Position
<1> HIDE DEF p
<1>4. Computes' = Computes \ {c}
  BY <1>1 DEF Computes
<1>5. TypeOK'
  BY <1>1, <1>2, <1>3 DEF FlowInv, TypeOK
<1>6. \A j : StepComplete(cached, page.round, j)' = StepComplete(cached', page'.round, j)
  BY DEF StepComplete, FieldAt, YesNoAt, DetailOf
<1>7. Filled'
  BY <1>1, <1>3, <1>6 DEF FlowInv, Filled, LastIndex
<1>8. Shown' /\ Stored'
  BY <1>1, <1>3 DEF FlowInv, Shown, Stored, Fits, Asking, FourMissing, Missing
<1>9. BusyIsComputing'
  <2>1. CASE c.alive
    BY <1>1, <1>2, <1>3, <1>4, <2>1 DEF BusyIsComputing
  <2>2. CASE ~c.alive
    BY <1>1, <1>2, <1>3, <1>4, <2>2 DEF BusyIsComputing
  <2> QED
    BY <2>1, <2>2
<1>10. RequestsAreWhole' /\ Told'
  BY <1>1, <1>4 DEF FlowInv, RequestsAreWhole, Told
<1>11. InOrder(sent, kept)' /\ Reported'
  BY <1>1, <1>3 DEF FlowInv, InOrder, Reported
<1> QED
  BY <1>5, <1>7, <1>8, <1>9, <1>10, <1>11 DEF FlowInv

(* An advice that is read changes nothing of a form.                            *)
LEMMA ReadReturnsIsSafe ==
    ASSUME FlowInv, ReadReturns
    PROVE  FlowInv'
<1>1. /\ calls' = calls \ {Read} /\ advice' \in {"shown", "failed"}
      /\ UNCHANGED <<blocked, session, cached, read, page, field, sent,
                     entered, kept, edits, mounts>>
  BY DEF ReadReturns
<1>2. Computes' = Computes
  BY <1>1 DEF Computes, Read
<1>3. TypeOK'
  BY <1>1 DEF FlowInv, TypeOK
<1>4. \A j : StepComplete(cached, page.round, j)' = StepComplete(cached', page'.round, j)
  BY DEF StepComplete, FieldAt, YesNoAt, DetailOf
<1>5. Filled' /\ Shown' /\ Stored'
  BY <1>1, <1>4 DEF FlowInv, Filled, Shown, Stored, Fits, Asking, FourMissing, Missing
<1>6. RequestsAreWhole' /\ BusyIsComputing' /\ Told'
  BY <1>1, <1>2 DEF FlowInv, RequestsAreWhole, BusyIsComputing, Told
<1>7. InOrder(sent, kept)' /\ Reported'
  BY <1>1 DEF FlowInv, InOrder, Reported
<1> QED
  BY <1>3, <1>5, <1>6, <1>7 DEF FlowInv

-----------------------------------------------------------------------------
(* The theorems.                                                                *)

(* A tab starts with no page open.                                              *)
LEMMA FlowStarts == Init => FlowInv
<1> SUFFICES ASSUME Init PROVE FlowInv
  OBVIOUS
<1>1. /\ cached = EmptyAnswers /\ read = FALSE /\ page = Away /\ field = NoField
      /\ advice = "none" /\ calls = {} /\ sent = {} /\ entered = {} /\ kept = 0
      /\ edits = 0 /\ mounts = 0
      /\ blocked \in {"no", "full", "denied"}
      /\ session \in IF blocked = "denied" THEN {EmptyAnswers} ELSE Saved
  BY DEF Init
<1>2. session \in Answers /\ cached \in Answers
  BY <1>1, EmptyIsAnswers, FlowAssumption
<1>4. TypeOK
  <2>1. edits \in 0 .. MaxEdits /\ mounts \in 0 .. MaxMounts
    BY <1>1, FlowAssumption
  <2>2. page \in Position /\ page.at # "form" /\ field \in Field /\ read \in BOOLEAN
    BY <1>1, AwayIsNowhere
  <2>3. calls \subseteq Call /\ sent \subseteq CountNames
    BY <1>1
  <2> QED
    BY <1>1, <1>2, <2>1, <2>2, <2>3 DEF TypeOK
<1>5. Filled /\ Shown /\ Stored /\ Reported
  BY <1>1, AwayIsNowhere DEF Filled, Shown, Stored, Reported, Asking
<1>6. RequestsAreWhole /\ BusyIsComputing /\ Told /\ InOrder(sent, kept)
  BY <1>1, AwayIsNowhere DEF Computes, RequestsAreWhole, BusyIsComputing, Told, InOrder
<1> QED
  BY <1>4, <1>5, <1>6 DEF FlowInv

(* No step of the visitor, the router or the API breaks the invariant.          *)
LEMMA FlowSteps == FlowInv /\ [Next]_vars => FlowInv'
<1> SUFFICES ASSUME FlowInv, [Next]_vars PROVE FlowInv'
  OBVIOUS
<1>1. ASSUME NEW r \in Rounds, NEW load \in BOOLEAN, Open(r, load) PROVE FlowInv'
  BY <1>1, OpenIsSafe
<1>14. ASSUME NEW r \in Rounds, Switch(r) PROVE FlowInv'
  BY <1>14, SwitchIsSafe
<1>2. ASSUME NEW token \in {"good", "mangled", "absent"}, FollowLink(token) PROVE FlowInv'
  <2>1. mounts' \in 0 .. MaxMounts
    BY <1>2, FlowAssumption DEF FollowLink, FlowInv, TypeOK
  <2>2. ShowAdvice(token) /\ UNCHANGED <<blocked, session, edits>>
    BY <1>2 DEF FollowLink
  <2> QED
    BY <2>1, <2>2, ShowAdviceIsSafe
<1>3. CASE WalkAway
  BY <1>3, LeaveIsSafe DEF WalkAway
<1>4. ASSUME NEW draft \in {"none", "good", "bad"}, Type(draft) PROVE FlowInv'
  BY <1>4, TypeIsSafe
<1>5. CASE LeaveField
  BY <1>5, LeaveFieldIsSafe
<1>6. ASSUME NEW value \in {"ja", "nee"}, Choose(value) PROVE FlowInv'
  BY <1>6, ChooseIsSafe
<1>7. ASSUME NEW value \in {"NONE", "NIGHT"}, ChooseEv(value) PROVE FlowInv'
  BY <1>7, ChooseEvIsSafe
<1>8. ASSUME NEW direction \in BOOLEAN, PickRoof(direction) PROVE FlowInv'
  BY <1>8, PickRoofIsSafe
<1>9. ASSUME NEW enter \in BOOLEAN, GoOn(enter) PROVE FlowInv'
  BY <1>9, GoOnIsSafe
<1>10. CASE Back
  BY <1>10, BackIsSafe
<1>11. CASE ComputeReturns
  <2>1. PICK c \in Computes : ComputeSucceeds \/ ComputeFails(c)
    BY <1>11 DEF ComputeReturns
  <2>2. CASE ComputeSucceeds
    <3>1. mounts' \in 0 .. MaxMounts
      BY <2>2 DEF ComputeSucceeds, FlowInv, TypeOK
    <3>2. ShowAdvice("good") /\ UNCHANGED <<blocked, session, edits>>
      BY <2>2 DEF ComputeSucceeds
    <3> QED
      BY <3>1, <3>2, ShowAdviceIsSafe
  <2>3. CASE ComputeFails(c)
    BY <2>3, ComputeFailsIsSafe
  <2> QED
    BY <2>1, <2>2, <2>3
<1>12. CASE ReadReturns
  BY <1>12, ReadReturnsIsSafe
<1>13. CASE UNCHANGED vars
  <2>1. \A j : StepComplete(cached, page.round, j)' = StepComplete(cached', page'.round, j)
    BY DEF StepComplete, FieldAt, YesNoAt, DetailOf
  <2>2. TypeOK' /\ Filled' /\ Shown' /\ Stored'
    BY <1>13, <2>1
    DEF vars, FlowInv, TypeOK, Filled, Shown, Stored, Fits, Asking, FourMissing, Missing
  <2>3. RequestsAreWhole' /\ BusyIsComputing' /\ Told' /\ InOrder(sent, kept)' /\ Reported'
    BY <1>13
    DEF vars, FlowInv, RequestsAreWhole, BusyIsComputing, Told, Computes, InOrder, Reported
  <2> QED
    BY <2>2, <2>3 DEF FlowInv
<1> QED
  BY <1>1, <1>2, <1>3, <1>4, <1>5, <1>6, <1>7, <1>8, <1>9, <1>10, <1>11, <1>12, <1>13, <1>14 DEF Next

(* The invariant holds in every reachable state, whatever answers the storage   *)
(* starts with and however often anything is done.                              *)
THEOREM FlowInvariance == Spec => []FlowInv
BY FlowStarts, FlowSteps, PTL DEF Spec

(* Every variable has its shape, and a form that is shown has its answers read. *)
THEOREM FlowTypes == Spec => []TypeOK
<1>1. FlowInv => TypeOK
  BY DEF FlowInv
<1> QED
  BY <1>1, FlowInvariance, PTL

(* Nobody stands at a question with one unanswered that the form went past:     *)
(* next() of page.tsx is the only way forward but for a change of round, and no *)
(* edit, step back, refusal or failed request undoes it.                        *)
THEOREM EarlierQuestionsAnswered == Spec => []EarlierAnswered
<1>1. FlowInv => EarlierAnswered
  BY DEF FlowInv, Filled, EarlierAnswered, Asking
<1> QED
  BY <1>1, FlowInvariance, PTL

(* What the field of a question shows is what store.ts holds for it, and what   *)
(* that holds is what sessionStorage holds where anything can be stored.        *)
THEOREM ScreenIsStored == Spec => []ShownIsStored
<1>1. FlowInv => ShownIsStored
  BY DEF FlowInv, Shown, Stored, Fits, ShownIsStored, Asking
<1> QED
  BY <1>1, FlowInvariance, PTL

(* toEstimateInput and toRefineInput never build a body with a hole in it, or   *)
(* with a detail whose question was answered no.                                *)
THEOREM WholeRequests == Spec => []RequestsAreWhole
<1>1. FlowInv => RequestsAreWhole
  BY DEF FlowInv
<1> QED
  BY <1>1, FlowInvariance, PTL

(* The buttons are disabled exactly while the one computation of this form is   *)
(* out, through leaving, coming back and failing.                               *)
THEOREM BusyWhileComputing == Spec => []BusyIsComputing
<1>1. FlowInv => BusyIsComputing
  BY DEF FlowInv
<1> QED
  BY <1>1, FlowInvariance, PTL

(* The funnel counters of a form are reported in the order of its questions     *)
(* from where a change of round last left it on, and a computation is out only  *)
(* with its submission reported.                                                *)
THEOREM CountersAddUp == Spec => []FunnelAddsUp
<1>1. FlowInv => FunnelAddsUp
  BY DEF FlowInv, InOrder, Told, FunnelAddsUp
<1> QED
  BY <1>1, FlowInvariance, PTL
=============================================================================
