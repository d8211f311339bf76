---------------------------------- MODULE Flow ----------------------------------
(* The question flow of one browser tab, from the first question to the page   *)
(* with the advice: frontend/src/app/berekenen/page.tsx, the answers it keeps  *)
(* in sessionStorage (_flow/answers.ts, _flow/store.ts), the request it sends  *)
(* (lib/api.ts) and frontend/src/app/advies/page.tsx, which reads one back.    *)
(*                                                                             *)
(* Round one asks four questions, round two five more on the same page.  The   *)
(* answers outlive the page.  The position in the questions does not, and it   *)
(* does outlive a change of round under the page: an address that only differs *)
(* in its ?ronde= is the same page to the router, which keeps its state.       *)
EXTENDS Naturals, FiniteSets

CONSTANTS
    Saved,      \* the answers a tab may start with in its sessionStorage
    MaxEdits,   \* bound: how often the visitor changes something in a control
    MaxMounts   \* bound: how often the form or an advice is opened, or the form's
                \* round changed

NumberKeys == {"postcode4", "peakPowerWp", "annualConsumptionKwh",
               "heatDemandKwh", "batteryCapacityKwh"}
YesNoKeys  == {"daytimeOccupancy", "heatPump", "dynamicContract", "battery"}
Keys       == NumberKeys \cup YesNoKeys \cup {"ev", "roof"}

(* What is known of each answer.  "none" is the null of the code; "bad" is a   *)
(* postcode outside its bounds, which the form never stores and another        *)
(* version of the site may have.                                               *)
Allowed(k) ==
    {"none"} \cup CASE k = "postcode4"    -> {"good", "bad"}
                    [] k \in NumberKeys \ {"postcode4"} -> {"good"}
                    [] k \in YesNoKeys    -> {"ja", "nee"}
                    [] k = "ev"           -> {"NONE", "NIGHT"}
                    [] OTHER              -> {"chosen"}

Values == {"none", "good", "bad", "ja", "nee", "NONE", "NIGHT", "chosen"}

Answers == {a \in [Keys -> Values] : \A k \in Keys : a[k] \in Allowed(k)}

EmptyAnswers == [k \in Keys |-> "none"]

ASSUME FlowAssumption ==
    /\ Saved \subseteq Answers
    /\ MaxEdits \in Nat /\ MaxMounts \in Nat

VARIABLES
    blocked,    \* whether the browser lets the site store anything
    session,    \* the answers in sessionStorage
    cached,     \* the answers the module store.ts holds, once it has read them
    read,       \* whether it has
    page,       \* where the visitor is, and the state of BerekenenPage
    field,      \* the state of the NumberQuestion on the screen
    advice,     \* what the advice page shows
    calls,      \* the requests under way
    sent,       \* the counters this mount of the form has reported
    entered,    \* the rounds this document has a history entry of the form for
    kept,       \* history: the furthest a change of round left this form at
    edits, mounts

vars == <<blocked, session, cached, read, page, field, advice, calls, sent,
          entered, kept, edits, mounts>>

-----------------------------------------------------------------------------
(* The questions.                                                              *)

Rounds == {1, 2}
LastIndex(r) == IF r = 1 THEN 3 ELSE 4

(* The yes/no question at a position, and the detail a yes asks for.           *)
YesNoAt(i) == CASE i = 0 -> "daytimeOccupancy" [] i = 2 -> "heatPump"
                [] i = 3 -> "dynamicContract"  [] OTHER -> "battery"

DetailOf(k) == CASE k = "heatPump" -> "heatDemandKwh"
                 [] k = "battery"  -> "batteryCapacityKwh"
                 [] OTHER          -> "none"

(* The answer the number field on the screen is for, or "none" without one.    *)
(* Past the questions of round one its last one is shown again.                *)
FieldAt(a, r, i) ==
    IF r = 1
    THEN CASE i = 0 -> "postcode4" [] i = 1 -> "peakPowerWp"
           [] i = 2 -> "none"      [] OTHER -> "annualConsumptionKwh"
    ELSE IF i # 1 /\ a[YesNoAt(i)] = "ja" THEN DetailOf(YesNoAt(i)) ELSE "none"

StepComplete(a, r, i) ==
    IF r = 1
    THEN a[IF i = 2 THEN "roof" ELSE FieldAt(a, 1, i)] # "none"
    ELSE IF i = 1 THEN a["ev"] # "none"
    ELSE /\ a[YesNoAt(i)] # "none"
         /\ FieldAt(a, 2, i) # "none" => a[FieldAt(a, 2, i)] # "none"

(* toEstimateInput and toRefineInput: the body of the request, or no body.     *)
RoundOneKeys == {"postcode4", "peakPowerWp", "annualConsumptionKwh", "roof"}

ToEstimateInput(a) ==
    IF /\ \A k \in RoundOneKeys : a[k] # "none"
       /\ a["postcode4"] # "bad"
    THEN {[k \in RoundOneKeys |-> a[k]]} ELSE {}

Detail(a, k) == IF a[k] = "ja" THEN a[DetailOf(k)] ELSE "none"

(* Mutant: the detail is copied whatever the yes or no says.                   *)
ToRefineInputAsStored(a) ==
    IF /\ ToEstimateInput(a) # {}
       /\ \A k \in YesNoKeys \cup {"ev"} : a[k] # "none"
       /\ \A k \in {"heatPump", "battery"} : a[k] = "ja" => a[DetailOf(k)] # "none"
    THEN {a} ELSE {}

ToRefineInput(a) ==
    IF /\ ToEstimateInput(a) # {}
       /\ \A k \in YesNoKeys \cup {"ev"} : a[k] # "none"
       /\ \A k \in {"heatPump", "battery"} : a[k] = "ja" => a[DetailOf(k)] # "none"
    THEN {[a EXCEPT !["heatDemandKwh"] = Detail(a, "heatPump"),
                    !["batteryCapacityKwh"] = Detail(a, "battery")]}
    ELSE {}

InputOf(a, r) == IF r = 1 THEN ToEstimateInput(a) ELSE ToRefineInput(a)

(* The counter of a question of round one, by its position.                    *)
QuestionCount(i) == CASE i = 0 -> "funnel_question_1" [] i = 1 -> "funnel_question_2"
                      [] i = 2 -> "funnel_question_3" [] OTHER -> "funnel_question_4"
StartCount(r)  == IF r = 1 THEN "funnel_started" ELSE "funnel_refine_started"
SubmitCount(r) == IF r = 1 THEN "funnel_submitted" ELSE "funnel_refine_submitted"

CountNames == {QuestionCount(i) : i \in 0..3} \cup {StartCount(r) : r \in Rounds}
              \cup {SubmitCount(r) : r \in Rounds}

-----------------------------------------------------------------------------
(* The page and the field on it.                                               *)

Position == [at : {"away", "form", "crashed", "advice"}, round : Rounds, index : 0..4,
             missing : BOOLEAN, refusing : BOOLEAN, busy : BOOLEAN, failure : BOOLEAN]

Field == [draft : {"none", "good", "bad"}, left : BOOLEAN]

Away == [at |-> "away", round |-> 1, index |-> 0, missing |-> FALSE,
         refusing |-> FALSE, busy |-> FALSE, failure |-> FALSE]

FormFrom(r) == [Away EXCEPT !.at = "form", !.round = r]

NoField == [draft |-> "none", left |-> FALSE]

(* A NumberQuestion that mounts shows the answer there is.                     *)
FieldFor(a, r, i) ==
    IF FieldAt(a, r, i) = "none" THEN NoField
    ELSE [draft |-> a[FieldAt(a, r, i)], left |-> FALSE]

(* "De eerste vier vragen ontbreken nog": round two with no round one, where   *)
(* no question is on the screen.                                               *)
Missing(a, r) == r = 2 /\ ToEstimateInput(a) = {}
FourMissing == Missing(cached, page.round)

FieldOn(a, r, i) == IF Missing(a, r) THEN NoField ELSE FieldFor(a, r, i)

Asking == page.at = "form" /\ ~FourMissing

Call == [what : {"compute"}, round : Rounds, input : Answers \cup [RoundOneKeys -> Values],
         alive : BOOLEAN]
        \cup [what : {"read"}]

Read == [what |-> "read"]
Computes == {c \in calls : c.what = "compute"}

(* A page the router leaves: the advice page no longer looks at its answer     *)
(* (`current`), the form's submit goes on without a screen.                    *)
Orphaned == {[c EXCEPT !.alive = FALSE] : c \in Computes}

(* answersSnapshot: what storage held when it was first asked, and what the    *)
(* module holds after that.                                                    *)
Snapshot == IF read THEN cached ELSE session

(* updateAnswers, and setMissing(false) with it.  A storage that is full keeps *)
(* what it had.                                                                *)
Update(a) ==
    /\ cached' = a
    /\ session' = IF blocked = "no" THEN a ELSE session

-----------------------------------------------------------------------------
(* The visitor comes and goes.                                                 *)

(* The links of a page: the header's to round one, and those of the advice.    *)
Linked(r) == r = 1 \/ (page.at = "advice" /\ advice = "shown")

(* The form mounts on a round.  A load of the document forgets the modules and *)
(* every request with it.  It also renders the built page once, where the      *)
(* round is not known and counts as the first; a link inside the site, or the  *)
(* browser's Back and Forward, renders it with its address.  A reload keeps    *)
(* the history of its page.  With access to storage denied                     *)
(* `window.sessionStorage` throws while the page renders.                      *)
Open(r, load) ==
    /\ mounts < MaxMounts /\ mounts' = mounts + 1
    /\ ~load => page.at \in {"away", "advice"} /\ (Linked(r) \/ r \in entered)
    /\ read' = (blocked # "denied")
    /\ cached' = IF blocked = "denied" THEN EmptyAnswers ELSE IF load THEN session ELSE Snapshot
    /\ page' = IF blocked = "denied" THEN [Away EXCEPT !.at = "crashed"] ELSE FormFrom(r)
    /\ field' = IF blocked = "denied" THEN NoField ELSE FieldOn(cached', r, 0)
    /\ sent' = {StartCount(IF load THEN 1 ELSE r)} /\ kept' = 0
    /\ entered' = IF load /\ ~(page.at = "form" /\ page.round = r)
                  THEN {r} ELSE entered \cup {r}
    /\ calls' = IF load THEN {} ELSE Orphaned
    /\ advice' = "none"
    /\ UNCHANGED <<blocked, session, edits>>

(* The round changes under the form, by a link to round one or by Back and     *)
(* Forward.  Everything BerekenenPage keeps stays as it is, where it stands in *)
(* the questions included; only the field mounts anew.                         *)
Switch(r) ==
    /\ mounts < MaxMounts /\ mounts' = mounts + 1
    /\ page.at = "form" /\ r # page.round /\ (Linked(r) \/ r \in entered)
    /\ page' = [page EXCEPT !.round = r]
    /\ field' = FieldOn(cached, r, page.index)
    /\ kept' = IF page.index > kept THEN page.index ELSE kept
    /\ entered' = entered \cup {r}
    /\ UNCHANGED <<blocked, session, cached, read, advice, calls, sent, edits>>

(* The advice page loads.  A path without a token shows the failure at once,   *)
(* and a token of another shape is refused before it is sent.                  *)
ShowAdvice(token) ==
    /\ page' = [Away EXCEPT !.at = "advice"]
    /\ field' = NoField /\ sent' = {} /\ entered' = {} /\ kept' = 0
    /\ cached' = EmptyAnswers /\ read' = FALSE
    /\ IF token = "good" THEN advice' = "loading" /\ calls' = {Read}
                         ELSE advice' = "failed" /\ calls' = {}

FollowLink(token) ==
    /\ mounts < MaxMounts /\ mounts' = mounts + 1
    /\ ShowAdvice(token)
    /\ UNCHANGED <<blocked, session, edits>>

(* A link of the site to some other page of it.                                *)
Leave ==
    /\ page' = Away /\ field' = NoField /\ sent' = {} /\ advice' = "none"
    /\ calls' = Orphaned /\ kept' = 0
    /\ UNCHANGED <<blocked, session, cached, read, entered, edits, mounts>>

WalkAway == page.at \in {"form", "advice"} /\ Leave

-----------------------------------------------------------------------------
(* The visitor answers.                                                        *)

Edit == Asking /\ edits < MaxEdits /\ edits' = edits + 1

(* NumberQuestion.handleChange: the refusal is reported before the value, and  *)
(* a value that is refused is reported as no value.                            *)
Type(draft) ==
    LET key == FieldAt(cached, page.round, page.index) IN
    /\ Edit /\ key # "none" /\ draft # field.draft
    /\ Update([cached EXCEPT ![key] = IF draft = "bad" THEN "none" ELSE draft])
    /\ page' = [page EXCEPT !.refusing = (draft = "bad"), !.missing = FALSE]
    /\ field' = [field EXCEPT !.draft = draft]
    /\ UNCHANGED <<blocked, read, advice, calls, sent, entered, kept, mounts>>

LeaveField ==
    /\ Asking /\ field # NoField /\ ~field.left
    /\ field' = [field EXCEPT !.left = TRUE]
    /\ UNCHANGED <<blocked, session, cached, read, page, advice, calls, sent,
                   entered, kept, edits, mounts>>

(* A radio: choosing the one that is chosen fires nothing.  A no forgets the   *)
(* detail, and its field goes; a yes shows an empty one.                       *)
Choose(value) ==
    LET key == YesNoAt(page.index)
        detail == DetailOf(key)
        a == [cached EXCEPT ![key] = value]
        b == IF detail # "none" /\ value = "nee" THEN [a EXCEPT ![detail] = "none"] ELSE a
    IN  /\ Edit /\ page.round = 2 /\ page.index # 1 /\ value # cached[key]
        /\ Update(b)
        /\ page' = [page EXCEPT !.missing = FALSE]
        /\ field' = FieldFor(b, 2, page.index)
        /\ UNCHANGED <<blocked, read, advice, calls, sent, entered, kept, mounts>>

ChooseEv(value) ==
    /\ Edit /\ page.round = 2 /\ page.index = 1 /\ value # cached["ev"]
    /\ Update([cached EXCEPT !["ev"] = value])
    /\ page' = [page EXCEPT !.missing = FALSE]
    /\ UNCHANGED <<blocked, read, field, advice, calls, sent, entered, kept, mounts>>

(* The roof: a direction answers the question; the slider alone does not.      *)
PickRoof(direction) ==
    /\ Edit /\ page.round = 1 /\ page.index = 2
    /\ Update([cached EXCEPT !["roof"] = IF direction THEN "chosen" ELSE @])
    /\ page' = [page EXCEPT !.missing = FALSE]
    /\ UNCHANGED <<blocked, read, field, advice, calls, sent, entered, kept, mounts>>

-----------------------------------------------------------------------------
(* The visitor goes on, or back.                                               *)

Compute(r, input) == [what |-> "compute", round |-> r, input |-> input, alive |-> TRUE]

(* next() found the question answered; `n` are the counters it reported.       *)
(* Without a body there is nothing to send, and the question is said to be     *)
(* unanswered.                                                                 *)
Submit(n) ==
    LET input == InputOf(cached, page.round) IN
    /\ IF input = {}
       THEN /\ page' = [page EXCEPT !.missing = TRUE, !.failure = FALSE]
            /\ sent' = n /\ calls' = calls
       ELSE /\ page' = [page EXCEPT !.missing = FALSE, !.busy = TRUE, !.failure = FALSE]
            /\ sent' = n \cup {SubmitCount(page.round)}
            /\ calls' = calls \cup {Compute(page.round, i) : i \in input}

(* Mutant: the question is reported after the branch of the last one.          *)
CountedLate == IF page.round = 1 /\ page.index < LastIndex(1)
               THEN sent \cup {QuestionCount(page.index)} ELSE sent

Counted == IF page.round = 1 THEN sent \cup {QuestionCount(page.index)} ELSE sent

(* A field that is refusing has its own sentence.                              *)
MissingSaid == ~page.refusing

(* Mutant: two number questions in a row share a field, as they do unkeyed.    *)
NextFieldUnkeyed ==
    IF field # NoField /\ FieldAt(cached, page.round, page.index + 1) # "none"
    THEN field ELSE FieldFor(cached, page.round, page.index + 1)

(* Every question carries a key, so that the next one's field mounts anew.     *)
NextField == FieldFor(cached, page.round, page.index + 1)

(* "no funnel counter name for round one question 5": the throw comes before  *)
(* anything is counted, sent or asked.                                         *)
Thrown == page' = [page EXCEPT !.missing = FALSE] /\ UNCHANGED <<calls, sent>>

(* Mutant: any question may be passed over.                                    *)
AdvanceUnanswered(stay) ==
    IF page.index > LastIndex(page.round)
    THEN Thrown /\ field' = stay
    ELSE IF page.index = LastIndex(page.round)
    THEN Submit(Counted) /\ field' = stay
    ELSE /\ page' = [page EXCEPT !.missing = FALSE, !.refusing = FALSE, !.index = @ + 1]
         /\ field' = NextField
         /\ sent' = Counted
         /\ UNCHANGED calls

(* next().                                                                     *)
Advance(stay) ==
    IF ~StepComplete(cached, page.round, page.index)
    THEN /\ page' = [page EXCEPT !.missing = MissingSaid]
         /\ field' = stay
         /\ UNCHANGED <<calls, sent>>
    ELSE IF page.index > LastIndex(page.round)
    THEN Thrown /\ field' = stay
    ELSE IF page.index = LastIndex(page.round)
    THEN Submit(Counted) /\ field' = stay
    ELSE /\ page' = [page EXCEPT !.missing = FALSE, !.refusing = FALSE, !.index = @ + 1]
         /\ field' = NextField
         /\ sent' = Counted
         /\ UNCHANGED calls

(* The forward button takes the focus out of the field; Enter does not.        *)
Stay(enter) == IF enter THEN field ELSE [field EXCEPT !.left = (field # NoField)]

GoOn(enter) ==
    /\ Asking /\ ~page.busy
    /\ Advance(Stay(enter))
    /\ UNCHANGED <<blocked, session, cached, read, advice,
                   entered, kept, edits, mounts>>

Back ==
    /\ Asking /\ ~page.busy
    /\ IF page.index = 0 THEN Leave
       ELSE /\ page' = [page EXCEPT !.missing = FALSE, !.refusing = FALSE,
                                    !.failure = FALSE, !.index = @ - 1]
            /\ field' = FieldFor(cached, page.round, page.index - 1)
            /\ UNCHANGED <<blocked, session, cached, read, advice, calls, sent,
                           entered, kept, edits, mounts>>

-----------------------------------------------------------------------------
(* The API answers.                                                            *)

(* An advice: the browser loads its page, wherever the visitor is by then.     *)
ComputeSucceeds ==
    /\ ShowAdvice("good")
    /\ UNCHANGED <<blocked, session, edits, mounts>>

(* Mutant: the failure is said and the buttons stay disabled.                  *)
ComputeFailsBusy(c) ==
    /\ calls' = calls \ {c}
    /\ page' = IF c.alive THEN [page EXCEPT !.failure = TRUE] ELSE page
    /\ UNCHANGED <<blocked, session, cached, read, field, advice, sent,
                   entered, kept, edits, mounts>>

(* Anything else, a network that is gone and a body that is no advice          *)
(* included: the sentence, if the form is still there to say it.               *)
ComputeFails(c) ==
    /\ calls' = calls \ {c}
    /\ page' = IF c.alive THEN [page EXCEPT !.busy = FALSE, !.failure = TRUE] ELSE page
    /\ UNCHANGED <<blocked, session, cached, read, field, advice, sent,
                   entered, kept, edits, mounts>>

ComputeReturns == \E c \in Computes : ComputeSucceeds \/ ComputeFails(c)

ReadReturns ==
    /\ Read \in calls
    /\ calls' = calls \ {Read}
    /\ advice' \in {"shown", "failed"}
    /\ UNCHANGED <<blocked, session, cached, read, page, field, sent,
                   entered, kept, edits, mounts>>

-----------------------------------------------------------------------------

Init ==
    /\ blocked \in {"no", "full", "denied"}
    /\ session \in IF blocked = "denied" THEN {EmptyAnswers} ELSE Saved
    /\ cached = EmptyAnswers /\ read = FALSE /\ page = Away /\ field = NoField
    /\ advice = "none" /\ calls = {} /\ sent = {} /\ entered = {} /\ kept = 0
    /\ edits = 0 /\ mounts = 0

Next ==
    \/ \E r \in Rounds, load \in BOOLEAN : Open(r, load)
    \/ \E r \in Rounds : Switch(r)
    \/ \E token \in {"good", "mangled", "absent"} : FollowLink(token)
    \/ WalkAway
    \/ \E draft \in {"none", "good", "bad"} : Type(draft)
    \/ LeaveField
    \/ \E value \in {"ja", "nee"} : Choose(value)
    \/ \E value \in {"NONE", "NIGHT"} : ChooseEv(value)
    \/ \E direction \in BOOLEAN : PickRoof(direction)
    \/ \E enter \in BOOLEAN : GoOn(enter)
    \/ Back
    \/ ComputeReturns
    \/ ReadReturns

Spec == Init /\ [][Next]_vars

(* A request is answered, or its connection ends.  Nothing is assumed of the   *)
(* visitor.                                                                    *)
FairSpec == Spec /\ WF_vars(ComputeReturns) /\ WF_vars(ReadReturns)

-----------------------------------------------------------------------------
(* Properties.                                                                 *)

(* Every variable has the shape the code gives it, and the cache is read       *)
(* before a question is asked.                                                 *)
TypeOK ==
    /\ blocked \in {"no", "full", "denied"}
    /\ session \in Answers
    /\ cached \in Answers /\ read \in BOOLEAN
    /\ page \in Position /\ field \in Field
    /\ page.at = "form" => read
    /\ advice \in {"none", "loading", "shown", "failed"}
    /\ calls \subseteq Call
    /\ sent \subseteq CountNames
    /\ entered \subseteq Rounds /\ kept \in 0..4
    /\ edits \in 0..MaxEdits /\ mounts \in 0..MaxMounts

(* The questions a form has gone past are answered.  It is asked of those from *)
(* `kept` on: a change of round puts the form at a question of the other round *)
(* without its having gone past the ones before.                               *)
EarlierAnswered ==
    Asking => \A i \in kept..(page.index - 1) : StepComplete(cached, page.round, i)

(* What is on the screen is what was answered, and what was answered is what a *)
(* reload finds where the browser stores anything: a draft that is accepted is *)
(* the answer, one that is not leaves none (or was stored by somebody else).   *)
ShownIsStored ==
    /\ read /\ blocked = "no" => session = cached
    /\ Asking =>
           LET key == FieldAt(cached, page.round, page.index) IN
           IF key = "none" THEN field = NoField
           ELSE cached[key] = field.draft \/ (field.draft = "bad" /\ cached[key] = "none")

(* What is sent is complete and agrees with itself, which is what the API's    *)
(* serializers refuse otherwise: a detail goes along exactly when its yes does.*)
RequestsAreWhole ==
    \A c \in Computes :
        /\ \A k \in RoundOneKeys : c.input[k] \notin {"none", "bad"}
        /\ c.round = 2 =>
            /\ \A k \in YesNoKeys \cup {"ev"} : c.input[k] # "none"
            /\ \A k \in {"heatPump", "battery"} :
                  c.input[k] = "ja" <=> c.input[DetailOf(k)] # "none"

(* The buttons are disabled exactly while this form's one computation is out,  *)
(* and the sentence of an earlier failure is gone by then.                     *)
BusyIsComputing ==
    /\ page.busy <=> \E c \in Computes : c.alive
    /\ \A c, d \in Computes : c.alive /\ d.alive => c = d
    /\ page.busy => page.at = "form" /\ ~page.failure

(* The counters of a form add up: a question is only reported after the one    *)
(* before it, unless a change of round put the form there or beyond, and a     *)
(* computation of round one only after its last question.  What is under way   *)
(* for this form has been reported.                                            *)
FunnelAddsUp ==
    /\ \A i \in (kept + 1)..3 : QuestionCount(i) \in sent => QuestionCount(i - 1) \in sent
    /\ SubmitCount(1) \in sent => QuestionCount(3) \in sent
    /\ \A c \in Computes : c.alive => SubmitCount(c.round) \in sent

(* "There is no state in which this sentence stays on the screen forever": an  *)
(* advice that is loading is shown or its failure is, and a computation ends   *)
(* with the buttons working again or the visitor somewhere else.               *)
WaitsEnd ==
    /\ advice = "loading" ~> advice # "loading"
    /\ page.busy ~> ~page.busy

-----------------------------------------------------------------------------
(* What the comments of the code say, and what it does.                        *)

(* "The flow above already refuses an incomplete question and says so": a form *)
(* that will not go on says why when it is asked to, in the sentence under the *)
(* question or in the field itself.                                            *)
RefusalIsTold ==
    Asking /\ ~page.busy /\ ~StepComplete(cached, page.round, page.index) =>
        \A enter \in BOOLEAN :
            MissingSaid \/ (Stay(enter).draft = "bad" /\ Stay(enter).left)

(* "So a visitor arriving on ?ronde=2 was counted as a fresh first round"      *)
(* until 2026-09-03: entering round two counts a refinement.                   *)
RoundIsCounted == page.at = "form" /\ page.round = 2 => StartCount(1) \notin sent

(* "The flow refuses to advance past a question that is not answered": nobody  *)
(* stands at a question with an earlier one of its round unanswered.           *)
NothingIsSkipped ==
    Asking => \A i \in 0..(page.index - 1) : StepComplete(cached, page.round, i)

(* "It cannot happen while the two arrays' lengths agree": a question of round *)
(* one has the name of a counter.                                              *)
QuestionsHaveNames == Asking => page.index <= LastIndex(page.round)

(* "So abandonment can be read per question": a question is only reported      *)
(* after all those before it.                                                  *)
FunnelIsAChain ==
    \A i \in 1..3 : QuestionCount(i) \in sent => QuestionCount(i - 1) \in sent

(* "A visitor with storage blocked keeps a working form".                      *)
BlockedFormWorks == page.at # "crashed"

=============================================================================
