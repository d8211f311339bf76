---------------------------- MODULE AccountProofs ----------------------------
(* Proofs about Account for any number of keys and presses.  The first part    *)
(* holds for any number of people in one tab, the last one for one person.     *)
EXTENDS Account, FiniteSetTheorems, FunctionTheorems, TLAPS

-----------------------------------------------------------------------------
(* Shapes.                                                                    *)

Whos == Users \cup {Nobody}

Flags == BOOLEAN
Presses == 0..MaxClicks

Bys == ActionIds \cup Reads \cup Forms \cup {"load", "form_texts"}

Paths == Open \cup {"me", "me_again", "me_after", "status", "check", "consent", "claim",
                    "accept", "link", "unlink", "export", "resend", "logout", "delete"}

\* What the records start as has its type.
LEMMA StartShapes ==
    /\ NoRow \in AccountRow /\ NoRow.key = 0 /\ NoRow.made = "no"
    /\ NoSession \in Cookie
    /\ Unmounted \in Panel /\ ~Unmounted.mounted /\ Unmounted.busy = {}
    /\ Unmounted.key = 0 /\ Unmounted.status = "unknown"
    /\ FreshForm \in Form
<1>1. NoRow \in AccountRow
  BY AccountAssumption DEF NoRow, AccountRow
<1>2. NoSession \in Cookie
  BY DEF NoSession, Cookie
<1>3. Unmounted \in Panel
  BY AccountAssumption DEF Unmounted, Panel
<1>4. FreshForm \in Form
  BY DEF FreshForm, Form
<1> QED BY <1>1, <1>2, <1>3, <1>4 DEF NoRow, Unmounted

\* The parts of a request that is made.
LEMMA AskedParts ==
    \A by, path, who, flag, nr : LET c == Asked(by, path, who, flag, nr) IN
        /\ c.by = by /\ c.path = path /\ c.who = who /\ c.flag = flag
        /\ c.alive = TRUE /\ c.got = "waiting" /\ c.nr = nr
BY DEF Asked

\* It is a request.
LEMMA AskedTyped ==
    \A by \in Bys, path \in Paths, who \in Whos, flag \in Flags, nr \in Presses :
        Asked(by, path, who, flag, nr) \in Call
BY StartShapes DEF Asked, Call, Bys, Paths, Whos, Flags, Presses

\* The parts of a request have their types.
LEMMA CallParts ==
    ASSUME NEW c \in Call
    PROVE  /\ c.by \in Bys /\ c.path \in Paths /\ c.who \in Whos /\ c.flag \in Flags
           /\ c.alive \in BOOLEAN /\ c.got \in {"waiting", "ok", "unauthorised"}
           /\ c.seen \in AccountRow /\ c.nr \in Presses
BY DEF Call, Bys, Paths, Whos, Flags, Presses

\* A request whose view has gone is the same request otherwise, and so is one
\* that inherits that from the handler.
LEMMA AliveOnly ==
    ASSUME NEW c \in Call, NEW b \in BOOLEAN
    PROVE  LET d == [c EXCEPT !.alive = b] IN
           /\ d \in Call /\ d.by = c.by /\ d.path = c.path /\ d.who = c.who /\ d.flag = c.flag
           /\ d.alive = b /\ d.got = c.got /\ d.seen = c.seen /\ d.nr = c.nr
BY DEF Call

\* One that is answered is, too.
LEMMA AnsweredOnly ==
    ASSUME NEW c \in Call, NEW got \in {"waiting", "ok", "unauthorised"}, NEW row \in AccountRow
    PROVE  LET d == [c EXCEPT !.got = got, !.seen = row] IN
           /\ d \in Call /\ d.by = c.by /\ d.path = c.path /\ d.who = c.who /\ d.flag = c.flag
           /\ d.alive = c.alive /\ d.got = got /\ d.seen = row /\ d.nr = c.nr
BY DEF Call

\* The account the cookies name is one, or nobody.
LEMMA SenderTyped ==
    ASSUME NEW k \in Cookie, NEW path
    PROVE  Sender(k, path) \in Whos
BY DEF Sender, Cookie, Whos

\* The cookies stay cookies.
LEMMA CookieTyped ==
    ASSUME cookie \in Cookie, NEW c \in Call, NEW got
    PROVE  CookieAfter(c, got) \in Cookie
<1>1. CASE got = "ok" /\ c.path \in {"login", "register", "refresh"}
  BY <1>1, CallParts DEF CookieAfter, Cookie, Whos
<1>2. CASE ~(got = "ok" /\ c.path \in {"login", "register", "refresh"})
  BY <1>2, StartShapes DEF CookieAfter
<1> QED BY <1>1, <1>2

\* Only what the API answered is heard as an answer.
LEMMA HeardOk ==
    ASSUME NEW c, NEW got \in Heard(c), got = "ok"
    PROVE  c.got = "ok" \/ c.path = "texts"
<1>1. CASE c.got # "waiting"
  BY <1>1 DEF Heard
<1>2. CASE c.got = "waiting"
  BY <1>2 DEF Heard
<1> QED BY <1>1, <1>2

-----------------------------------------------------------------------------
(* What a served request does to the account it is about.                     *)

RowChange(c, r, a) ==
    /\ a \in AccountRow
    /\ r.issued <= a.issued
    /\ c.path = "link" => a.key = r.issued + 1 /\ a.issued = r.issued + 1
    /\ c.path # "link" => a.key = r.key \/ a.key = 0
    /\ c.path = "verify" \/ r.verified => a.verified \/ a.made = "gone"
    /\ c.path \in {"me", "me_again", "me_after", "status"} => a = r
    /\ c.path \notin {"delete", "register"} => a.made = r.made
    /\ c.path = "delete" => a.made = "gone"
    /\ c.path = "register" => a.made = "yes"
    /\ c.path = "consent" =>
          \A k \in Kinds : a.consents[k] = IF k = c.by THEN c.flag ELSE r.consents[k]
    /\ c.path \notin {"consent", "register", "delete"} => a.consents = r.consents

\* Every row a served request leaves is such a change.
LEMMA ServedRow ==
    ASSUME accounts \in [Users -> AccountRow], NEW c \in Call, Permitted(c),
           NEW a \in After(c), c.path = "consent" => c.by \in Kinds
    PROVE  /\ RowOf(c) \in AccountRow /\ RowChange(c, RowOf(c), a)
<1> DEFINE r == RowOf(c)
<1>1. r \in AccountRow
  BY StartShapes DEF RowOf
<1>2. c.path = "link" => r.issued < MaxKeys
  BY DEF Permitted
<1>3. c.path \in Paths /\ c.flag \in BOOLEAN
  BY CallParts DEF Flags
<1>4. /\ r.key \in 0..MaxKeys /\ r.issued \in 0..MaxKeys /\ r.verified \in BOOLEAN
      /\ r.consents \in [Kinds -> BOOLEAN]
  BY <1>1 DEF AccountRow
<1> HIDE DEF r
<1>5. ASSUME c.path = "consent" PROVE RowChange(c, r, a)
  <2>1. a = [r EXCEPT !.consents[c.by] = c.flag,
                      !.key = IF c.by = "METER_LINK" /\ ~c.flag THEN 0 ELSE r.key]
    BY <1>5 DEF After, Consented, r
  <2> DEFINE g == [r.consents EXCEPT ![c.by] = c.flag]
             k == IF c.by = "METER_LINK" /\ ~c.flag THEN 0 ELSE r.key
  <2>2. a = [r EXCEPT !.consents = g, !.key = k]
    BY <1>1, <2>1 DEF AccountRow
  <2>3. /\ g \in [Kinds -> BOOLEAN] /\ k \in 0..MaxKeys /\ (k = r.key \/ k = 0)
        /\ \A j \in Kinds : g[j] = IF j = c.by THEN c.flag ELSE r.consents[j]
    BY <1>3, <1>4, <1>5, AccountAssumption
  <2> HIDE DEF g, k
  <2>4. /\ a \in AccountRow /\ a.consents = g /\ a.key = k
        /\ a.made = r.made /\ a.issued = r.issued /\ a.verified = r.verified
    BY <1>1, <2>2, <2>3 DEF AccountRow
  <2> QED BY <1>4, <1>5, <2>3, <2>4 DEF RowChange
<1>6. ASSUME c.path = "link" PROVE RowChange(c, r, a)
  <2>1. a = [r EXCEPT !.key = r.issued + 1, !.issued = r.issued + 1]
    BY <1>6 DEF After, Linked, r
  <2>2. r.issued + 1 \in 0..MaxKeys
    BY <1>2, <1>4, <1>6, AccountAssumption
  <2>3. /\ a \in AccountRow /\ a.key = r.issued + 1 /\ a.issued = r.issued + 1
        /\ a.made = r.made /\ a.verified = r.verified /\ a.consents = r.consents
    BY <1>1, <2>1, <2>2 DEF AccountRow
  <2> QED BY <1>4, <1>6, <2>3 DEF RowChange
<1>7. ASSUME c.path = "unlink" PROVE RowChange(c, r, a)
  <2>1. a = [r EXCEPT !.key = 0]
    BY <1>7 DEF After, Unlinked, r
  <2>2. /\ a \in AccountRow /\ a.key = 0 /\ a.issued = r.issued
        /\ a.made = r.made /\ a.verified = r.verified /\ a.consents = r.consents
    BY <1>1, <2>1, AccountAssumption DEF AccountRow
  <2> QED BY <1>4, <1>7, <2>2 DEF RowChange
<1>8. ASSUME c.path \in {"claim", "accept", "check"} PROVE RowChange(c, r, a)
  <2>1. a = r \/ \E v \in {"agrees", "disagrees"} : a = [r EXCEPT !.advice = v]
    BY <1>8 DEF After, Compared, r
  <2>2. /\ a \in AccountRow /\ a.key = r.key /\ a.issued = r.issued
        /\ a.made = r.made /\ a.verified = r.verified /\ a.consents = r.consents
    BY <1>1, <2>1 DEF AccountRow
  <2> QED BY <1>4, <1>8, <2>2 DEF RowChange
<1>9. ASSUME c.path = "verify" PROVE RowChange(c, r, a)
  <2>1. a = [r EXCEPT !.verified = TRUE]
    BY <1>9 DEF After, r
  <2>2. /\ a \in AccountRow /\ a.key = r.key /\ a.issued = r.issued
        /\ a.made = r.made /\ a.verified /\ a.consents = r.consents
    BY <1>1, <2>1 DEF AccountRow
  <2> QED BY <1>4, <1>9, <2>2 DEF RowChange
<1>10. ASSUME c.path = "delete" PROVE RowChange(c, r, a)
  <2>1. a = [NoRow EXCEPT !.made = "gone", !.issued = r.issued]
    BY <1>10 DEF After, Deleted, r
  <2>2. a \in AccountRow /\ a.key = 0 /\ a.issued = r.issued /\ a.made = "gone"
    BY <1>4, <2>1, StartShapes DEF AccountRow
  <2> QED BY <1>4, <1>10, <2>2 DEF RowChange
<1>11. ASSUME c.path = "register" PROVE RowChange(c, r, a)
  <2>1. \E g \in [Kinds -> BOOLEAN] : a = [r EXCEPT !.made = "yes", !.consents = g]
    BY <1>11 DEF After, Registered, r
  <2>2. /\ a \in AccountRow /\ a.key = r.key /\ a.issued = r.issued
        /\ a.made = "yes" /\ a.verified = r.verified
    BY <1>1, <2>1 DEF AccountRow
  <2> QED BY <1>4, <1>11, <2>2 DEF RowChange
<1>12. ASSUME c.path \notin {"consent", "link", "unlink", "claim", "accept", "check", "verify",
                          "delete", "register"} PROVE RowChange(c, r, a)
  <2>1. a = r
    BY <1>12 DEF After, r
  <2> QED BY <1>1, <1>4, <1>12, <2>1 DEF RowChange
<1>13. RowChange(c, r, a)
  BY <1>5, <1>6, <1>7, <1>8, <1>9, <1>10, <1>11, <1>12
<1> QED BY <1>1, <1>13 DEF r

-----------------------------------------------------------------------------
(* The requests under way, before and after a step of the page.               *)

\* The handlers of the view that have not ended, among some requests.
Mine(S) == {c \in S : c.alive /\ c.by \in ActionIds}

\* A request that was under way, or one whose view goes with this step.
Old(d) ==
    d \in calls \/ (d.by \notin Reads /\ \E c \in calls : d = [c EXCEPT !.alive = FALSE])

\* A request that is made in this step.
Made(d) == d \in Call /\ d.got = "waiting" /\ WellMade(d)

Good(S) == \A d \in S : Old(d) \/ Made(d)

\* What the three records say of each other.
ViewInv ==
    /\ page \in Page /\ panel \in Panel /\ form \in Form
    /\ panel.mounted <=> page.status = "signed_in"
    /\ page.view = "reset_confirm" => page.reset
    /\ panel.mounted => page.me.who \in Users
    /\ NothingWithoutAView /\ HandledOnce

\* It is as well made as it was.
LEMMA OldIsCall ==
    ASSUME calls \subseteq Call, CallsAreMade, NEW d, Old(d)
    PROVE  d \in Call /\ WellMade(d)
<1>1. CASE d \in calls
  BY <1>1 DEF CallsAreMade
<1>2. ASSUME d.by \notin Reads, NEW c \in calls, d = [c EXCEPT !.alive = FALSE]
      PROVE  d \in Call /\ WellMade(d)
  <2>1. /\ d \in Call /\ d.by = c.by /\ d.path = c.path /\ d.who = c.who
        /\ d.got = c.got /\ d.seen = c.seen
    BY <1>2, AliveOnly
  <2>2. WellMade(c)
    BY DEF CallsAreMade
  <2> QED BY <1>2, <2>1, <2>2 DEF WellMade
<1> QED BY <1>1, <1>2 DEF Old

\* The next view's requests are as well made as this one's.
LEMMA GoodCalls ==
    ASSUME PageInv, Good(calls'), accounts' = accounts, page'.token = page.token
    PROVE  calls' \subseteq Call /\ CallsAreMade'
<1>1. ASSUME NEW d \in calls' PROVE d \in Call /\ WellMade(d)
  BY OldIsCall DEF PageInv, TypeOK, Good, Made
<1> QED BY <1>1 DEF CallsAreMade, WellMade

\* Components that go leave none of their reads and no handler of the view.
LEMMA Orphans ==
    ASSUME PageInv, NEW S, Good(S), NEW bys
    PROVE  /\ Good(Orphaned(S, bys))
           /\ \A d \in Orphaned(S, bys) :
                 /\ d \in S \/ ~d.alive
                 /\ d.by \in bys => d.by \notin Reads /\ ~d.alive
           /\ \A d \in S : d.by \notin bys => d \in Orphaned(S, bys)
<1> SUFFICES ASSUME NEW d \in Orphaned(S, bys)
             PROVE  /\ Old(d) \/ Made(d)
                    /\ d \in S \/ ~d.alive
                    /\ d.by \in bys => d.by \notin Reads /\ ~d.alive
  BY DEF Good, Orphaned
<1>1. PICK c \in S : /\ ~(c.by \in bys /\ c.by \in Reads \cup {"form_texts"})
                     /\ d = IF c.by \in bys THEN [c EXCEPT !.alive = FALSE] ELSE c
  BY DEF Orphaned
<1>2. (Old(c) \/ Made(c)) /\ c \in Call
  BY OldIsCall DEF Good, Made, PageInv, TypeOK
<1>3. CASE c.by \notin bys
  BY <1>1, <1>2, <1>3
<1>4. CASE c.by \in bys
  <2>1. /\ d = [c EXCEPT !.alive = FALSE] /\ d \in Call /\ d.by = c.by /\ d.path = c.path
        /\ d.who = c.who /\ d.got = c.got /\ d.seen = c.seen /\ ~d.alive /\ d.by \notin Reads
    BY <1>1, <1>2, <1>4, AliveOnly
  <2>2. ASSUME Made(c) PROVE Made(d)
    BY <2>1, <2>2 DEF Made, WellMade
  <2>3. ASSUME NEW e \in calls, c = [e EXCEPT !.alive = FALSE] PROVE Old(d)
    <3>1. e \in Call
      BY DEF PageInv, TypeOK
    <3>2. d = [e EXCEPT !.alive = FALSE]
      BY <2>1, <2>3, <3>1 DEF Call
    <3> QED BY <2>1, <3>2 DEF Old
  <2>4. Old(d) \/ Made(d)
    BY <1>2, <2>1, <2>2, <2>3 DEF Old
  <2> QED BY <1>1, <1>4, <2>1, <2>4
<1> QED BY <1>3, <1>4

\* Names of handlers are of one sort only.
LEMMA Sorts ==
    /\ Reads \cap ActionIds = {} /\ OfForm \cap ActionIds = {} /\ OfForm \cap Reads = {}
    /\ "load" \notin ActionIds \cup Reads \cup OfForm
    /\ OfPanel = ActionIds \cup Reads /\ ActionIds \subseteq Bys /\ Reads \subseteq Bys
    /\ OfForm \subseteq Bys /\ "load" \in Bys
    /\ Kinds \subseteq ActionIds /\ OfMeter \subseteq ActionIds /\ Kinds \cap OfMeter = {}
BY DEF Reads, ActionIds, OfForm, OfPanel, Forms, Kinds, OfMeter, Plain, Bys

\* Among all of them, they are the handlers of the view.
LEMMA OwnIsMine == Own = Mine(calls)
BY DEF Own, Mine

\* Which handler makes which request, as one relation of the two.
Makes(by, path) ==
    /\ path = "consent" <=> by \in Kinds
    /\ path = "link" => by = "meter_link"
    /\ path = "unlink" => by = "meter_unlink"
    /\ path = "status" => by \in {"status", "meter_link", "meter_unlink"}
    /\ path \in {"me", "me_again", "me_after"} => by \in {"load", "sign_in", "register"}
    /\ by = "load" => path \in {"me", "refresh", "me_again", "verify", "me_after"}
    /\ by = "status" => path = "status"

\* A request that is made is one of these.
LEMMA MadeCall ==
    ASSUME NEW by \in Bys, NEW path \in Paths, NEW who \in Whos,
           NEW flag \in Flags, NEW nr \in Presses, Makes(by, path),
           path = "verify" => by = "load" /\ who = page.token
    PROVE  Made(Asked(by, path, who, flag, nr))
<1> DEFINE d == Asked(by, path, who, flag, nr)
<1>1. d \in Call
  BY AskedTyped
<1>2. d.by = by /\ d.path = path /\ d.who = who /\ d.got = "waiting" /\ d.alive = TRUE
  BY AskedParts
<1> HIDE DEF d
<1>3. WellMade(d)
  BY <1>2 DEF WellMade, Makes
<1>4. Made(d)
  BY <1>1, <1>2, <1>3 DEF Made
<1> QED BY <1>4 DEF d

\* The request that follows an answer is one of its handler's.
LEMMA MadeThen ==
    ASSUME PageInv, NEW c \in calls,
           NEW path \in {"refresh", "me_again", "me_after", "me", "status", "check"},
           Makes(c.by, path)
    PROVE  /\ Made(Then(c, path)) /\ Then(c, path).by = c.by /\ Then(c, path).path = path
           /\ Then(c, path).alive = TRUE /\ Then(c, path).got = "waiting"
<1>1. c \in Call /\ cookie \in Cookie
  BY DEF PageInv, TypeOK
<1>2. /\ c.by \in Bys /\ c.flag \in Flags /\ c.nr \in Presses
  BY <1>1, CallParts
<1>3. path \in Paths /\ path # "verify"
  BY DEF Paths, Open
<1>4. CookieAfter(c, "ok") \in Cookie
  BY <1>1, CookieTyped
<1>5. Sender(CookieAfter(c, "ok"), path) \in Whos
  BY <1>4, SenderTyped
<1>6. Made(Then(c, path))
  BY <1>2, <1>3, <1>5, MadeCall DEF Then
<1>7. /\ Then(c, path).by = c.by /\ Then(c, path).path = path
      /\ Then(c, path).alive = TRUE /\ Then(c, path).got = "waiting"
  BY AskedParts DEF Then
<1> QED BY <1>6, <1>7

\* What a view asks for when it appears, or when the status of the meter is set.
LEMMA MadeReads ==
    ASSUME PageInv, NEW view
    PROVE  /\ \A d \in PanelReads(cookie) :
                 Made(d) /\ d.by \in Reads /\ d.path = d.by
           /\ \A d \in FormReads(view) : Made(d) /\ d.by = "form_texts"
           /\ LET d == Asked("check", "check", Sender(cookie, "check"), FALSE, 0) IN
              Made(d) /\ d.by = "check" /\ d.path = "check"
<1>1. /\ {"texts", "status", "check", "form_texts"} \subseteq Bys
      /\ {"texts", "status", "check"} \subseteq Paths
  BY DEF Bys, Reads, Paths, Open
<1>2. Nobody \in Whos /\ 0 \in Presses /\ FALSE \in Flags
  BY AccountAssumption DEF Whos, Flags, Presses
<1>3. /\ Makes("texts", "texts") /\ Makes("status", "status")
      /\ Makes("check", "check") /\ Makes("form_texts", "texts")
  BY DEF Makes, Kinds
<1>4. cookie \in Cookie
  BY DEF PageInv, TypeOK
<1>5. Sender(cookie, "status") \in Whos /\ Sender(cookie, "check") \in Whos
  BY <1>4, SenderTyped
<1>6. Made(Asked("texts", "texts", Nobody, FALSE, 0))
  BY <1>1, <1>2, <1>3, MadeCall
<1>7. Made(Asked("status", "status", Sender(cookie, "status"), FALSE, 0))
  BY <1>1, <1>2, <1>3, <1>5, MadeCall
<1>8. Made(Asked("check", "check", Sender(cookie, "check"), FALSE, 0))
  BY <1>1, <1>2, <1>3, <1>5, MadeCall
<1>9. Made(Asked("form_texts", "texts", Nobody, FALSE, 0))
  BY <1>1, <1>2, <1>3, MadeCall
<1>10. ASSUME NEW d \in PanelReads(cookie) PROVE Made(d) /\ d.by \in Reads /\ d.path = d.by
  <2>1. CASE d = Asked("texts", "texts", Nobody, FALSE, 0)
    <3>1. Made(d)
      BY <1>6, <2>1
    <3>2. d.by = "texts" /\ d.path = "texts"
      BY <2>1 DEF Asked
    <3> QED BY <3>1, <3>2 DEF Reads
  <2>2. CASE d = Asked("status", "status", Sender(cookie, "status"), FALSE, 0)
    <3>1. Made(d)
      BY <1>7, <2>2
    <3>2. d.by = "status" /\ d.path = "status"
      BY <2>2 DEF Asked
    <3> QED BY <3>1, <3>2 DEF Reads
  <2> QED BY <2>1, <2>2 DEF PanelReads
<1>11. ASSUME NEW d \in FormReads(view) PROVE Made(d) /\ d.by = "form_texts"
  <2> DEFINE e == Asked("form_texts", "texts", Nobody, FALSE, 0)
  <2>1. e.by = "form_texts"
    BY DEF Asked
  <2>2. FormReads(view) = IF view = "register" THEN {e} ELSE {}
    BY DEF FormReads
  <2> HIDE DEF e
  <2>3. d = e
    BY <2>2
  <2>4. Made(e)
    BY <1>9 DEF e
  <2> QED BY <2>1, <2>3, <2>4
<1>12. LET d == Asked("check", "check", Sender(cookie, "check"), FALSE, 0) IN
       d.by = "check" /\ d.path = "check"
  BY DEF Asked
<1> QED BY <1>8, <1>10, <1>11, <1>12

-----------------------------------------------------------------------------
(* A step leaves what the view waits for alone, or changes one request of it. *)

OfView(S) == {d \in S : d.by \in OfPanel}

Keeps(S) == Good(S) /\ OfView(S) = OfView(calls)

\* What is left when a request returns that is not the view's, with what follows.
LEMMA RestKeeps ==
    ASSUME PageInv, NEW c \in calls, c.by \notin OfPanel,
           NEW more, \A d \in more : Made(d) /\ d.by \notin OfPanel
    PROVE  Keeps(Rest(c) \cup more)
<1>1. Good(Rest(c) \cup more)
  BY DEF Good, Old, Rest
<1>2. OfView(Rest(c) \cup more) = OfView(calls)
  BY DEF OfView, Rest
<1> QED BY <1>1, <1>2 DEF Keeps

\* A form that goes takes nothing of the view with it.
LEMMA FormsKeep ==
    ASSUME PageInv, NEW view
    PROVE  Keeps(Orphaned(calls, OfForm) \cup FormReads(view))
<1> DEFINE S == Orphaned(calls, OfForm)
<1>1. Good(calls)
  BY DEF Good, Old
<1>2. /\ Good(S)
      /\ \A d \in S : d \in calls \/ ~d.alive
      /\ \A d \in calls : d.by \notin OfForm => d \in S
  BY <1>1, Orphans
<1>3. \A d \in S : d.by \notin OfForm => d \in calls
  <2> SUFFICES ASSUME NEW d \in S, d.by \notin OfForm PROVE d \in calls
    OBVIOUS
  <2>1. PICK c \in calls : d = IF c.by \in OfForm THEN [c EXCEPT !.alive = FALSE] ELSE c
    BY DEF Orphaned
  <2>2. c \in Call
    BY DEF PageInv, TypeOK
  <2>3. [c EXCEPT !.alive = FALSE].by = c.by
    BY <2>2, AliveOnly
  <2> QED BY <2>1, <2>3
<1>4. \A d \in FormReads(view) : Made(d) /\ d.by \notin OfPanel
  BY MadeReads, Sorts DEF OfForm
<1>5. \A x : x \in OfPanel => x \notin OfForm
  BY Sorts
<1> HIDE DEF S
<1>6. Good(S \cup FormReads(view))
  BY <1>2, <1>4 DEF Good
<1>7. OfView(S \cup FormReads(view)) = OfView(calls)
  BY <1>2, <1>3, <1>4, <1>5 DEF OfView
<1>8. Keeps(S \cup FormReads(view))
  BY <1>6, <1>7 DEF Keeps
<1> QED BY <1>8 DEF S

\* The handlers of the view are among its requests.
LEMMA OwnOfView ==
    /\ Own = Mine(OfView(calls)) /\ Own' = Mine(OfView(calls'))
    /\ \A S : Mine(OfView(S)) = Mine(S)
BY Sorts DEF Own, Mine, OfView

\* A view without a screen waits for nothing.
LEMMA NoOwnUnmounted ==
    ASSUME PageInv, ~panel.mounted
    PROVE  Own = {} /\ \A c \in calls : c.by \in OfPanel => ~c.alive /\ c.by \in ActionIds
<1>1. Own = {}
  BY DEF PageInv, NothingWithoutAView, HandledOnce
<1>2. ASSUME NEW c \in calls, c.by \in OfPanel PROVE ~c.alive /\ c.by \in ActionIds
  BY <1>1, <1>2, Sorts DEF PageInv, NothingWithoutAView, Own
<1> QED BY <1>1, <1>2

\* The last of the invariant, when the handlers of the view stay what they are.
LEMMA HandledFrame ==
    ASSUME HandledOnce, Own' = Own, panel'.busy = panel.busy
    PROVE  HandledOnce'
BY DEF HandledOnce

\* When no handler is left.
LEMMA HandledNone ==
    ASSUME Own' = {}, panel'.busy = {}
    PROVE  HandledOnce'
BY DEF HandledOnce

\* When one ends.
LEMMA HandledEnds ==
    ASSUME HandledOnce, NEW c \in Own, Own' = Own \ {c}, panel'.busy = panel.busy \ {c.by}
    PROVE  HandledOnce'
BY DEF HandledOnce

\* When one begins whose button was enabled.
LEMMA HandledBegins ==
    ASSUME HandledOnce, NEW d, Own' = Own \cup {d}, panel'.busy = panel.busy \cup {d.by},
           d.by \notin panel.busy, d.by \in OfMeter => panel.busy \cap OfMeter = {}
    PROVE  HandledOnce'
<1>1. panel'.busy = {c.by : c \in Own'}
  BY DEF HandledOnce
<1>2. \A c \in Own : c.by \in panel.busy
  BY DEF HandledOnce
<1>3. ASSUME NEW a \in Own', NEW b \in Own', a.by = b.by \/ {a.by, b.by} \subseteq OfMeter
      PROVE  a = b
  <2>1. CASE a \in Own /\ b \in Own
    BY <1>3, <2>1 DEF HandledOnce
  <2>2. CASE a = d /\ b = d
    BY <2>2
  <2>3. ASSUME NEW e \in Own, e.by = d.by \/ {e.by, d.by} \subseteq OfMeter PROVE FALSE
    BY <1>2, <2>3
  <2> QED BY <1>3, <2>1, <2>2, <2>3
<1> QED BY <1>1, <1>3 DEF HandledOnce

\* When one goes on with a next request.
LEMMA HandledGoesOn ==
    ASSUME HandledOnce, NEW c \in Own, NEW d, d.by = c.by,
           Own' = (Own \ {c}) \cup {d}, panel'.busy = panel.busy
    PROVE  HandledOnce'
<1>1. panel'.busy = {e.by : e \in Own'}
  BY DEF HandledOnce
<1>2. ASSUME NEW a \in Own', NEW b \in Own', a.by = b.by \/ {a.by, b.by} \subseteq OfMeter
      PROVE  a = b
  <2>1. CASE a \in Own \ {c} /\ b \in Own \ {c}
    BY <1>2, <2>1 DEF HandledOnce
  <2>2. CASE a = d /\ b = d
    BY <2>2
  <2>3. ASSUME NEW e \in Own \ {c}, e.by = d.by \/ {e.by, d.by} \subseteq OfMeter PROVE FALSE
    BY <2>3 DEF HandledOnce
  <2> QED BY <1>2, <2>1, <2>2, <2>3
<1> QED BY <1>1, <1>2 DEF HandledOnce

-----------------------------------------------------------------------------
(* The steps of the page, by what they do to the view.                        *)

\* What all of them leave alone, or keep in its type.
Around ==
    /\ accounts' = accounts /\ page'.token = page.token
    /\ cookie' \in Cookie /\ clicks' \in 0..MaxClicks
    /\ doubt' \subseteq Kinds /\ shown' \subseteq Users \X (1..MaxKeys)

\* The page, the view and the form as they should be after it.
Looks ==
    /\ page' \in Page /\ panel' \in Panel /\ form' \in Form
    /\ panel'.mounted <=> page'.status = "signed_in"
    /\ page'.view = "reset_confirm" => page'.reset
    /\ panel'.mounted => page'.me.who \in Users

Stepped == PageInv' /\ Good(calls') /\ Around

\* What a step of the page has to show, once for all of them.
LEMMA AfterStep ==
    ASSUME PageInv, Around, Looks, Good(calls'), NothingWithoutAView', HandledOnce'
    PROVE  Stepped
<1>1. calls' \subseteq Call /\ CallsAreMade'
  BY GoodCalls DEF Around
<1>2. accounts' \in [Users -> AccountRow]
  BY DEF PageInv, TypeOK, Around
<1>3. TypeOK'
  BY <1>1, <1>2 DEF TypeOK, Around, Looks
<1> QED BY <1>1, <1>3 DEF PageInv, Looks, Stepped

\* A view stays what it is, goes, or comes with what the API said of the account.
ViewStays == panel' = panel /\ Own' = Own
ViewGoes  == panel' = Unmounted /\ Own' = {}
ViewComes ==
    /\ ~panel.mounted /\ Own' = {}
    /\ \E c \in Snapshots, b \in BOOLEAN : c.who \in Users /\ panel' = Mounted(c.seen, b)

Shows == Stepped /\ UNCHANGED <<doubt, shown>> /\ (ViewStays \/ ViewGoes \/ ViewComes)

\* A step that leaves the view alone.
LEMMA QuietStep ==
    ASSUME PageInv, Around, UNCHANGED <<doubt, shown>>, Keeps(calls'), panel' = panel, page' \in Page, form' \in Form,
           page'.status = page.status, page'.me = page.me,
           page'.view = "reset_confirm" => page'.reset
    PROVE  Shows
<1>1. Looks
  BY DEF Looks, PageInv, TypeOK
<1>2. Own' = Own
  BY OwnOfView DEF Keeps
<1>3. HandledOnce'
  BY <1>2, HandledFrame DEF PageInv
<1>4. NothingWithoutAView'
  <2> SUFFICES ASSUME ~panel.mounted
               PROVE  panel.busy = {} /\ panel.key = 0 /\ \A d \in calls' : d.by \notin Reads
    BY DEF NothingWithoutAView
  <2>1. \A d \in calls' : d.by \in Reads => d \in calls
    BY Sorts DEF Keeps, OfView
  <2> QED BY <2>1 DEF PageInv, NothingWithoutAView
<1> QED BY <1>1, <1>2, <1>3, <1>4, AfterStep DEF Keeps, Shows, ViewStays

\* A view that mounts, or the one that is there.
LEMMA MountedTyped ==
    ASSUME NEW row \in AccountRow, NEW b \in BOOLEAN
    PROVE  /\ Mounted(row, b) \in Panel /\ Mounted(row, b).mounted
           /\ Mounted(row, b).busy = {} /\ Mounted(row, b).key = 0
           /\ Mounted(row, b).consents = row.consents /\ Mounted(row, b).status = "unknown"
<1>1. row.consents \in [Kinds -> BOOLEAN]
  BY DEF AccountRow
<1>2. Mounted(row, b) \in Panel
  BY <1>1, StartShapes DEF Mounted, Panel
<1> QED BY <1>2 DEF Mounted, Unmounted

\* What the account that answered is shown as.
LEMMA ShownPage ==
    ASSUME NEW c, c.who \in Users, c.seen \in AccountRow, NEW S, NEW p \in Page,
           ShowAccount(c, S, p)
    PROVE  /\ page' \in Page /\ page'.status = "signed_in" /\ page'.me.who = c.who
           /\ page'.view = p.view /\ page'.reset = p.reset /\ page'.token = p.token
           /\ page'.verification = p.verification
<1>1. c.seen.verified \in BOOLEAN
  BY DEF AccountRow
<1>2. page' = [p EXCEPT !.status = "signed_in", !.notice = FALSE,
                        !.me = [who |-> c.who, verified |-> c.seen.verified]]
  BY DEF ShowAccount
<1> QED BY <1>1, <1>2 DEF Page

\* The account is shown.
LEMMA ShowsAccount ==
    ASSUME PageInv, Around, UNCHANGED <<doubt, shown>>,
           NEW c \in Snapshots, c.who \in Users, c.seen \in AccountRow,
           NEW S, Keeps(S), NEW p \in Page, p.view = "reset_confirm" => p.reset,
           ShowAccount(c, S, p)
    PROVE  Shows
<1>1. /\ page' \in Page /\ page'.status = "signed_in" /\ page'.me.who = c.who
      /\ page'.view = p.view /\ page'.reset = p.reset
  BY ShownPage
<1>2. form' \in Form
  BY StartShapes DEF ShowAccount
<1>3. p.registered \in BOOLEAN
  BY DEF Page
<1>4. CASE panel.mounted
  <2>1. panel' = panel /\ calls' = S
    BY <1>4 DEF ShowAccount
  <2>2. Own' = Own
    BY <2>1, OwnOfView DEF Keeps
  <2>3. HandledOnce'
    BY <2>1, <2>2, HandledFrame DEF PageInv
  <2>4. NothingWithoutAView'
    BY <1>4, <2>1 DEF NothingWithoutAView
  <2>5. Looks
    BY <1>1, <1>2, <1>4, <2>1 DEF Looks, PageInv, TypeOK
  <2> QED BY <2>1, <2>2, <2>3, <2>4, <2>5, AfterStep DEF Keeps, Shows, ViewStays
<1>5. CASE ~panel.mounted
  <2>1. /\ panel' = Mounted(c.seen, p.registered)
        /\ calls' = Orphaned(S, OfForm) \cup PanelReads(cookie)
    BY <1>5 DEF ShowAccount
  <2>2. panel' \in Panel /\ panel'.mounted /\ panel'.busy = {}
    BY <1>3, <2>1, MountedTyped
  <2>3. Good(S)
    BY DEF Keeps
  <2>4. /\ Good(Orphaned(S, OfForm))
        /\ \A d \in Orphaned(S, OfForm) : d \in S \/ ~d.alive
    BY <2>3, Orphans
  <2>5. \A d \in PanelReads(cookie) : Made(d) /\ d.by \in Reads
    BY MadeReads
  <2>6. Good(calls')
    BY <2>1, <2>4, <2>5 DEF Good
  <2>7. Mine(S) = {}
    BY <1>5, OwnOfView, NoOwnUnmounted DEF Keeps
  <2>8. Own' = {}
    BY <2>1, <2>4, <2>5, <2>7, Sorts DEF Own, Mine
  <2>9. HandledOnce'
    BY <2>2, <2>8, HandledNone
  <2>10. NothingWithoutAView'
    BY <2>2 DEF NothingWithoutAView
  <2>11. Looks
    BY <1>1, <1>2, <2>2 DEF Looks
  <2>12. ViewComes
    BY <1>3, <1>5, <2>1, <2>8 DEF ViewComes
  <2> QED BY <2>6, <2>9, <2>10, <2>11, <2>12, AfterStep DEF Shows
<1> QED BY <1>4, <1>5

\* A form is shown.
LEMMA ShowsForm ==
    ASSUME PageInv, Around, UNCHANGED <<doubt, shown>>,
           NEW S, Good(S), OfView(S) \subseteq OfView(calls),
           NEW p \in Page, p.view = "reset_confirm" => p.reset, ShowForm(S, p)
    PROVE  Shows
<1>1. /\ page' = [p EXCEPT !.status = "signed_out"] /\ panel' = Unmounted
      /\ form' = form \/ form' = FreshForm
  BY DEF ShowForm
<1>2. page' \in Page /\ page'.status = "signed_out" /\ page'.view = p.view /\ page'.reset = p.reset
  BY <1>1 DEF Page
<1>3. /\ panel' \in Panel /\ ~panel'.mounted /\ panel'.busy = {} /\ panel'.key = 0
  BY <1>1, StartShapes
<1>4. form' \in Form
  BY <1>1, StartShapes DEF PageInv, TypeOK
<1>5. Looks
  BY <1>2, <1>3, <1>4 DEF Looks
<1>6. CASE page.status = "signed_out" /\ page.view = p.view
  <2>1. calls' = S
    BY <1>6 DEF ShowForm
  <2>2. ~panel.mounted
    BY <1>6 DEF PageInv, TypeOK
  <2>3. Own = {}
    BY <2>2, NoOwnUnmounted
  <2>4. Own' = {}
    BY <2>1, <2>3, OwnOfView DEF Mine
  <2>5. HandledOnce'
    BY <1>3, <2>4, HandledNone
  <2>6. \A d \in calls' : d.by \in Reads => d \in calls
    BY <2>1, Sorts DEF OfView
  <2>7. NothingWithoutAView'
    BY <1>3, <2>2, <2>6 DEF NothingWithoutAView, PageInv
  <2> QED BY <1>1, <1>5, <2>1, <2>4, <2>5, <2>7, AfterStep DEF Shows, ViewGoes
<1>7. CASE ~(page.status = "signed_out" /\ page.view = p.view)
  <2>1. calls' = Orphaned(S, OfPanel \cup OfForm) \cup FormReads(p.view)
    BY <1>7 DEF ShowForm
  <2>2. /\ Good(Orphaned(S, OfPanel \cup OfForm))
        /\ \A d \in Orphaned(S, OfPanel \cup OfForm) :
              d.by \in OfPanel \cup OfForm => d.by \notin Reads /\ ~d.alive
    BY Orphans
  <2>3. \A d \in FormReads(p.view) : Made(d) /\ d.by = "form_texts"
    BY MadeReads
  <2>4. Good(calls')
    BY <2>1, <2>2, <2>3 DEF Good
  <2>5. "form_texts" \notin ActionIds \cup Reads
    BY Sorts DEF OfForm
  <2>6. \A d \in calls' : d.by \notin Reads /\ (d.by \in ActionIds => ~d.alive)
    BY <2>1, <2>2, <2>3, <2>5, Sorts
  <2>7. Own' = {}
    BY <2>6 DEF Own
  <2>8. HandledOnce'
    BY <1>3, <2>7, HandledNone
  <2>9. NothingWithoutAView'
    BY <1>3, <2>6 DEF NothingWithoutAView
  <2> QED BY <1>1, <1>5, <2>4, <2>7, <2>8, <2>9, AfterStep DEF Shows, ViewGoes
<1> QED BY <1>6, <1>7

-----------------------------------------------------------------------------
(* Every action keeps the invariant of the page.                              *)

\* A request that is answered stays the request of its handler.
LEMMA AnswerKeepsView ==
    ASSUME PageInv, NEW c \in calls, NEW d, d.by = c.by, d.alive = c.alive,
           calls' = (calls \ {c}) \cup {d}, panel' = panel
    PROVE  HandledOnce' /\ NothingWithoutAView'
<1>1. CASE c \in Own
  <2>1. Own' = (Own \ {c}) \cup {d}
    BY <1>1 DEF Own
  <2> QED BY <1>1, <2>1, HandledGoesOn DEF PageInv, NothingWithoutAView
<1>2. CASE c \notin Own
  <2>1. Own' = Own
    BY <1>2 DEF Own
  <2> QED BY <2>1, HandledFrame DEF PageInv, NothingWithoutAView
<1> QED BY <1>1, <1>2

\* The API acts, or finds no session.
LEMMA ServeStep ==
    ASSUME PageInv, NEW c \in calls, Serve(c)
    PROVE  PageInv'
<1> USE DEF PageInv
<1>1. /\ c \in Call /\ WellMade(c) /\ c.path # "texts"
      /\ UNCHANGED <<cookie, page, panel, form, clicks, shown>>
  BY DEF Serve, TypeOK, CallsAreMade
<1>2. ASSUME NEW got \in {"ok", "unauthorised"}, NEW row \in AccountRow,
             calls' = Answered(c, got, row), accounts' \in [Users -> AccountRow],
             doubt' \subseteq Kinds,
             \A u \in Users : accounts[u].issued <= accounts'[u].issued,
             got = "ok" /\ c.path \notin {"request", "confirm"} => c.who \in Users,
             got = "ok" /\ c.path = "link" => row.key # 0 /\ row.key <= accounts'[c.who].issued
      PROVE  PageInv'
  <2> DEFINE d == [c EXCEPT !.got = got, !.seen = row]
  <2>1. /\ d \in Call /\ d.by = c.by /\ d.path = c.path /\ d.who = c.who
        /\ d.alive = c.alive /\ d.got = got /\ d.seen = row
    BY <1>1 DEF Call
  <2>2. calls' = (calls \ {c}) \cup {d}
    BY <1>2 DEF Answered
  <2> HIDE DEF d
  <2>3. HandledOnce' /\ NothingWithoutAView'
    BY <1>1, <2>1, <2>2, AnswerKeepsView
  <2>4. WellMade(d)'
    BY <1>1, <1>2, <2>1 DEF WellMade
  <2>5. ASSUME NEW e \in calls PROVE WellMade(e)'
    <3>1. WellMade(e) /\ e \in Call
      BY DEF CallsAreMade, TypeOK
    <3>2. ASSUME e.got = "ok", e.path = "link"
          PROVE  e.seen.key <= accounts'[e.who].issued
      <4>1. e.who \in Users /\ e.seen.key <= accounts[e.who].issued /\ e.seen \in AccountRow
        BY <3>1, <3>2, CallParts DEF WellMade
      <4>2. accounts[e.who] \in AccountRow /\ accounts'[e.who] \in AccountRow
        BY <1>2, <4>1 DEF TypeOK
      <4>3. /\ e.seen.key \in Nat /\ accounts[e.who].issued \in Nat
            /\ accounts'[e.who].issued \in Nat
        BY <4>1, <4>2, AccountAssumption DEF AccountRow
      <4> QED BY <1>2, <4>1, <4>3
    <3> QED BY <1>1, <3>1, <3>2 DEF WellMade
  <2>6. CallsAreMade'
    BY <2>2, <2>4, <2>5 DEF CallsAreMade
  <2>7. calls' \subseteq Call
    BY <2>1, <2>2 DEF TypeOK
  <2>8. TypeOK'
    BY <1>1, <1>2, <2>7 DEF TypeOK
  <2> QED BY <1>1, <2>3, <2>6, <2>8
<1>3. \A u \in Users : accounts[u].issued \in Nat
  BY AccountAssumption DEF TypeOK, AccountRow
<1>4. ASSUME Permitted(c), NEW a \in After(c), calls' = Answered(c, "ok", a),
             accounts' = IF c.who \in Users THEN [accounts EXCEPT ![c.who] = a] ELSE accounts,
             doubt' \subseteq Kinds
      PROVE  PageInv'
  <2>1. c.path = "consent" => c.by \in Kinds
    BY <1>1 DEF WellMade
  <2>2. RowOf(c) \in AccountRow /\ RowChange(c, RowOf(c), a)
    BY <1>1, <1>4, <2>1, ServedRow DEF TypeOK
  <2>3. a \in AccountRow /\ RowOf(c).issued <= a.issued
    BY <2>2 DEF RowChange
  <2>4. accounts' \in [Users -> AccountRow]
    BY <1>4, <2>3 DEF TypeOK
  <2>5. \A u \in Users : accounts[u].issued <= accounts'[u].issued
    BY <1>3, <1>4, <2>3 DEF TypeOK, RowOf
  <2>6. c.path \notin {"request", "confirm"} => c.who \in Users
    BY <1>1, <1>4 DEF Permitted
  <2>7. ASSUME c.path = "link" PROVE a.key # 0 /\ a.key <= accounts'[c.who].issued
    <3>1. a.key = RowOf(c).issued + 1 /\ a.issued = a.key /\ RowOf(c).issued \in Nat
      BY <2>2, <2>7, AccountAssumption DEF RowChange, AccountRow
    <3>2. accounts'[c.who] = a
      BY <1>4, <2>6, <2>7 DEF TypeOK
    <3> QED BY <3>1, <3>2
  <2> QED BY <1>2, <1>4, <2>3, <2>4, <2>5, <2>6, <2>7
<1>5. ASSUME calls' = Answered(c, "unauthorised", NoRow), UNCHANGED <<accounts, doubt>>
      PROVE  PageInv'
  <2>1. accounts' \in [Users -> AccountRow] /\ doubt' \subseteq Kinds
    BY <1>5 DEF TypeOK
  <2>2. \A u \in Users : accounts[u].issued <= accounts'[u].issued
    BY <1>3, <1>5
  <2> QED BY <1>2, <1>5, <2>1, <2>2, StartShapes
<1>6. c.path = "consent" => c.by \in Kinds
  BY <1>1 DEF WellMade
<1>7. CASE Permitted(c) /\ \E a \in After(c) :
              /\ accounts' = IF c.who \in Users THEN [accounts EXCEPT ![c.who] = a] ELSE accounts
              /\ calls' = Answered(c, "ok", a)
              /\ doubt' \subseteq Kinds
  BY <1>4, <1>7
<1>8. \/ /\ Permitted(c)
         /\ \E a \in After(c) :
               /\ accounts' = IF c.who \in Users THEN [accounts EXCEPT ![c.who] = a] ELSE accounts
               /\ calls' = Answered(c, "ok", a)
               /\ doubt' \subseteq Kinds
      \/ calls' = Answered(c, "unauthorised", NoRow) /\ UNCHANGED <<accounts, doubt>>
  BY <1>6 DEF Serve, TypeOK
<1> QED BY <1>5, <1>7, <1>8

\* An answer of the API that a handler hears was given, and holds what it says.
LEMMA HeardOfUser ==
    ASSUME PageInv, NEW c \in calls, NEW got \in Heard(c), got = "ok",
           c.path \notin {"texts", "request", "confirm"}
    PROVE  /\ c.got = "ok" /\ c.who \in Users /\ c.seen \in AccountRow
           /\ c.path \in {"me", "me_again", "me_after"} => c \in Snapshots
<1>1. c.got = "ok"
  BY HeardOk
<1>2. c \in Call /\ WellMade(c)
  BY DEF PageInv, TypeOK, CallsAreMade
<1> QED BY <1>1, <1>2, CallParts DEF WellMade, Snapshots

\* The load does not wait for the view, nor does a form.
LEMMA NotOfView ==
    \A c : c.by \in {"load"} \cup OfForm => c.by \notin OfPanel
BY Sorts

\* The question that confirms an address.
LEMMA VerifyMade ==
    ASSUME PageInv, NEW c \in calls, NEW b \in BOOLEAN, c.by \notin OfPanel
    PROVE  /\ Keeps(ThenVerify(Rest(c), c, b))
           /\ \A d \in ThenVerify(Rest(c), c, b) :
                 d \in Rest(c) \/ (/\ page.hash = "verify" /\ d.by = "load" /\ d.path = "verify"
                                   /\ d.got = "waiting" /\ d.alive = TRUE)
<1> DEFINE w == Asked("load", "verify", page.token, b, c.nr)
<1>2. c \in Call /\ page \in Page
  BY DEF PageInv, TypeOK
<1>3. c.nr \in Presses
  BY <1>2, CallParts
<1>4. page.token \in Whos
  BY <1>2 DEF Page, Whos
<1>5. "load" \in Bys /\ "verify" \in Paths /\ Makes("load", "verify") /\ b \in Flags
  BY DEF Bys, Paths, Open, Makes, Kinds, Flags
<1>6. Made(w)
  BY <1>3, <1>4, <1>5, MadeCall
<1>7. w.by = "load" /\ w.path = "verify" /\ w.got = "waiting" /\ w.alive = TRUE
  BY AskedParts
<1>8. w.by \notin OfPanel
  BY <1>7, NotOfView
<1>9. ThenVerify(Rest(c), c, b) = Rest(c) \cup (IF page.hash = "verify" THEN {w} ELSE {})
  BY DEF ThenVerify
<1> HIDE DEF w
<1>10. Keeps(Rest(c) \cup (IF page.hash = "verify" THEN {w} ELSE {}))
  BY <1>6, <1>8, RestKeeps
<1> QED BY <1>7, <1>9, <1>10

\* What the steps of a return have in common.
LEMMA AroundReturn ==
    ASSUME PageInv, NEW c \in calls, NEW got, cookie' \in {cookie, CookieAfter(c, got)},
           UNCHANGED <<accounts, clicks, doubt, shown>>, page'.token = page.token
    PROVE  Around
<1>1. c \in Call /\ cookie \in Cookie
  BY DEF PageInv, TypeOK
<1>2. CookieAfter(c, got) \in Cookie
  BY <1>1, CookieTyped
<1> QED BY <1>1, <1>2 DEF Around, PageInv, TypeOK

\* A handler that goes on with a next request, and is not the view's.
LEMMA GoesOn ==
    ASSUME PageInv, NEW c \in calls, c.by \notin OfPanel, NEW got,
           NEW path \in {"refresh", "me_again", "me_after", "me"}, Makes(c.by, path),
           cookie' \in {cookie, CookieAfter(c, got)}, calls' = Rest(c) \cup {Then(c, path)},
           UNCHANGED <<accounts, clicks, doubt, shown>>, panel' = panel, form' = form,
           page' \in Page, page'.status = page.status, page'.me = page.me,
           page'.token = page.token, page'.view = "reset_confirm" => page'.reset
    PROVE  Shows
<1> DEFINE d == Then(c, path)
<1>0. path \in {"refresh", "me_again", "me_after", "me", "status", "check"}
  OBVIOUS
<1>1. Made(d) /\ d.by = c.by
  BY <1>0, MadeThen
<1> HIDE DEF d
<1>2. Keeps(Rest(c) \cup {d})
  BY <1>1, RestKeeps
<1>4. Keeps(calls')
  BY <1>2 DEF d
<1>3. Around
  BY AroundReturn
<1> QED BY <1>3, <1>4, QuietStep DEF PageInv, TypeOK

\* A handler that ends, and is not the view's.
LEMMA Ends ==
    ASSUME PageInv, NEW c \in calls, c.by \notin OfPanel, NEW got,
           cookie' \in {cookie, CookieAfter(c, got)}, calls' = Rest(c),
           UNCHANGED <<accounts, clicks, doubt, shown>>, panel' = panel, form' \in Form,
           page' \in Page, page'.status = page.status, page'.me = page.me,
           page'.token = page.token, page'.view = "reset_confirm" => page'.reset
    PROVE  Shows
<1>1. Keeps(Rest(c) \cup {})
  BY RestKeeps
<1>2. Around
  BY AroundReturn
<1> QED BY <1>1, <1>2, QuietStep

\* The load goes on, or shows a form or the account.
LEMMA LoadStep ==
    ASSUME PageInv, NEW c \in calls, NEW got \in Heard(c), LoadSettles(c, got)
    PROVE  Shows
<1>1. /\ c.by = "load" /\ c.path \in {"me", "refresh", "me_again"}
      /\ cookie' = CookieAfter(c, got)
      /\ UNCHANGED <<accounts, clicks, doubt, shown>>
  BY DEF LoadSettles
<1>2. c.by \notin OfPanel
  BY <1>1, NotOfView
<1>3. /\ page \in Page /\ (page.view = "reset_confirm" => page.reset)
      /\ Makes("load", "refresh") /\ Makes("load", "me_again")
  BY DEF PageInv, TypeOK, Makes, Kinds
<1>4. CASE c.path = "me" /\ got = "unauthorised"
  <2>1. calls' = Rest(c) \cup {Then(c, "refresh")} /\ UNCHANGED <<page, panel, form>>
    BY <1>4 DEF LoadSettles
  <2> QED BY <1>1, <1>2, <1>3, <2>1, GoesOn
<1>5. CASE c.path = "refresh" /\ got = "ok"
  <2>1. calls' = Rest(c) \cup {Then(c, "me_again")} /\ UNCHANGED <<page, panel, form>>
    BY <1>5 DEF LoadSettles
  <2> QED BY <1>1, <1>2, <1>3, <2>1, GoesOn
<1>6. CASE c.path # "refresh" /\ got = "ok"
  <2> DEFINE S == ThenVerify(Rest(c), c, TRUE)
  <2>1. ShowAccount(c, S, page)
    BY <1>6 DEF LoadSettles
  <2>2. c.who \in Users /\ c.seen \in AccountRow /\ c \in Snapshots
    BY <1>1, <1>6, HeardOfUser
  <2>3. Keeps(S)
    BY <1>2, VerifyMade
  <2> HIDE DEF S
  <2>4. page'.token = page.token
    BY <1>3, <2>1, <2>2, ShownPage
  <2>5. Around
    BY <1>1, <2>4, AroundReturn
  <2> QED BY <1>1, <1>3, <2>1, <2>2, <2>3, <2>5, ShowsAccount
<1>7. CASE got = "failed" \/ (got = "unauthorised" /\ c.path # "me")
  <2> DEFINE S == ThenVerify(Rest(c), c, FALSE)
             p == [page EXCEPT !.notice = c.path # "refresh" /\ got = "failed"]
  <2>1. ShowForm(S, p)
    BY <1>7 DEF LoadSettles
  <2>2. p \in Page /\ p.view = page.view /\ p.reset = page.reset /\ p.token = page.token
    BY <1>3 DEF Page
  <2>3. Keeps(S)
    BY <1>2, VerifyMade
  <2> HIDE DEF S, p
  <2>4. page'.token = page.token
    BY <2>1, <2>2 DEF ShowForm, Page
  <2>5. Around
    BY <1>1, <2>4, AroundReturn
  <2> QED BY <1>1, <1>3, <2>1, <2>2, <2>3, <2>5, ShowsForm DEF Keeps
<1> QED BY <1>1, <1>4, <1>5, <1>6, <1>7 DEF LoadSettles

\* The token was verified, or was not; the account is asked for again.
LEMMA VerifyStep ==
    ASSUME PageInv, NEW c \in calls, NEW got \in Heard(c), VerifyReturns(c, got)
    PROVE  Shows
<1>1. /\ c.by = "load"
      /\ page' = [page EXCEPT !.hash = "none",
                              !.verification = IF got = "ok" THEN "confirmed" ELSE "failed"]
      /\ calls' = IF got = "ok" /\ c.flag THEN Rest(c) \cup {Then(c, "me_after")} ELSE Rest(c)
      /\ UNCHANGED <<accounts, cookie, panel, form, clicks, doubt, shown>>
  BY DEF VerifyReturns
<1>2. c.by \notin OfPanel /\ Makes("load", "me_after")
  BY <1>1, NotOfView DEF Makes, Kinds
<1>3. page \in Page /\ (page.view = "reset_confirm" => page.reset) /\ form \in Form
  BY DEF PageInv, TypeOK
<1>4. /\ page' \in Page /\ page'.status = page.status /\ page'.me = page.me
      /\ page'.token = page.token /\ page'.view = page.view /\ page'.reset = page.reset
  BY <1>1, <1>3 DEF Page
<1>5. CASE got = "ok" /\ c.flag
  BY <1>1, <1>2, <1>3, <1>4, <1>5, GoesOn
<1>6. CASE ~(got = "ok" /\ c.flag)
  BY <1>1, <1>2, <1>3, <1>4, <1>6, Ends
<1> QED BY <1>5, <1>6

\* The account is shown, or a form with a notice.
LEMMA MeAfterStep ==
    ASSUME PageInv, NEW c \in calls, NEW got \in Heard(c), MeAfterReturns(c, got)
    PROVE  Shows
<1>1. /\ c.by = "load" /\ c.path = "me_after"
      /\ UNCHANGED <<accounts, cookie, clicks, doubt, shown>>
  BY DEF MeAfterReturns
<1>2. c.by \notin OfPanel
  BY <1>1, NotOfView
<1>3. page \in Page /\ (page.view = "reset_confirm" => page.reset)
  BY DEF PageInv, TypeOK
<1>4. Keeps(Rest(c) \cup {})
  BY <1>2, RestKeeps
<1>5. Keeps(Rest(c))
  BY <1>4
<1>6. CASE got = "ok"
  <2>1. ShowAccount(c, Rest(c), page)
    BY <1>6 DEF MeAfterReturns
  <2>2. c.who \in Users /\ c.seen \in AccountRow /\ c \in Snapshots
    BY <1>1, <1>6, HeardOfUser
  <2>3. page'.token = page.token
    BY <1>3, <2>1, <2>2, ShownPage
  <2>4. Around
    BY <1>1, <2>3, AroundReturn
  <2> QED BY <1>1, <1>3, <1>5, <2>1, <2>2, <2>4, ShowsAccount
<1>7. CASE got # "ok"
  <2> DEFINE p == [page EXCEPT !.notice = TRUE]
  <2>1. ShowForm(Rest(c), p)
    BY <1>7 DEF MeAfterReturns
  <2>2. p \in Page /\ p.view = page.view /\ p.reset = page.reset /\ p.token = page.token
    BY <1>3 DEF Page
  <2> HIDE DEF p
  <2>3. page'.token = page.token
    BY <2>1, <2>2 DEF ShowForm, Page
  <2>4. Around
    BY <1>1, <2>3, AroundReturn
  <2> QED BY <1>1, <1>3, <1>5, <2>1, <2>2, <2>4, ShowsForm DEF Keeps
<1> QED BY <1>6, <1>7

\* A form signs in.
LEMMA SignInStep ==
    ASSUME PageInv, NEW c \in calls, NEW got \in Heard(c), SignInReturns(c, got)
    PROVE  Shows
<1>1. /\ c.by \in {"sign_in", "register"} /\ cookie' = CookieAfter(c, got)
      /\ UNCHANGED <<accounts, clicks, doubt, shown>>
  BY DEF SignInReturns
<1>2. c.by \notin OfPanel
  BY <1>1, NotOfView DEF OfForm, Forms
<1>3. /\ page \in Page /\ form \in Form /\ (page.view = "reset_confirm" => page.reset)
  BY DEF PageInv, TypeOK
<1>4. CASE c.path # "me" /\ got = "ok"
  <2>1. calls' = Rest(c) \cup {Then(c, "me")} /\ UNCHANGED <<page, panel, form>>
    BY <1>4 DEF SignInReturns
  <2>2. Makes(c.by, "me")
    BY <1>1 DEF Makes, Kinds
  <2> QED BY <1>1, <1>2, <1>3, <2>1, <2>2, GoesOn
<1>5. CASE c.path = "me" /\ got = "ok"
  <2> DEFINE p == [page EXCEPT !.registered = page.registered \/ c.by = "register"]
  <2>1. ShowAccount(c, Rest(c), p)
    BY <1>5 DEF SignInReturns
  <2>2. p \in Page /\ p.view = page.view /\ p.reset = page.reset /\ p.token = page.token
    BY <1>3 DEF Page
  <2> HIDE DEF p
  <2>3. c.who \in Users /\ c.seen \in AccountRow /\ c \in Snapshots
    BY <1>5, HeardOfUser
  <2>4. Keeps(Rest(c) \cup {})
    BY <1>2, RestKeeps
  <2>5. Keeps(Rest(c))
    BY <2>4
  <2>6. page'.token = page.token
    BY <2>1, <2>2, <2>3, ShownPage
  <2>7. Around
    BY <1>1, <2>6, AroundReturn
  <2> QED BY <1>1, <1>3, <2>1, <2>2, <2>3, <2>5, <2>7, ShowsAccount
<1>6. CASE got # "ok"
  <2>1. calls' = Rest(c) /\ form' = FormFails(c, got) /\ UNCHANGED <<page, panel>>
    BY <1>6 DEF SignInReturns
  <2>2. form' \in Form
    BY <1>3, <2>1 DEF FormFails, Form
  <2> QED BY <1>1, <1>2, <1>3, <2>1, <2>2, Ends
<1> QED BY <1>4, <1>5, <1>6

\* A reset was asked for, or a password was changed.
LEMMA ResetStep ==
    ASSUME PageInv, NEW c \in calls, NEW got \in Heard(c), ResetReturns(c, got)
    PROVE  Shows
<1>1. /\ c.by \in {"reset_request", "reset_confirm"} /\ calls' = Rest(c)
      /\ UNCHANGED <<accounts, cookie, panel, clicks, doubt, shown>>
  BY DEF ResetReturns
<1>2. c.by \notin OfPanel
  BY <1>1, NotOfView DEF OfForm, Forms
<1>3. /\ page \in Page /\ form \in Form /\ (page.view = "reset_confirm" => page.reset)
  BY DEF PageInv, TypeOK
<1>4. CASE c.by = "reset_request" /\ got = "ok"
  <2>1. /\ form' = IF c.alive THEN [form EXCEPT !.busy = FALSE, !.sent = TRUE] ELSE form
        /\ UNCHANGED page
    BY <1>4 DEF ResetReturns
  <2>2. form' \in Form
    BY <1>3, <2>1 DEF Form
  <2> QED BY <1>1, <1>2, <1>3, <2>1, <2>2, Ends
<1>5. CASE c.by = "reset_confirm" /\ got = "ok"
  <2>1. /\ page' = [page EXCEPT !.reset = FALSE, !.confirmation = "changed", !.view = "sign_in"]
        /\ form' = FreshForm
    BY <1>5 DEF ResetReturns
  <2>2. /\ page' \in Page /\ page'.status = page.status /\ page'.me = page.me
        /\ page'.token = page.token /\ page'.view # "reset_confirm"
    BY <1>3, <2>1 DEF Page, Forms
  <2> QED BY <1>1, <1>2, <2>1, <2>2, StartShapes, Ends
<1>6. CASE got # "ok"
  <2>1. form' = FormFails(c, got) /\ UNCHANGED page
    BY <1>6 DEF ResetReturns
  <2>2. form' \in Form
    BY <1>3, <2>1 DEF FormFails, Form
  <2> QED BY <1>1, <1>2, <1>3, <2>1, <2>2, Ends
<1> QED BY <1>1, <1>4, <1>5, <1>6

\* The sentences of the form arrive.
LEMMA FormTextsStep ==
    ASSUME PageInv, NEW c \in calls, NEW got \in Heard(c), FormTextsReturn(c, got)
    PROVE  Shows
<1>1. /\ c.by = "form_texts" /\ calls' = Rest(c)
      /\ form' = [form EXCEPT !.texts = IF got = "ok" THEN "there" ELSE "failed"]
      /\ UNCHANGED <<accounts, cookie, page, panel, clicks, doubt, shown>>
  BY DEF FormTextsReturn
<1>2. c.by \notin OfPanel
  BY <1>1, NotOfView DEF OfForm
<1>3. /\ page \in Page /\ form \in Form /\ (page.view = "reset_confirm" => page.reset)
  BY DEF PageInv, TypeOK
<1>4. form' \in Form
  BY <1>1, <1>3 DEF Form
<1> QED BY <1>1, <1>2, <1>3, <1>4, Ends

\* A press of a button counts, and changes nothing around the page.
LEMMA AroundPress ==
    ASSUME PageInv, Press, UNCHANGED <<accounts, cookie, doubt, shown>>,
           page'.token = page.token
    PROVE  Around /\ clicks \in Presses
<1>1. clicks \in Presses
  BY DEF PageInv, TypeOK, Presses
<1>2. clicks' \in 0..MaxClicks
  BY <1>1, AccountAssumption DEF Press, Presses
<1> QED BY <1>1, <1>2 DEF Around, PageInv, TypeOK

\* Another form.
LEMMA SwitchStep ==
    ASSUME PageInv, NEW view \in Forms, SwitchView(view)
    PROVE  Shows
<1>1. /\ page.status = "signed_out" /\ view \in Leads[page.view] /\ Press
      /\ page' = [page EXCEPT !.view = view, !.confirmation = "none",
                              !.reset = page.reset /\ page.view # "reset_confirm"]
      /\ form' = FreshForm /\ calls' = Orphaned(calls, OfForm) \cup FormReads(view)
      /\ UNCHANGED <<accounts, cookie, panel, doubt, shown>>
  BY DEF SwitchView
<1>2. page \in Page
  BY DEF PageInv, TypeOK
<1>3. /\ page' \in Page /\ page'.status = page.status /\ page'.me = page.me
      /\ page'.token = page.token /\ page'.view = view
  BY <1>1, <1>2 DEF Page
<1>4. view # "reset_confirm"
  BY <1>1, <1>2 DEF Page, Forms, Leads
<1>5. Keeps(calls')
  BY <1>1, FormsKeep
<1>6. Around
  BY <1>1, <1>3, AroundPress
<1> QED BY <1>1, <1>3, <1>4, <1>5, <1>6, StartShapes, QuietStep

\* A form that is sent.
LEMMA SubmitStep ==
    ASSUME PageInv, NEW view \in Forms, NEW path \in {"login", "register", "request", "confirm"},
           NEW who \in Whos, Submit(view, path, who)
    PROVE  Shows
<1>1. /\ Press /\ form' = [form EXCEPT !.busy = TRUE, !.failure = FALSE, !.token = FALSE]
      /\ calls' = calls \cup {Asked(view, path, who, FALSE, clicks)}
      /\ UNCHANGED <<accounts, cookie, page, panel, doubt, shown>>
  BY DEF Submit
<1>2. /\ page \in Page /\ form \in Form /\ (page.view = "reset_confirm" => page.reset)
  BY DEF PageInv, TypeOK
<1>3. form' \in Form
  BY <1>1, <1>2 DEF Form
<1>4. Around /\ clicks \in Presses
  BY <1>1, AroundPress
<1>5. view \in Bys /\ path \in Paths /\ FALSE \in Flags /\ path # "verify"
  BY DEF Bys, Paths, Open, Flags
<1>6. Makes(view, path)
  BY DEF Makes, Forms, Kinds
<1> DEFINE d == Asked(view, path, who, FALSE, clicks)
<1>7. Made(d)
  BY <1>4, <1>5, <1>6, MadeCall
<1>8. d.by = view
  BY DEF Asked
<1>9. d.by \notin OfPanel
  BY <1>8, NotOfView DEF OfForm
<1> HIDE DEF d
<1>10. Keeps(calls \cup {d})
  BY <1>7, <1>9 DEF Keeps, Good, Old, OfView
<1>11. Keeps(calls')
  BY <1>1, <1>10 DEF d
<1> QED BY <1>1, <1>2, <1>3, <1>4, <1>11, QuietStep

\* A handler of the view, and a read of it, have a view to wait for them.
LEMMA MountedFor ==
    ASSUME PageInv, NEW c \in calls, c \in Own \/ c.by \in Reads
    PROVE  panel.mounted /\ (c \in Own => c.by \in panel.busy)
BY DEF PageInv, NothingWithoutAView, HandledOnce

\* What a button that begins a handler does to the view.
Started(id, path) ==
    /\ Stepped /\ UNCHANGED <<doubt, shown>> /\ panel.mounted
    /\ panel'.busy = panel.busy \cup {id} /\ panel'.mounted /\ panel'.key = panel.key
    /\ panel'.status = panel.status /\ panel'.consents = panel.consents
    /\ \E d : /\ Made(d) /\ d.by = id /\ d.path = path /\ d.alive = TRUE
              /\ Own' = Own \cup {d}

\* Every handler of the view begins so.
LEMMA StartStep ==
    ASSUME PageInv, NEW id \in ActionIds, NEW path \in Paths \ {"verify"}, NEW flag \in BOOLEAN,
           Makes(id, path), panel.mounted, id \notin panel.busy,
           id \in OfMeter => panel.busy \cap OfMeter = {}, Start(id, path, flag)
    PROVE  Started(id, path)
<1> DEFINE d == Asked(id, path, Sender(cookie, path), flag, clicks)
<1>1. /\ Press /\ panel' = [panel EXCEPT !.busy = panel.busy \cup {id}, !.failure = FALSE]
      /\ calls' = calls \cup {d}
      /\ UNCHANGED <<accounts, cookie, page, form, doubt, shown>>
  BY DEF Start
<1>2. Around /\ clicks \in Presses
  BY <1>1, AroundPress
<1>3. /\ panel \in Panel /\ cookie \in Cookie /\ page \in Page /\ form \in Form
  BY DEF PageInv, TypeOK
<1>4. Sender(cookie, path) \in Whos
  BY <1>3, SenderTyped
<1>5. id \in Bys /\ flag \in Flags
  BY Sorts DEF Flags
<1>6. Made(d)
  BY <1>2, <1>4, <1>5, MadeCall
<1>7. d.by = id /\ d.alive = TRUE /\ d.path = path
  BY DEF Asked
<1> HIDE DEF d
<1>8. /\ panel' \in Panel /\ panel'.mounted /\ panel'.busy = panel.busy \cup {id}
      /\ panel'.key = panel.key /\ panel'.status = panel.status
      /\ panel'.consents = panel.consents
  BY <1>1, <1>3 DEF Panel
<1>9. Own' = Own \cup {d}
  BY <1>1, <1>7 DEF Own
<1>10. HandledOnce'
  BY <1>7, <1>8, <1>9, HandledBegins DEF PageInv
<1>11. NothingWithoutAView'
  BY <1>8 DEF NothingWithoutAView
<1>12. Looks
  BY <1>1, <1>3, <1>8 DEF Looks, PageInv, TypeOK
<1>13. Good(calls')
  BY <1>1, <1>6 DEF Good, Old
<1>14. Stepped
  BY <1>2, <1>10, <1>11, <1>12, <1>13, AfterStep
<1> QED BY <1>1, <1>6, <1>7, <1>8, <1>9, <1>14 DEF Started

\* A status that is set takes no handler with it and asks for none.
LEMMA CheckKeeps ==
    ASSUME PageInv, NEW S, Good(S), NEW status
    PROVE  /\ Good(WithCheck(S, status)) /\ Mine(WithCheck(S, status)) = Mine(S)
           /\ \A d \in WithCheck(S, status) : d \in S \/ (Made(d) /\ d.by = "check" /\ d.path = "check")
<1> DEFINE e == Asked("check", "check", Sender(cookie, "check"), FALSE, 0)
<1>1. Made(e) /\ e.by = "check" /\ e.path = "check"
  BY MadeReads
<1>2. WithCheck(S, status) = {d \in S : d.by # "check"} \cup (IF status = "linked" THEN {e} ELSE {})
  BY DEF WithCheck
<1> HIDE DEF e
<1>3. Good(WithCheck(S, status))
  BY <1>1, <1>2 DEF Good
<1>4. "check" \notin ActionIds
  BY Sorts DEF Reads
<1>5. Mine(WithCheck(S, status)) = Mine(S)
  BY <1>1, <1>2, <1>4 DEF Mine
<1> QED BY <1>1, <1>2, <1>3, <1>5

\* A row says one of three things of a meter, and one of three of an advice.
LEMMA SaysOfRow ==
    ASSUME NEW row \in AccountRow
    PROVE  /\ StatusOf(row) \in {"linked", "may", "may_not"}
           /\ CheckOf(row) \in {"no_advice", "agrees", "disagrees"}
BY DEF StatusOf, CheckOf, AccountRow

\* What a read that returns does to the view.
ReadDone(c, got) ==
    /\ Stepped /\ UNCHANGED <<doubt, shown>> /\ Own' = Own
    /\ panel'.mounted = panel.mounted /\ panel'.busy = panel.busy
    /\ panel'.key = panel.key /\ panel'.consents = panel.consents
    /\ \/ panel'.status = panel.status
       \/ c.by = "status" /\ panel'.status = IF got = "ok" THEN StatusOf(c.seen) ELSE "unknown"

\* Every read of the view ends so.
LEMMA ReadStep ==
    ASSUME PageInv, NEW c \in calls, NEW got \in Heard(c), ReadReturns(c, got)
    PROVE  ReadDone(c, got)
<1> DEFINE ok == got = "ok"
           status == IF ok THEN StatusOf(c.seen) ELSE "unknown"
<1>1. /\ c.by \in Reads
      /\ panel' = CASE c.by = "texts"  -> [panel EXCEPT !.texts = ok]
                    [] c.by = "status" -> [panel EXCEPT !.status = status]
                    [] c.by = "check"  -> [panel EXCEPT !.check = IF ok THEN CheckOf(c.seen)
                                                                  ELSE "unknown"]
      /\ calls' = IF c.by = "status" THEN WithCheck(Rest(c), status) ELSE Rest(c)
      /\ UNCHANGED <<accounts, cookie, page, form, clicks, doubt, shown>>
  BY DEF ReadReturns
<1>2. c \in Call /\ panel \in Panel /\ page \in Page /\ form \in Form
  BY DEF PageInv, TypeOK
<1>3. c.seen \in AccountRow
  BY <1>2, CallParts
<1>4. /\ status \in {"unknown", "linked", "may", "may_not"}
      /\ (IF ok THEN CheckOf(c.seen) ELSE "unknown") \in {"unknown", "no_advice", "agrees", "disagrees"}
      /\ ok \in BOOLEAN
  BY <1>3, SaysOfRow
<1> HIDE DEF ok, status
<1>5. /\ panel' \in Panel /\ panel'.mounted = panel.mounted /\ panel'.busy = panel.busy
      /\ panel'.key = panel.key /\ panel'.consents = panel.consents
      /\ panel'.status = panel.status \/ (c.by = "status" /\ panel'.status = status)
  <2>1. CASE c.by = "texts"
    BY <1>1, <1>2, <1>4, <2>1 DEF Panel
  <2>2. CASE c.by = "status"
    BY <1>1, <1>2, <1>4, <2>2 DEF Panel
  <2>3. CASE c.by = "check"
    BY <1>1, <1>2, <1>4, <2>3 DEF Panel
  <2> QED BY <1>1, <2>1, <2>2, <2>3 DEF Reads
<1>6. Good(Rest(c))
  BY DEF Good, Old, Rest
<1>7. Mine(Rest(c)) = Mine(calls)
  BY <1>1, Sorts DEF Mine, Rest
<1>8. Good(calls') /\ Mine(calls') = Mine(calls)
  BY <1>1, <1>6, <1>7, CheckKeeps
<1>9. Own' = Own
  BY <1>8 DEF Own, Mine
<1>10. HandledOnce'
  BY <1>5, <1>9, HandledFrame DEF PageInv
<1>11. panel'.mounted
  BY <1>1, <1>5, MountedFor
<1>12. NothingWithoutAView'
  BY <1>11 DEF NothingWithoutAView
<1>13. Looks
  BY <1>1, <1>2, <1>5 DEF Looks, PageInv, TypeOK
<1>14. Around
  BY <1>1, AroundReturn
<1>15. Stepped
  BY <1>8, <1>10, <1>12, <1>13, <1>14, AfterStep
<1> QED BY <1>1, <1>5, <1>9, <1>15 DEF ReadDone, status, ok

\* What an answer changes in the view leaves it mounted, and its buttons.
LEMMA UpdatedTyped ==
    ASSUME PageInv, NEW c \in calls, c.by \in ActionIds
    PROVE  /\ Updated(c) \in Panel /\ Updated(c).mounted = panel.mounted
           /\ Updated(c).busy = panel.busy
<1>1. c \in Call /\ panel \in Panel /\ WellMade(c)
  BY DEF PageInv, TypeOK, CallsAreMade
<1>2. c.seen \in AccountRow
  BY <1>1, CallParts
<1>3. /\ c.seen.consents \in [Kinds -> BOOLEAN] /\ c.seen.key \in 0..MaxKeys
      /\ 0 \in 0..MaxKeys
  BY <1>2, AccountAssumption DEF AccountRow
<1>4. CASE c.path = "consent"
  <2>1. c.by \in Kinds
    BY <1>1, <1>4 DEF WellMade
  <2>2. c.seen.consents[c.by] \in BOOLEAN
    BY <1>3, <2>1
  <2>3. Updated(c) = [panel EXCEPT !.consents[c.by] = c.seen.consents[c.by]]
    BY <1>4 DEF Updated
  <2> QED BY <1>1, <2>2, <2>3 DEF Panel
<1>5. CASE c.path = "link"
  BY <1>1, <1>3, <1>5 DEF Updated, Panel
<1>6. CASE c.path = "unlink"
  BY <1>1, <1>3, <1>6 DEF Updated, Panel
<1>7. CASE c.path \in {"accept", "resend"}
  BY <1>1, <1>7 DEF Updated, Panel
<1>8. CASE c.path = "status"
  BY <1>1, <1>2, <1>8, SaysOfRow DEF Updated, Panel
<1>9. CASE c.path = "check"
  BY <1>1, <1>2, <1>9, SaysOfRow DEF Updated, Panel
<1>10. CASE c.path \notin {"consent", "link", "unlink", "accept", "resend", "status", "check"}
  BY <1>1, <1>10 DEF Updated
<1> QED BY <1>4, <1>5, <1>6, <1>7, <1>8, <1>9, <1>10

\* A handler goes on with one request at most.
LEMMA FollowsOne ==
    ASSUME PageInv, NEW c \in calls, c.by \in ActionIds, NEW d \in Follows(c)
    PROVE  /\ Follows(c) = {d} /\ Made(d) /\ d.by = c.by /\ d.alive = TRUE
           /\ d.path = (IF c.path \in {"link", "unlink"} THEN "status" ELSE "check")
           /\ c.path \in {"link", "unlink", "claim", "accept"}
<1>1. WellMade(c) /\ "load" \notin ActionIds
  BY Sorts DEF PageInv, CallsAreMade
<1>2. CASE c.path \in {"link", "unlink"}
  <2>1. Follows(c) = {Then(c, "status")}
    BY <1>2 DEF Follows
  <2>2. Makes(c.by, "status")
    BY <1>1, <1>2 DEF Makes, WellMade
  <2>3. Made(Then(c, "status"))
    BY <2>2, MadeThen
  <2>4. /\ Then(c, "status").by = c.by /\ Then(c, "status").path = "status"
        /\ Then(c, "status").alive = TRUE
    BY DEF Then, Asked
  <2> QED BY <1>2, <2>1, <2>3, <2>4
<1>3. CASE c.path \in {"claim", "accept"}
  <2>1. Follows(c) = {Then(c, "check")}
    BY <1>3 DEF Follows
  <2>2. Makes(c.by, "check")
    BY <1>1, <1>3 DEF Makes, WellMade
  <2>3. Made(Then(c, "check"))
    BY <2>2, MadeThen
  <2>4. /\ Then(c, "check").by = c.by /\ Then(c, "check").path = "check"
        /\ Then(c, "check").alive = TRUE
    BY DEF Then, Asked
  <2> QED BY <1>3, <2>1, <2>3, <2>4
<1>4. CASE c.path \notin {"link", "unlink", "claim", "accept"}
  BY <1>4 DEF Follows
<1> QED BY <1>2, <1>3, <1>4

\* A button that is enabled again.
LEMMA DoneTyped ==
    ASSUME NEW p \in Panel, NEW c
    PROVE  /\ Done(p, c) \in Panel /\ Done(p, c).mounted = p.mounted
           /\ Done(p, c).busy = p.busy \ {c.by}
           /\ Done(p, c).key = p.key /\ Done(p, c).status = p.status
           /\ Done(p, c).consents = p.consents
BY DEF Done, Panel

\* A request that inherits from its handler that the view has gone.
LEMMA MadeDead ==
    ASSUME NEW d, Made(d), d.by \notin Reads, NEW b \in BOOLEAN, NEW e, e = [d EXCEPT !.alive = b]
    PROVE  Made(e) /\ e.by = d.by /\ e.path = d.path /\ e.alive = b
<1>1. d \in Call /\ d.got = "waiting"
  BY DEF Made
<1>2. /\ e \in Call /\ e.by = d.by /\ e.path = d.path /\ e.who = d.who
      /\ e.got = d.got /\ e.seen = d.seen /\ e.alive = b
  BY <1>1 DEF Call
<1>3. WellMade(e)
  BY <1>2 DEF Made, WellMade
<1> QED BY <1>1, <1>2, <1>3 DEF Made

\* What an answer leaves under way, and on the screen.
LEMMA ActionParts ==
    ASSUME PageInv, NEW c \in calls, NEW got, ActionReturns(c, got)
    PROVE  /\ c.by \in ActionIds \ {"logout", "delete"}
           /\ UNCHANGED <<accounts, cookie, page, form, clicks>>
           /\ LET more == IF got = "ok" THEN Follows(c) ELSE {}
                  after == IF got = "ok" THEN Updated(c) ELSE [panel EXCEPT !.failure = TRUE]
              IN /\ panel' = IF ~c.alive THEN panel
                             ELSE IF more = {} THEN Done(after, c) ELSE after
                 /\ calls' = IF c.alive /\ got = "ok" /\ c.path = "status"
                             THEN WithCheck(Rest(c), StatusOf(c.seen))
                             ELSE Rest(c) \cup {[d EXCEPT !.alive = c.alive] : d \in more}
           /\ doubt' = IF c.path = "consent" /\ c.alive /\ c.got = "ok" /\ got # "ok"
                       THEN doubt \cup {c.by} ELSE doubt
           /\ shown' = IF c.alive /\ got = "ok" /\ c.path = "link"
                       THEN shown \cup {<<c.who, c.seen.key>>} ELSE shown
BY DEF ActionReturns

\* What an answer does to the view: nothing when the view has gone, the handler
\* ends, or it goes on with a next request.
ActionLost(c) == ~c.alive /\ panel' = panel /\ Own' = Own

ActionEnds(c, got) ==
    /\ c.alive /\ c \in Own /\ Own' = Own \ {c}
    /\ got = "ok" => c.path \notin {"link", "unlink", "claim", "accept"}
    /\ panel' = Done(IF got = "ok" THEN Updated(c) ELSE [panel EXCEPT !.failure = TRUE], c)

ActionGoesOn(c, got) ==
    /\ c.alive /\ c \in Own /\ got = "ok" /\ panel' = Updated(c)
    /\ c.path \in {"link", "unlink", "claim", "accept"}
    /\ \E d : /\ Made(d) /\ d.by = c.by /\ d.path \in {"status", "check"}
              /\ Own' = (Own \ {c}) \cup {d}

\* Every answer to a handler of the view is one of the three.
LEMMA ActionStep ==
    ASSUME PageInv, NEW c \in calls, NEW got \in Heard(c), ActionReturns(c, got)
    PROVE  Stepped /\ (ActionLost(c) \/ ActionEnds(c, got) \/ ActionGoesOn(c, got))
<1> DEFINE more == IF got = "ok" THEN Follows(c) ELSE {}
           after == IF got = "ok" THEN Updated(c) ELSE [panel EXCEPT !.failure = TRUE]
<1>1. /\ c.by \in ActionIds
      /\ panel' = IF ~c.alive THEN panel ELSE IF more = {} THEN Done(after, c) ELSE after
      /\ calls' = IF c.alive /\ got = "ok" /\ c.path = "status"
                  THEN WithCheck(Rest(c), StatusOf(c.seen))
                  ELSE Rest(c) \cup {[d EXCEPT !.alive = c.alive] : d \in more}
      /\ UNCHANGED <<accounts, cookie, page, form, clicks>>
  BY ActionParts
<1>2. /\ c \in Call /\ WellMade(c) /\ panel \in Panel /\ page \in Page /\ form \in Form
      /\ cookie \in Cookie /\ clicks \in 0..MaxClicks
  BY DEF PageInv, TypeOK, CallsAreMade
<1>3. c.alive \in BOOLEAN /\ c.seen \in AccountRow
  BY <1>2, CallParts
<1>4. Around
  <2>1. doubt' \subseteq Kinds
    <3>1. c.path = "consent" => c.by \in Kinds
      BY <1>2 DEF WellMade
    <3> QED BY <3>1, ActionParts DEF PageInv, TypeOK
  <2>2. shown' \subseteq Users \X (1..MaxKeys)
    <3>1. CASE c.alive /\ got = "ok" /\ c.path = "link"
      <4>1. c.got = "ok" /\ c.who \in Users
        BY <3>1, HeardOfUser
      <4>2. c.seen.key \in 0..MaxKeys /\ c.seen.key # 0
        BY <1>2, <1>3, <3>1, <4>1 DEF WellMade, AccountRow
      <4>3. c.seen.key \in 1..MaxKeys
        BY <4>2, AccountAssumption
      <4>4. shown' = shown \cup {<<c.who, c.seen.key>>}
        BY <3>1, ActionParts
      <4> QED BY <4>1, <4>3, <4>4 DEF PageInv, TypeOK
    <3>2. CASE ~(c.alive /\ got = "ok" /\ c.path = "link")
      BY <3>2, ActionParts DEF PageInv, TypeOK
    <3> QED BY <3>1, <3>2
  <2> QED BY <1>1, <1>2, <2>1, <2>2 DEF Around
<1>5. after \in Panel /\ after.mounted = panel.mounted /\ after.busy = panel.busy
  <2>1. CASE got = "ok"
    BY <1>1, <2>1, UpdatedTyped
  <2>2. CASE got # "ok"
    BY <1>2, <2>2 DEF Panel
  <2> QED BY <2>1, <2>2
<1>6. ASSUME NEW d \in more
      PROVE  more = {d} /\ Made(d) /\ d.by = c.by /\ d.alive = TRUE /\ got = "ok"
             /\ c.path # "status" /\ d.path \in {"status", "check"}
             /\ c.path \in {"link", "unlink", "claim", "accept"}
  BY <1>1, FollowsOne
<1>7. Good(Rest(c))
  BY DEF Good, Old, Rest
<1>8. ASSUME panel' \in Panel, panel'.mounted = panel.mounted PROVE Looks
  BY <1>1, <1>2, <1>8 DEF Looks, PageInv, TypeOK
<1> HIDE DEF more, after
<1>9. CASE ~c.alive
  <2>1. panel' = panel /\ calls' = Rest(c) \cup {[d EXCEPT !.alive = c.alive] : d \in more}
    BY <1>1, <1>9
  <2>2. \A e \in {[d EXCEPT !.alive = c.alive] : d \in more} :
           Made(e) /\ e.by = c.by /\ e.alive = c.alive
    <3> SUFFICES ASSUME NEW d \in more, NEW e, e = [d EXCEPT !.alive = c.alive]
                 PROVE  Made(e) /\ e.by = c.by /\ e.alive = c.alive
      OBVIOUS
    <3>1. Made(d) /\ d.by \notin Reads /\ d.by = c.by
      BY <1>1, <1>6, Sorts
    <3> QED BY <1>3, <3>1, MadeDead
  <2>3. Good(calls')
    BY <1>7, <2>1, <2>2 DEF Good
  <2>4. Own' = Own
    BY <1>9, <2>1, <2>2 DEF Own, Rest
  <2>5. HandledOnce'
    BY <2>1, <2>4, HandledFrame DEF PageInv
  <2>6. NothingWithoutAView'
    BY <1>1, <2>1, <2>2, Sorts DEF NothingWithoutAView, PageInv, Rest
  <2>7. ActionLost(c)
    BY <1>9, <2>1, <2>4 DEF ActionLost
  <2> QED BY <1>2, <1>4, <1>8, <2>1, <2>3, <2>5, <2>6, <2>7, AfterStep
<1>10. CASE c.alive /\ more = {}
  <2>1. c \in Own /\ panel.mounted
    BY <1>1, <1>10, MountedFor DEF Own
  <2>2. panel' = Done(after, c)
    BY <1>1, <1>10
  <2>3. panel' \in Panel /\ panel'.mounted /\ panel'.busy = panel.busy \ {c.by}
    <3>1. /\ Done(after, c) \in Panel /\ Done(after, c).mounted = after.mounted
          /\ Done(after, c).busy = after.busy \ {c.by}
      BY <1>5, DoneTyped
    <3> QED BY <1>5, <2>1, <2>2, <3>1
  <2>4. calls' = Rest(c) \/ calls' = WithCheck(Rest(c), StatusOf(c.seen))
    BY <1>1, <1>10
  <2>5. Good(calls') /\ Mine(calls') = Mine(Rest(c))
    BY <1>7, <2>4, CheckKeeps
  <2>6. Own' = Own \ {c}
    BY <2>5 DEF Own, Mine, Rest
  <2>7. HandledOnce'
    BY <2>1, <2>3, <2>6, HandledEnds DEF PageInv
  <2>8. NothingWithoutAView'
    BY <2>3 DEF NothingWithoutAView
  <2>9. got = "ok" => c.path \notin {"link", "unlink", "claim", "accept"}
    BY <1>10 DEF more, Follows
  <2>10. ActionEnds(c, got)
    BY <1>10, <2>1, <2>2, <2>6, <2>9 DEF ActionEnds, after
  <2> QED BY <1>4, <1>8, <2>1, <2>3, <2>5, <2>7, <2>8, <2>10, AfterStep
<1>11. ASSUME c.alive, NEW d \in more PROVE Stepped /\ ActionGoesOn(c, got)
  <2> DEFINE e == [d EXCEPT !.alive = c.alive]
  <2>1. c \in Own /\ panel.mounted
    BY <1>1, <1>11, MountedFor DEF Own
  <2>2. more = {d} /\ Made(d) /\ d.by = c.by /\ got = "ok" /\ c.path # "status" /\ d.by \notin Reads
    BY <1>1, <1>6, <1>11, Sorts
  <2>3. panel' = after
    BY <1>1, <1>11, <2>2
  <2>4. Made(e) /\ e.by = c.by /\ e.alive = c.alive /\ e.path = d.path
    BY <1>3, <2>2, MadeDead
  <2>5. calls' = Rest(c) \cup {e}
    BY <1>1, <2>2
  <2> HIDE DEF e
  <2>6. Own' = (Own \ {c}) \cup {e}
    BY <1>1, <1>11, <2>4, <2>5 DEF Own, Rest
  <2>7. HandledOnce'
    BY <1>5, <2>1, <2>3, <2>4, <2>6, HandledGoesOn DEF PageInv
  <2>8. Good(calls')
    BY <1>7, <2>4, <2>5 DEF Good
  <2>9. NothingWithoutAView'
    BY <1>5, <2>1, <2>3 DEF NothingWithoutAView
  <2>10. panel' = Updated(c) /\ d.path \in {"status", "check"}
         /\ c.path \in {"link", "unlink", "claim", "accept"}
    BY <1>6, <2>2, <2>3 DEF after
  <2>11. ActionGoesOn(c, got)
    BY <1>11, <2>1, <2>2, <2>4, <2>6, <2>10 DEF ActionGoesOn
  <2> QED BY <1>4, <1>5, <1>8, <2>3, <2>7, <2>8, <2>9, <2>11, AfterStep
<1> QED BY <1>9, <1>10, <1>11

\* What a refused sign-out does to the view.
SignOutFails(c) ==
    /\ Stepped /\ UNCHANGED <<doubt, shown>> /\ c.by \in {"logout", "delete"} /\ Own' \subseteq Own
    /\ panel'.mounted = panel.mounted /\ panel.busy \ {c.by} \subseteq panel'.busy
    /\ panel'.key = panel.key /\ panel'.status = panel.status
    /\ panel'.consents = panel.consents

\* A sign-out shows the form, or is refused.
LEMMA SignOutStep ==
    ASSUME PageInv, NEW c \in calls, NEW got \in Heard(c), SignOutReturns(c, got)
    PROVE  Shows \/ SignOutFails(c)
<1>1. /\ c.by \in {"logout", "delete"} /\ cookie' = CookieAfter(c, got)
      /\ UNCHANGED <<accounts, clicks, doubt, shown>>
  BY DEF SignOutReturns
<1>2. c \in Call /\ panel \in Panel /\ page \in Page /\ form \in Form
  BY DEF PageInv, TypeOK
<1>3. c.by \in ActionIds
  BY <1>1 DEF ActionIds, Plain
<1>4. Good(Rest(c)) /\ OfView(Rest(c)) \subseteq OfView(calls)
  BY DEF Good, Old, Rest, OfView
<1>5. CASE got = "ok"
  <2> DEFINE p == [page EXCEPT !.view = "sign_in", !.registered = FALSE, !.notice = FALSE,
                             !.confirmation = IF c.by = "delete" THEN "deleted" ELSE "none"]
  <2>1. ShowForm(Rest(c), p)
    BY <1>5 DEF SignOutReturns
  <2>2. p \in Page /\ p.view = "sign_in" /\ p.token = page.token
    BY <1>2 DEF Page, Forms
  <2> HIDE DEF p
  <2>3. page'.token = page.token
    BY <2>1, <2>2 DEF ShowForm, Page
  <2>4. Around
    BY <1>1, <2>3, AroundReturn
  <2> QED BY <1>1, <1>4, <2>1, <2>2, <2>4, ShowsForm
<1>6. CASE got # "ok"
  <2> DEFINE p == [panel EXCEPT !.failure = TRUE]
  <2>1. /\ panel' = IF c.alive THEN Done(p, c) ELSE panel
        /\ calls' = Rest(c) /\ UNCHANGED <<page, form>>
    BY <1>6 DEF SignOutReturns
  <2>2. /\ p \in Panel /\ p.mounted = panel.mounted /\ p.busy = panel.busy
        /\ p.key = panel.key /\ p.status = panel.status /\ p.consents = panel.consents
    BY <1>2 DEF Panel
  <2> HIDE DEF p
  <2>3. Around
    BY <1>1, <2>1, AroundReturn
  <2>4. ASSUME panel' \in Panel, panel'.mounted = panel.mounted PROVE Looks
    BY <1>2, <2>1, <2>4 DEF Looks, PageInv, TypeOK
  <2>5. CASE c.alive
    <3>1. c \in Own /\ panel.mounted
      BY <1>3, <2>5, MountedFor DEF Own
    <3>2. /\ panel' \in Panel /\ panel'.mounted /\ panel'.busy = panel.busy \ {c.by}
          /\ panel'.key = panel.key /\ panel'.status = panel.status
          /\ panel'.consents = panel.consents
      <4>1. panel' = Done(p, c)
        BY <2>1, <2>5
      <4>2. /\ Done(p, c) \in Panel /\ Done(p, c).mounted = p.mounted
            /\ Done(p, c).busy = p.busy \ {c.by} /\ Done(p, c).key = p.key
            /\ Done(p, c).status = p.status /\ Done(p, c).consents = p.consents
        BY <2>2, DoneTyped
      <4> QED BY <2>2, <3>1, <4>1, <4>2
    <3>3. Own' = Own \ {c}
      BY <2>1 DEF Own, Rest
    <3>4. HandledOnce'
      BY <3>1, <3>2, <3>3, HandledEnds DEF PageInv
    <3>5. NothingWithoutAView'
      BY <3>2 DEF NothingWithoutAView
    <3>6. Stepped
      BY <1>4, <2>1, <2>3, <2>4, <3>1, <3>2, <3>4, <3>5, AfterStep
    <3> QED BY <1>1, <3>1, <3>2, <3>3, <3>6 DEF SignOutFails
  <2>6. CASE ~c.alive
    <3>1. Own' = Own
      BY <2>1, <2>6 DEF Own, Rest
    <3>2. HandledOnce'
      BY <2>1, <2>6, <3>1, HandledFrame DEF PageInv
    <3>3. NothingWithoutAView'
      BY <2>1, <2>6 DEF NothingWithoutAView, PageInv, Rest
    <3>4. panel' = panel
      BY <2>1, <2>6
    <3>5. Stepped
      BY <1>2, <1>4, <2>1, <2>3, <2>4, <3>2, <3>3, <3>4, AfterStep
    <3> QED BY <1>1, <3>1, <3>4, <3>5 DEF SignOutFails
  <2> QED BY <2>5, <2>6
<1> QED BY <1>5, <1>6

\* A return is a step of one of these.
LEMMA ReturnStep ==
    ASSUME PageInv, Return
    PROVE  Stepped
<1>1. PICK c \in calls : \E got \in Heard(c) :
        \/ LoadSettles(c, got)   \/ VerifyReturns(c, got) \/ MeAfterReturns(c, got)
        \/ SignInReturns(c, got) \/ ResetReturns(c, got)  \/ FormTextsReturn(c, got)
        \/ ActionReturns(c, got) \/ SignOutReturns(c, got) \/ ReadReturns(c, got)
  BY DEF Return
<1>2. PICK got \in Heard(c) :
        \/ LoadSettles(c, got)   \/ VerifyReturns(c, got) \/ MeAfterReturns(c, got)
        \/ SignInReturns(c, got) \/ ResetReturns(c, got)  \/ FormTextsReturn(c, got)
        \/ ActionReturns(c, got) \/ SignOutReturns(c, got) \/ ReadReturns(c, got)
  BY <1>1
<1> QED BY <1>2, LoadStep, VerifyStep, MeAfterStep, SignInStep, ResetStep, FormTextsStep,
           ActionStep, SignOutStep, ReadStep DEF Shows, ReadDone, SignOutFails

\* The buttons of the view begin a handler that is not under way.
Begins(id, path, flag) ==
    /\ Makes(id, path) /\ panel.mounted /\ id \notin panel.busy
    /\ id \in OfMeter => panel.busy \cap OfMeter = {}
    /\ path = "link" => panel.key = 0 /\ panel.status = "may"
    /\ id = "meter_unlink" => panel.key = 0
    /\ path = "consent" => flag = ~panel.consents[id]
    /\ Start(id, path, flag)

\* Every button of the view is one that begins a handler.
LEMMA ViewBegins ==
    ASSUME PageInv,
           \/ \E kind \in Kinds : Toggle(kind)
           \/ LinkAction \/ UnlinkAction \/ ClaimAction \/ AcceptAction
           \/ Download \/ SignOut \/ Remove \/ ResendConfirmation
    PROVE  \E id \in ActionIds, path \in Paths \ {"verify"}, flag \in BOOLEAN :
              Begins(id, path, flag)
<1> USE DEF Begins, Makes, ActionIds, OfMeter, Kinds, Plain, Paths, Offers, MeterBusy
<1>1. ASSUME NEW kind \in Kinds, Toggle(kind)
      PROVE  Begins(kind, "consent", ~panel.consents[kind])
  BY <1>1 DEF Toggle, MayToggle
<1>2. CASE LinkAction
  BY <1>2 DEF LinkAction, OffersLink
<1>3. CASE UnlinkAction
  BY <1>3 DEF UnlinkAction, OffersUnlink
<1>4. CASE ClaimAction
  BY <1>4 DEF ClaimAction, OffersClaim
<1>5. CASE AcceptAction
  BY <1>5 DEF AcceptAction, OffersAccept
<1>6. CASE Download
  BY <1>6 DEF Download, PlainAction
<1>7. CASE SignOut
  BY <1>7 DEF SignOut, PlainAction
<1>8. CASE Remove
  BY <1>8 DEF Remove, PlainAction
<1>9. CASE ResendConfirmation
  BY <1>9 DEF ResendConfirmation, PlainAction
<1> QED BY <1>1, <1>2, <1>3, <1>4, <1>5, <1>6, <1>7, <1>8, <1>9

\* Whatever the visitor presses.
LEMMA VisitStep ==
    ASSUME PageInv, Visit
    PROVE  Stepped
<1>1. ASSUME NEW view \in Forms, SwitchView(view) PROVE Stepped
  BY <1>1, SwitchStep DEF Shows
<1>2. ASSUME NEW who \in Users, SignIn(who) \/ Register(who) PROVE Stepped
  BY <1>2, SubmitStep DEF Shows, SignIn, Register, Forms, Whos
<1>3. CASE RequestReset \/ ConfirmReset
  BY <1>3, SubmitStep DEF Shows, RequestReset, ConfirmReset, Forms, Whos
<1>4. ASSUME NEW id \in ActionIds, NEW path \in Paths \ {"verify"}, NEW flag \in BOOLEAN,
             Begins(id, path, flag)
      PROVE  Stepped
  BY <1>4, StartStep DEF Begins, Started
<1>5. CASE \/ \E kind \in Kinds : Toggle(kind)
           \/ LinkAction \/ UnlinkAction \/ ClaimAction \/ AcceptAction
           \/ Download \/ SignOut \/ Remove \/ ResendConfirmation
  BY <1>4, <1>5, ViewBegins
<1> QED BY <1>1, <1>2, <1>3, <1>5 DEF Visit

\* It holds when the page opens.
LEMMA PageStarts ==
    ASSUME Init
    PROVE  PageInv /\ panel = Unmounted /\ shown = {} /\ page.verification = "none"
<1> DEFINE d == Asked("load", "me", Sender(cookie, "me"), FALSE, 0)
<1>1. PICK hash \in {"none", "reset", "verify"}, u \in Users : page = FirstPage(hash, u)
  BY DEF Init
<1>2. /\ page \in Page /\ page.status = "loading" /\ (page.view = "reset_confirm" => page.reset)
      /\ page.verification = "none"
  <2> DEFINE view == IF hash = "reset" THEN "reset_confirm" ELSE "sign_in"
             h == IF hash = "reset" THEN "none" ELSE hash
             me == [who |-> Nobody, verified |-> FALSE]
             r == hash = "reset"
  <2>1. view \in Forms /\ (view = "reset_confirm" => r) /\ h \in {"none", "verify"} /\ r \in BOOLEAN
    BY DEF Forms
  <2>2. me \in [who : Users \cup {Nobody}, verified : BOOLEAN]
    OBVIOUS
  <2>3. page = [status |-> "loading", notice |-> FALSE, confirmation |-> "none",
                view |-> view, me |-> me, reset |-> r, verification |-> "none",
                registered |-> FALSE, token |-> u, hash |-> h]
    BY <1>1 DEF FirstPage
  <2> HIDE DEF view, h, me, r
  <2> QED BY <2>1, <2>2, <2>3 DEF Page
<1>3. cookie \in Cookie
  <2>1. cookie \in {NoSession} \cup [who : Users, access : BOOLEAN]
    BY DEF Init
  <2> QED BY <2>1, StartShapes DEF Cookie
<1>4. accounts \in [Users -> AccountRow]
  <2>1. ASSUME NEW v \in BOOLEAN, NEW g \in BOOLEAN, NEW k \in {0, 1}
        PROVE  WithPast(v, g, k) \in AccountRow
    <3>1. k \in 0..MaxKeys
      BY AccountAssumption
    <3>2. [NoRow.consents EXCEPT !["METER_LINK"] = g] \in [Kinds -> BOOLEAN]
      BY StartShapes DEF AccountRow
    <3> QED BY <3>1, <3>2, StartShapes DEF WithPast, AccountRow
  <2>2. accounts \in [Users -> {NoRow} \cup
          {WithPast(v, g, k) : v \in BOOLEAN, g \in BOOLEAN, k \in {0, 1}}]
    BY DEF Init
  <2> QED BY <2>1, <2>2, StartShapes
<1>5. calls = {d} /\ panel = Unmounted /\ form = FreshForm /\ clicks = 0 /\ doubt = {} /\ shown = {}
  BY DEF Init
<1>6. Sender(cookie, "me") \in Whos
  BY <1>3, SenderTyped
<1>7. /\ d.by = "load" /\ d.path = "me" /\ d.got = "waiting" /\ d.who = Sender(cookie, "me")
      /\ d.alive = TRUE
  BY DEF Asked
<1>8. d \in Call
  BY <1>6, StartShapes, AccountAssumption DEF Asked, Call, Whos
<1> HIDE DEF d
<1>9. WellMade(d)
  BY <1>7 DEF WellMade, Kinds
<1>10. Own = {}
  BY <1>5, <1>7, Sorts DEF Own
<1>11. panel.busy = {} /\ ~panel.mounted /\ panel.key = 0 /\ panel \in Panel /\ form \in Form
  BY <1>5, StartShapes
<1>12. TypeOK
  BY <1>2, <1>3, <1>4, <1>5, <1>8, <1>11, AccountAssumption DEF TypeOK
<1>13. NothingWithoutAView
  BY <1>5, <1>7, <1>11, Sorts DEF NothingWithoutAView
<1>14. HandledOnce
  BY <1>10, <1>11 DEF HandledOnce
<1> QED BY <1>2, <1>5, <1>9, <1>11, <1>12, <1>13, <1>14 DEF PageInv, CallsAreMade

\* A step that changes nothing.
LEMMA PageStutters ==
    ASSUME PageInv, UNCHANGED vars
    PROVE  PageInv'
BY DEF PageInv, vars, TypeOK, CallsAreMade, WellMade, NothingWithoutAView, HandledOnce, Own

\* Every step keeps it.
LEMMA PageSteps ==
    ASSUME PageInv, [Next]_vars
    PROVE  PageInv'
BY ServeStep, ReturnStep, VisitStep, PageStutters DEF Next, Answer, Stepped

\* Types; the account is on the screen exactly while a view of it is mounted,
\* the form that needs a token has one, every request under way is one its
\* handler makes, and a view that has gone waits for nothing.
THEOREM PageTyped == Spec => []PageInv
<1>1. Init => PageInv
  BY PageStarts
<1>2. PageInv /\ [Next]_vars => PageInv'
  BY PageSteps
<1> QED BY <1>1, <1>2, PTL DEF Spec

\* Types alone.
THEOREM Typed == Spec => []TypeOK
<1>1. PageInv => TypeOK
  BY DEF PageInv
<1> QED BY <1>1, PageTyped, PTL

\* The buttons that are disabled and the handlers of the view that are under way
\* are as many, each button for one handler.
LEMMA BusyCounted ==
    ASSUME PageInv
    PROVE  BusyIsUnderWay
<1>1. panel.busy = {c.by : c \in Own}
  BY DEF PageInv, HandledOnce
<1>2. IsFiniteSet(ActionIds)
  <2>1. ActionIds = {"METER_LINK", "LEAD_GENERATION", "meter_link", "meter_unlink",
                     "consumption_accept", "advice_claim", "export", "logout", "delete", "verify"}
    BY DEF ActionIds, Kinds, OfMeter, Plain
  <2>2. IsFiniteSet({"METER_LINK"})
    BY FS_Singleton
  <2>3. ASSUME NEW S, IsFiniteSet(S), NEW x PROVE IsFiniteSet(S \cup {x})
    BY <2>3, FS_AddElement
  <2>4. IsFiniteSet({"METER_LINK"} \cup {"LEAD_GENERATION"} \cup {"meter_link"} \cup {"meter_unlink"})
    BY <2>2, <2>3
  <2>5. IsFiniteSet({"METER_LINK"} \cup {"LEAD_GENERATION"} \cup {"meter_link"} \cup {"meter_unlink"}
                    \cup {"consumption_accept"} \cup {"advice_claim"} \cup {"export"})
    BY <2>3, <2>4
  <2>6. IsFiniteSet({"METER_LINK"} \cup {"LEAD_GENERATION"} \cup {"meter_link"} \cup {"meter_unlink"}
                    \cup {"consumption_accept"} \cup {"advice_claim"} \cup {"export"}
                    \cup {"logout"} \cup {"delete"} \cup {"verify"})
    BY <2>3, <2>5
  <2> DEFINE all == {"METER_LINK"} \cup {"LEAD_GENERATION"} \cup {"meter_link"} \cup {"meter_unlink"}
                    \cup {"consumption_accept"} \cup {"advice_claim"} \cup {"export"}
                    \cup {"logout"} \cup {"delete"} \cup {"verify"}
  <2>7. ActionIds = all
    BY <2>1
  <2> QED BY <2>6, <2>7
<1>3. panel.busy \subseteq ActionIds
  BY <1>1 DEF Own
<1>4. IsFiniteSet(panel.busy)
  BY <1>2, <1>3, FS_Subset
<1> DEFINE f == [i \in panel.busy |-> CHOOSE c \in Own : c.by = i]
<1>5. \A i \in panel.busy : f[i] \in Own /\ f[i].by = i
  BY <1>1
<1>6. \A c \in Own : c = f[c.by] /\ c.by \in panel.busy
  BY <1>1, <1>5 DEF PageInv, HandledOnce
<1>7. f \in Bijection(panel.busy, Own)
  <2>1. f \in [panel.busy -> Own]
    BY <1>5
  <2>2. \A i, j \in panel.busy : f[i] = f[j] => i = j
    BY <1>5
  <2>3. \A c \in Own : \E i \in panel.busy : f[i] = c
    BY <1>6
  <2> HIDE DEF f
  <2> QED BY <2>1, <2>2, <2>3, Fun_IsBij
<1> HIDE DEF f
<1>8. Cardinality(Own) = Cardinality(panel.busy)
  BY <1>4, <1>7, Fun_ExistsBij, FS_Bijection
<1> QED BY <1>1, <1>8 DEF BusyIsUnderWay

\* What is disabled is what is under way, each once.
THEOREM Busy == Spec => []BusyIsUnderWay
<1>1. PageInv => BusyIsUnderWay
  BY BusyCounted
<1> QED BY <1>1, PageTyped, PTL

-----------------------------------------------------------------------------
(* The load verifies its token once, and what it says of it is so.            *)

Loads(S) == {d \in S : d.by = "load"}

\* No view and no form that goes touches the load.
LEMMA LoadsOrphaned ==
    ASSUME NEW S, S \subseteq Call, NEW bys, "load" \notin bys
    PROVE  Loads(Orphaned(S, bys)) \subseteq Loads(S)
<1> SUFFICES ASSUME NEW d \in Orphaned(S, bys), d.by = "load" PROVE d \in S
  BY DEF Loads
<1>1. PICK c \in S : d = IF c.by \in bys THEN [c EXCEPT !.alive = FALSE] ELSE c
  BY DEF Orphaned
<1>2. [c EXCEPT !.alive = FALSE].by = c.by
  BY AliveOnly
<1> QED BY <1>1, <1>2

\* Nor does a view that comes.
LEMMA LoadsShown ==
    ASSUME PageInv, NEW S, S \subseteq Call, NEW c, c.who \in Users, c.seen \in AccountRow,
           NEW p \in Page, ShowAccount(c, S, p) \/ ShowForm(S, p)
    PROVE  /\ Loads(calls') \subseteq Loads(S)
           /\ page'.token = p.token /\ page'.verification = p.verification
<1>1. /\ Loads(Orphaned(S, OfForm)) \subseteq Loads(S)
      /\ Loads(Orphaned(S, OfPanel \cup OfForm)) \subseteq Loads(S)
  BY Sorts, LoadsOrphaned
<1>2. /\ \A d \in PanelReads(cookie) : d.by \in Reads
      /\ \A d \in FormReads(p.view) : d.by = "form_texts"
  BY MadeReads
<1>3. Loads(PanelReads(cookie)) = {} /\ Loads(FormReads(p.view)) = {}
  BY <1>2, Sorts DEF Loads
<1>4. CASE ShowAccount(c, S, p)
  <2>1. page'.token = p.token /\ page'.verification = p.verification
    BY <1>4, ShownPage
  <2>2. calls' = S \/ calls' = Orphaned(S, OfForm) \cup PanelReads(cookie)
    BY <1>4 DEF ShowAccount
  <2> QED BY <1>1, <1>3, <2>1, <2>2 DEF Loads
<1>5. CASE ShowForm(S, p)
  <2>1. page' = [p EXCEPT !.status = "signed_out"]
    BY <1>5 DEF ShowForm
  <2>2. page'.token = p.token /\ page'.verification = p.verification
    BY <2>1 DEF Page
  <2>3. calls' = S \/ calls' = Orphaned(S, OfPanel \cup OfForm) \cup FormReads(p.view)
    BY <1>5 DEF ShowForm
  <2> QED BY <1>1, <1>3, <2>2, <2>3 DEF Loads
<1> QED BY <1>4, <1>5

\* A step that is not the load's.
BesideLoad ==
    /\ Loads(calls') \subseteq Loads(calls) /\ accounts' = accounts
    /\ page'.token = page.token /\ page'.verification = page.verification

\* Answers to a form leave the load alone.
LEMMA FormsBesideLoad ==
    ASSUME PageInv, NEW c \in calls, NEW got \in Heard(c),
           SignInReturns(c, got) \/ ResetReturns(c, got) \/ FormTextsReturn(c, got)
    PROVE  BesideLoad
<1>1. page \in Page /\ calls \subseteq Call /\ Rest(c) \subseteq Call
  BY DEF PageInv, TypeOK, Rest
<1>2. Loads(Rest(c)) \subseteq Loads(calls)
  BY DEF Loads, Rest
<1>3. CASE SignInReturns(c, got) /\ got = "ok" /\ c.path = "me"
  <2> DEFINE p == [page EXCEPT !.registered = page.registered \/ c.by = "register"]
  <2>1. ShowAccount(c, Rest(c), p) /\ accounts' = accounts
    BY <1>3 DEF SignInReturns
  <2>2. p \in Page /\ p.token = page.token /\ p.verification = page.verification
    BY <1>1 DEF Page
  <2> HIDE DEF p
  <2>3. c.who \in Users /\ c.seen \in AccountRow
    BY <1>3, HeardOfUser
  <2> QED BY <1>1, <1>2, <2>1, <2>2, <2>3, LoadsShown DEF BesideLoad
<1>4. CASE SignInReturns(c, got) /\ got = "ok" /\ c.path # "me"
  <2> DEFINE d == Then(c, "me")
  <2>1. calls' = Rest(c) \cup {d} /\ UNCHANGED <<page, accounts>>
    BY <1>4 DEF SignInReturns
  <2>2. c.by # "load"
    BY <1>4 DEF SignInReturns
  <2>3. d.by = c.by
    BY DEF Then, Asked
  <2> HIDE DEF d
  <2> QED BY <1>2, <2>1, <2>2, <2>3 DEF BesideLoad, Loads
<1>5. CASE SignInReturns(c, got) /\ got # "ok"
  <2>1. calls' = Rest(c) /\ UNCHANGED <<page, accounts>>
    BY <1>5 DEF SignInReturns
  <2> QED BY <1>2, <2>1 DEF BesideLoad
<1>6. CASE ResetReturns(c, got)
  <2>1. calls' = Rest(c) /\ accounts' = accounts
    BY <1>6 DEF ResetReturns
  <2>2. \/ page' = page
        \/ page' = [page EXCEPT !.reset = FALSE, !.confirmation = "changed", !.view = "sign_in"]
    BY <1>6 DEF ResetReturns
  <2>3. page'.token = page.token /\ page'.verification = page.verification
    BY <1>1, <2>2 DEF Page
  <2> QED BY <1>2, <2>1, <2>3 DEF BesideLoad
<1>7. CASE FormTextsReturn(c, got)
  <2>1. calls' = Rest(c) /\ UNCHANGED <<page, accounts>>
    BY <1>7 DEF FormTextsReturn
  <2> QED BY <1>2, <2>1 DEF BesideLoad
<1> QED BY <1>3, <1>4, <1>5, <1>6, <1>7

\* Answers to the view do.
LEMMA ViewBesideLoad ==
    ASSUME PageInv, NEW c \in calls, NEW got \in Heard(c),
           ActionReturns(c, got) \/ SignOutReturns(c, got) \/ ReadReturns(c, got)
    PROVE  BesideLoad
<1>1. page \in Page /\ calls \subseteq Call /\ Rest(c) \subseteq Call /\ c \in Call
  BY DEF PageInv, TypeOK, Rest
<1>2. Loads(Rest(c)) \subseteq Loads(calls) /\ Good(Rest(c))
  BY DEF Loads, Rest, Good, Old
<1>3. \A status : Loads(WithCheck(Rest(c), status)) \subseteq Loads(Rest(c))
  BY <1>2, CheckKeeps DEF Loads
<1>4. CASE ReadReturns(c, got)
  <2>1. UNCHANGED <<page, accounts>>
    BY <1>4 DEF ReadReturns
  <2>2. \/ calls' = Rest(c)
        \/ calls' = WithCheck(Rest(c), IF got = "ok" THEN StatusOf(c.seen) ELSE "unknown")
    BY <1>4 DEF ReadReturns
  <2> QED BY <1>2, <1>3, <2>1, <2>2 DEF BesideLoad
<1>5. CASE ActionReturns(c, got)
  <2>1. c.by \in ActionIds /\ UNCHANGED <<page, accounts>>
    BY <1>5, ActionParts
  <2>2. CASE calls' = WithCheck(Rest(c), StatusOf(c.seen))
    BY <1>2, <1>3, <2>1, <2>2 DEF BesideLoad
  <2>3. CASE calls' = Rest(c) \cup {[d EXCEPT !.alive = c.alive] :
                                      d \in IF got = "ok" THEN Follows(c) ELSE {}}
    <3> SUFFICES ASSUME NEW e \in calls', e.by = "load" PROVE e \in Rest(c)
      BY <1>2, <2>1 DEF BesideLoad, Loads
    <3>1. ASSUME NEW d \in Follows(c), e = [d EXCEPT !.alive = c.alive] PROVE FALSE
      <4>1. d.by = c.by /\ d \in Call
        BY <2>1, FollowsOne DEF Made
      <4>2. e.by = c.by
        BY <3>1, <4>1 DEF Call
      <4> QED BY <2>1, <4>2, Sorts
    <3> QED BY <2>3, <3>1
  <2> QED BY <1>5, <2>2, <2>3, ActionParts
<1>6. CASE SignOutReturns(c, got) /\ got = "ok"
  <2> DEFINE p == [page EXCEPT !.view = "sign_in", !.registered = FALSE, !.notice = FALSE,
                             !.confirmation = IF c.by = "delete" THEN "deleted" ELSE "none"]
  <2>1. ShowForm(Rest(c), p) /\ accounts' = accounts
    BY <1>6 DEF SignOutReturns
  <2>2. p \in Page /\ p.token = page.token /\ p.verification = page.verification
    BY <1>1 DEF Page, Forms
  <2> HIDE DEF p
  <2>3. PICK e : e = [who |-> page.token, seen |-> NoRow]
    OBVIOUS
  <2>4. e.who \in Users /\ e.seen \in AccountRow
    BY <1>1, <2>3, StartShapes DEF Page
  <2> QED BY <1>1, <1>2, <2>1, <2>2, <2>4, LoadsShown DEF BesideLoad
<1>7. CASE SignOutReturns(c, got) /\ got # "ok"
  <2>1. calls' = Rest(c) /\ UNCHANGED <<page, accounts>>
    BY <1>7 DEF SignOutReturns
  <2> QED BY <1>2, <2>1 DEF BesideLoad
<1> QED BY <1>4, <1>5, <1>6, <1>7

\* So does what the visitor presses.
LEMMA VisitBesideLoad ==
    ASSUME PageInv, Visit
    PROVE  BesideLoad
<1>1. page \in Page /\ calls \subseteq Call
  BY DEF PageInv, TypeOK
<1>2. ASSUME NEW view \in Forms, SwitchView(view) PROVE BesideLoad
  <2>1. /\ page' = [page EXCEPT !.view = view, !.confirmation = "none",
                                !.reset = page.reset /\ page.view # "reset_confirm"]
        /\ calls' = Orphaned(calls, OfForm) \cup FormReads(view) /\ accounts' = accounts
    BY <1>2 DEF SwitchView
  <2>2. page'.token = page.token /\ page'.verification = page.verification
    BY <1>1, <2>1 DEF Page
  <2>3. Loads(Orphaned(calls, OfForm)) \subseteq Loads(calls)
    BY <1>1, Sorts, LoadsOrphaned
  <2>4. \A d \in FormReads(view) : d.by = "form_texts"
    BY MadeReads
  <2> QED BY <2>1, <2>2, <2>3, <2>4 DEF BesideLoad, Loads
<1>3. ASSUME NEW by, by # "load", NEW path, NEW who, NEW flag,
             calls' = calls \cup {Asked(by, path, who, flag, clicks)},
             UNCHANGED <<accounts, page>>
      PROVE  BesideLoad
  <2>1. Asked(by, path, who, flag, clicks).by = by
    BY DEF Asked
  <2> QED BY <1>3, <2>1 DEF BesideLoad, Loads
<1>4. ASSUME NEW view \in Forms, NEW path, NEW who, Submit(view, path, who) PROVE BesideLoad
  BY <1>3, <1>4 DEF Submit, Forms
<1>5. ASSUME NEW id \in ActionIds, NEW path, NEW flag, Start(id, path, flag) PROVE BesideLoad
  BY <1>3, <1>5, Sorts DEF Start
<1>6. CASE \/ \E kind \in Kinds : Toggle(kind)
           \/ LinkAction \/ UnlinkAction \/ ClaimAction \/ AcceptAction
           \/ Download \/ SignOut \/ Remove \/ ResendConfirmation
  BY <1>5, <1>6, ViewBegins DEF Begins
<1>7. CASE RequestReset \/ ConfirmReset \/ \E who \in Users : SignIn(who) \/ Register(who)
  BY <1>4, <1>7 DEF RequestReset, ConfirmReset, SignIn, Register, Forms
<1> QED BY <1>2, <1>6, <1>7 DEF Visit

\* The load's steps are its own, whatever else is under way.
LEMMA LoadAlone ==
    ASSUME PageInv, LoadInv, NEW c \in calls, c.by = "load"
    PROVE  /\ Loads(Rest(c)) = {}
           /\ c.path # "me_after" => page.verification = "none"
BY DEF LoadInv, Loads, Rest, PageInv, TypeOK

\* A load that goes on with one request at most, on the same sentence.
LEMMA LoadGoesOn ==
    ASSUME PageInv', accounts' = accounts, LoadInv, NEW d, d.got = "waiting",
           Loads(calls') \subseteq {d}, page'.token = page.token,
           \/ page'.verification = "none"
           \/ page'.verification = page.verification /\ Loads(calls') = {}
           \/ /\ page'.verification = "confirmed" => WasConfirmed(page.token)
              /\ d.path = "me_after"
    PROVE  LoadInv'
<1>1. ASSUME NEW c \in calls', c.by = "load" PROVE c = d /\ Loads(calls') # {}
  BY <1>1 DEF Loads
<1>2. ASSUME NEW c \in calls', c.path = "verify" PROVE c = d
  BY <1>1, <1>2 DEF PageInv, CallsAreMade, WellMade
<1>3. page'.verification = "confirmed" => WasConfirmed(page.token)'
  BY DEF LoadInv, WasConfirmed
<1> QED BY <1>1, <1>2, <1>3 DEF LoadInv

\* When the step is not the load's.
LEMMA LoadBeside ==
    ASSUME PageInv', LoadInv, BesideLoad
    PROVE  LoadInv'
<1>1. ASSUME NEW c \in calls', c.by = "load" PROVE c \in calls
  BY <1>1 DEF BesideLoad, Loads
<1>2. ASSUME NEW c \in calls', c.path = "verify" PROVE c \in calls
  BY <1>1, <1>2 DEF PageInv, CallsAreMade, WellMade
<1> QED BY <1>1, <1>2 DEF LoadInv, BesideLoad, WasConfirmed

\* An account that was confirmed, or went, stays that.
LEMMA ConfirmedStays ==
    ASSUME PageInv, NEW c \in calls, Serve(c), NEW u \in Users, WasConfirmed(u)
    PROVE  WasConfirmed(u)'
<1>1. CASE accounts' = accounts
  BY <1>1 DEF WasConfirmed
<1>2. ASSUME c.who = u, Permitted(c), NEW a \in After(c), accounts' = [accounts EXCEPT ![u] = a]
      PROVE  WasConfirmed(u)'
  <2>1. /\ accounts \in [Users -> AccountRow] /\ c \in Call /\ WellMade(c)
        /\ RowOf(c) = accounts[u]
    BY <1>2 DEF PageInv, TypeOK, CallsAreMade, RowOf
  <2>2. RowChange(c, accounts[u], a)
    BY <1>2, <2>1, ServedRow DEF WellMade
  <2>3. accounts'[u] = a
    BY <1>2, <2>1
  <2>4. accounts[u].verified
    BY <1>2, <2>1 DEF WasConfirmed, Permitted
  <2> QED BY <2>2, <2>3, <2>4 DEF RowChange, WasConfirmed
<1>3. ASSUME c.who \in Users, c.who # u, NEW a, accounts' = [accounts EXCEPT ![c.who] = a]
      PROVE  WasConfirmed(u)'
  BY <1>3 DEF WasConfirmed, PageInv, TypeOK
<1> QED BY <1>1, <1>2, <1>3 DEF Serve

\* What a served request changes: a session was found under it, or not.
Served(c, got, row) ==
    /\ calls' = (calls \ {c}) \cup {[c EXCEPT !.got = got, !.seen = row]}
    /\ c.got = "waiting" /\ UNCHANGED <<cookie, page, panel, form, clicks, shown>>
    /\ got = "unauthorised" => accounts' = accounts /\ doubt' = doubt
    /\ got = "ok" =>
          /\ Permitted(c) /\ RowOf(c) \in AccountRow /\ RowChange(c, RowOf(c), row)
          /\ accounts' = IF c.who \in Users THEN [accounts EXCEPT ![c.who] = row] ELSE accounts
          /\ doubt' = IF c.path # "consent" THEN doubt
                      ELSE IF c.alive /\ Snapshots = {} THEN doubt \ {c.by}
                      ELSE doubt \cup {c.by}

\* Every request that is served is served so.
LEMMA ServeParts ==
    ASSUME PageInv, NEW c \in calls, Serve(c)
    PROVE  \E got \in {"ok", "unauthorised"}, row \in AccountRow : Served(c, got, row)
<1>1. c \in Call /\ (c.path = "consent" => c.by \in Kinds) /\ accounts \in [Users -> AccountRow]
  BY DEF PageInv, TypeOK, CallsAreMade, WellMade
<1>2. c.got = "waiting" /\ UNCHANGED <<cookie, page, panel, form, clicks, shown>>
  BY DEF Serve
<1> DEFINE Ok(a) ==
              /\ accounts' = IF c.who \in Users THEN [accounts EXCEPT ![c.who] = a] ELSE accounts
              /\ calls' = Answered(c, "ok", a)
              /\ doubt' = IF c.path # "consent" THEN doubt
                          ELSE IF c.alive /\ Snapshots = {} THEN doubt \ {c.by}
                          ELSE doubt \cup {c.by}
<1>3. CASE Permitted(c) /\ \E a \in After(c) : Ok(a)
  <2>1. PICK a \in After(c) : Ok(a)
    BY <1>3
  <2>2. RowOf(c) \in AccountRow /\ RowChange(c, RowOf(c), a)
    BY <1>1, <1>3, ServedRow
  <2>3. a \in AccountRow
    BY <2>2 DEF RowChange
  <2>4. calls' = (calls \ {c}) \cup {[c EXCEPT !.got = "ok", !.seen = a]}
    BY <2>1 DEF Answered
  <2> QED BY <1>2, <1>3, <2>1, <2>2, <2>3, <2>4 DEF Served
<1>4. CASE calls' = Answered(c, "unauthorised", NoRow) /\ UNCHANGED <<accounts, doubt>>
  <2>1. calls' = (calls \ {c}) \cup {[c EXCEPT !.got = "unauthorised", !.seen = NoRow]}
    BY <1>4 DEF Answered
  <2> QED BY <1>2, <1>4, <2>1, StartShapes DEF Served
<1> QED BY <1>3, <1>4 DEF Serve

\* The API confirms an address before it says so.
LEMMA ServeLoad ==
    ASSUME PageInv, LoadInv, NEW c \in calls, Serve(c)
    PROVE  LoadInv'
<1>0. PICK got \in {"ok", "unauthorised"}, row \in AccountRow : Served(c, got, row)
  BY ServeParts
<1>1. /\ calls' = (calls \ {c}) \cup {[c EXCEPT !.got = got, !.seen = row]}
      /\ page' = page
      /\ got = "ok" =>
            /\ RowOf(c) \in AccountRow /\ RowChange(c, RowOf(c), row)
            /\ accounts' = IF c.who \in Users THEN [accounts EXCEPT ![c.who] = row]
                           ELSE accounts
  BY <1>0 DEF Served
<1> DEFINE d == [c EXCEPT !.got = got, !.seen = row]
<1>2. c \in Call /\ WellMade(c) /\ page.token \in Users /\ accounts \in [Users -> AccountRow]
  BY DEF PageInv, TypeOK, CallsAreMade, Page
<1>3. d.by = c.by /\ d.path = c.path /\ d.got = got
  BY <1>2 DEF Call
<1> HIDE DEF d
<1>4. WasConfirmed(page.token) => WasConfirmed(page.token)'
  <2>1. WasConfirmed(page.token) => \A u \in Users : u = page.token => WasConfirmed(u)'
    BY <1>2, ConfirmedStays
  <2> QED BY <1>1, <1>2, <2>1 DEF WasConfirmed
<1>5. ASSUME got = "ok", c.path = "verify" PROVE WasConfirmed(page.token)'
  <2>1. c.who = page.token
    BY <1>2, <1>5 DEF WellMade
  <2>2. accounts'[page.token] = row
    BY <1>1, <1>2, <1>5, <2>1
  <2> QED BY <1>1, <1>5, <2>2 DEF RowChange, WasConfirmed
<1>6. calls' = (calls \ {c}) \cup {d} /\ page' = page
  BY <1>1 DEF d
<1>7. \A e \in calls' : \/ e \in calls /\ e # c
                        \/ e = d
  BY <1>6
<1>8. ASSUME NEW x \in calls', NEW y \in calls', x.by = "load", y.by = "load" PROVE x = y
  BY <1>3, <1>7, <1>8 DEF LoadInv
<1>9. ASSUME NEW x \in calls', x.by = "load", page.verification # "none" PROVE x.path = "me_after"
  BY <1>3, <1>7, <1>9 DEF LoadInv
<1>10. ASSUME NEW x \in calls', x.path = "verify", x.got = "ok" PROVE WasConfirmed(page.token)'
  BY <1>3, <1>4, <1>5, <1>7, <1>10 DEF LoadInv
<1>11. page.verification = "confirmed" => WasConfirmed(page.token)'
  BY <1>4 DEF LoadInv
<1> QED BY <1>6, <1>8, <1>9, <1>10, <1>11 DEF LoadInv, WasConfirmed

\* What the page says of a confirmation is never taken back.
Unsaid ==
    /\ page'.token = page.token
    /\ page.verification = "confirmed" => page'.verification = "confirmed"

\* The load asks once more, verifies, or ends.
LEMMA LoadSettlesOnce ==
    ASSUME PageInv, LoadInv, NEW c \in calls, NEW got \in Heard(c), LoadSettles(c, got)
    PROVE  LoadInv' /\ Unsaid
<1>1. /\ c.by = "load" /\ c.path \in {"me", "refresh", "me_again"} /\ accounts' = accounts
  BY DEF LoadSettles
<1>2. page.verification = "none" /\ Loads(Rest(c)) = {}
  BY <1>1, LoadAlone
<1>3. PageInv'
  BY LoadStep DEF Shows, Stepped
<1>4. page \in Page /\ calls \subseteq Call /\ Rest(c) \subseteq Call
  BY DEF PageInv, TypeOK, Rest
<1>5. c.by \notin OfPanel
  BY <1>1, NotOfView
<1>6. ASSUME NEW path, calls' = Rest(c) \cup {Then(c, path)}, page' = page
      PROVE  LoadInv' /\ Unsaid
  <2> DEFINE d == Then(c, path)
  <2>1. d.got = "waiting"
    BY DEF Then, Asked
  <2>2. calls' = Rest(c) \cup {d}
    BY <1>6
  <2> HIDE DEF d
  <2>3. Loads(calls') \subseteq {d}
    BY <1>2, <2>2 DEF Loads
  <2> QED BY <1>1, <1>2, <1>3, <1>6, <2>1, <2>3, LoadGoesOn DEF Unsaid
<1>7. ASSUME NEW b \in BOOLEAN, NEW p \in Page, p.token = page.token,
             p.verification = page.verification, NEW e, e.who \in Users, e.seen \in AccountRow,
             \/ ShowAccount(e, ThenVerify(Rest(c), c, b), p)
             \/ ShowForm(ThenVerify(Rest(c), c, b), p)
      PROVE  LoadInv' /\ Unsaid
  <2> DEFINE S == ThenVerify(Rest(c), c, b)
             w == Asked("load", "verify", page.token, b, c.nr)
  <2>1. Keeps(S)
    BY <1>5, VerifyMade
  <2>2. S \subseteq Call
    BY <2>1, OldIsCall DEF Keeps, Good, Made, PageInv, TypeOK
  <2>3. S \subseteq Rest(c) \cup {w} /\ w.got = "waiting"
    BY DEF ThenVerify, Asked
  <2>4. ShowAccount(e, S, p) \/ ShowForm(S, p)
    BY <1>7
  <2> HIDE DEF S, w
  <2>5. /\ Loads(calls') \subseteq Loads(S)
        /\ page'.token = page.token /\ page'.verification = page.verification
    BY <1>7, <2>2, <2>4, LoadsShown
  <2>6. Loads(calls') \subseteq {w}
    BY <1>2, <2>3, <2>5 DEF Loads
  <2> QED BY <1>1, <1>2, <1>3, <2>3, <2>5, <2>6, LoadGoesOn DEF Unsaid
<1>8. CASE c.path = "me" /\ got = "unauthorised"
  BY <1>6, <1>8 DEF LoadSettles
<1>9. CASE c.path = "refresh" /\ got = "ok"
  BY <1>6, <1>9 DEF LoadSettles
<1>10. CASE c.path # "refresh" /\ got = "ok"
  <2>1. c.who \in Users /\ c.seen \in AccountRow
    BY <1>1, <1>10, HeardOfUser
  <2>2. ShowAccount(c, ThenVerify(Rest(c), c, TRUE), page)
    BY <1>10 DEF LoadSettles
  <2> QED BY <1>4, <1>7, <2>1, <2>2
<1>11. CASE got = "failed" \/ (got = "unauthorised" /\ c.path # "me")
  <2> DEFINE p == [page EXCEPT !.notice = c.path # "refresh" /\ got = "failed"]
             e == [who |-> page.token, seen |-> NoRow]
  <2>1. ShowForm(ThenVerify(Rest(c), c, FALSE), p)
    BY <1>11 DEF LoadSettles
  <2>2. p \in Page /\ p.token = page.token /\ p.verification = page.verification
    BY <1>4 DEF Page
  <2>3. e.who \in Users /\ e.seen \in AccountRow
    BY <1>4, StartShapes DEF Page
  <2> HIDE DEF p, e
  <2> QED BY <1>7, <2>1, <2>2, <2>3
<1> QED BY <1>1, <1>8, <1>9, <1>10, <1>11 DEF LoadSettles

\* It says of the token what it heard, and asks for the account.
LEMMA VerifiesOnce ==
    ASSUME PageInv, LoadInv, NEW c \in calls, NEW got \in Heard(c), VerifyReturns(c, got)
    PROVE  LoadInv' /\ Unsaid
<1>1. /\ c.by = "load" /\ c.path = "verify" /\ accounts' = accounts
      /\ page' = [page EXCEPT !.hash = "none",
                              !.verification = IF got = "ok" THEN "confirmed" ELSE "failed"]
      /\ calls' = IF got = "ok" /\ c.flag THEN Rest(c) \cup {Then(c, "me_after")} ELSE Rest(c)
  BY DEF VerifyReturns
<1>2. page.verification = "none" /\ Loads(Rest(c)) = {}
  BY <1>1, LoadAlone
<1>3. PageInv'
  BY VerifyStep DEF Shows, Stepped
<1>4. /\ page'.token = page.token
      /\ page'.verification = IF got = "ok" THEN "confirmed" ELSE "failed"
  BY <1>1 DEF PageInv, TypeOK, Page
<1> DEFINE d == Then(c, "me_after")
<1>5. d.got = "waiting" /\ d.path = "me_after"
  BY DEF Then, Asked
<1>6. calls' \subseteq Rest(c) \cup {d}
  BY <1>1
<1> HIDE DEF d
<1>7. Loads(calls') \subseteq {d}
  BY <1>2, <1>6 DEF Loads
<1>8. page'.verification = "confirmed" => WasConfirmed(page.token)
  <2>1. ASSUME got = "ok" PROVE WasConfirmed(page.token)
    BY <1>1, <2>1, HeardOfUser DEF LoadInv
  <2> QED BY <1>4, <2>1
<1> QED BY <1>1, <1>2, <1>3, <1>4, <1>5, <1>7, <1>8, LoadGoesOn DEF Unsaid

\* It ends.
LEMMA MeAfterOnce ==
    ASSUME PageInv, LoadInv, NEW c \in calls, NEW got \in Heard(c), MeAfterReturns(c, got)
    PROVE  LoadInv' /\ Unsaid
<1>1. c.by = "load" /\ c.path = "me_after" /\ accounts' = accounts
  BY DEF MeAfterReturns
<1>2. Loads(Rest(c)) = {}
  BY <1>1, LoadAlone
<1>3. PageInv'
  BY MeAfterStep DEF Shows, Stepped
<1>4. page \in Page /\ Rest(c) \subseteq Call
  BY DEF PageInv, TypeOK, Rest
<1>5. ASSUME NEW p \in Page, p.token = page.token,
             p.verification = page.verification, NEW e, e.who \in Users, e.seen \in AccountRow,
             ShowAccount(e, Rest(c), p) \/ ShowForm(Rest(c), p)
      PROVE  LoadInv' /\ Unsaid
  <2>1. /\ Loads(calls') = {} /\ page'.token = page.token
        /\ page'.verification = page.verification
    BY <1>2, <1>4, <1>5, LoadsShown
  <2> DEFINE d == Then(c, "me_after")
  <2>2. d.got = "waiting"
    BY DEF Then, Asked
  <2> HIDE DEF d
  <2> QED BY <1>1, <1>3, <2>1, <2>2, LoadGoesOn DEF Unsaid
<1>6. CASE got = "ok"
  <2>1. c.who \in Users /\ c.seen \in AccountRow
    BY <1>1, <1>6, HeardOfUser
  <2>2. ShowAccount(c, Rest(c), page)
    BY <1>6 DEF MeAfterReturns
  <2> QED BY <1>4, <1>5, <2>1, <2>2
<1>7. CASE got # "ok"
  <2> DEFINE p == [page EXCEPT !.notice = TRUE]
             e == [who |-> page.token, seen |-> NoRow]
  <2>1. ShowForm(Rest(c), p)
    BY <1>7 DEF MeAfterReturns
  <2>2. p \in Page /\ p.token = page.token /\ p.verification = page.verification
    BY <1>4 DEF Page
  <2>3. e.who \in Users /\ e.seen \in AccountRow
    BY <1>4, StartShapes DEF Page
  <2> HIDE DEF p, e
  <2> QED BY <1>5, <2>1, <2>2, <2>3
<1> QED BY <1>6, <1>7

\* Every step keeps it, and what was said stands.
LEMMA LoadSteps ==
    ASSUME PageInv, LoadInv, [Next]_vars
    PROVE  LoadInv' /\ Unsaid
<1>1. PageInv'
  BY PageSteps
<1>2. ASSUME BesideLoad PROVE LoadInv' /\ Unsaid
  BY <1>1, <1>2, LoadBeside DEF BesideLoad, Unsaid
<1>3. CASE Answer
  <2>1. PICK c \in calls : Serve(c)
    BY <1>3 DEF Answer
  <2>2. page' = page
    BY <2>1 DEF Serve
  <2> QED BY <2>1, <2>2, ServeLoad DEF Unsaid
<1>4. CASE Return
  <2>1. PICK c \in calls : \E got \in Heard(c) :
        \/ LoadSettles(c, got)   \/ VerifyReturns(c, got) \/ MeAfterReturns(c, got)
        \/ SignInReturns(c, got) \/ ResetReturns(c, got)  \/ FormTextsReturn(c, got)
        \/ ActionReturns(c, got) \/ SignOutReturns(c, got) \/ ReadReturns(c, got)
    BY <1>4 DEF Return
  <2>2. PICK got \in Heard(c) :
        \/ LoadSettles(c, got)   \/ VerifyReturns(c, got) \/ MeAfterReturns(c, got)
        \/ SignInReturns(c, got) \/ ResetReturns(c, got)  \/ FormTextsReturn(c, got)
        \/ ActionReturns(c, got) \/ SignOutReturns(c, got) \/ ReadReturns(c, got)
    BY <2>1
  <2> QED BY <1>2, <2>2, LoadSettlesOnce, VerifiesOnce, MeAfterOnce, FormsBesideLoad, ViewBesideLoad
<1>5. CASE Visit
  BY <1>2, <1>5, VisitBesideLoad
<1>6. CASE UNCHANGED vars
  BY <1>2, <1>6 DEF vars, BesideLoad, Loads
<1> QED BY <1>3, <1>4, <1>5, <1>6 DEF Next

\* It holds when the page opens.
LEMMA LoadStarts ==
    ASSUME Init
    PROVE  LoadInv
<1>1. calls = {Asked("load", "me", Sender(cookie, "me"), FALSE, 0)}
  BY DEF Init
<1>2. Asked("load", "me", Sender(cookie, "me"), FALSE, 0).path = "me"
  BY DEF Asked
<1> QED BY <1>1, <1>2, PageStarts DEF LoadInv

\* "Uw e-mailadres is bevestigd" is said of an address that is confirmed, whoever
\* uses the tab and whatever the visitor presses while the load is under way.
THEOREM Confirmed == Spec => ConfirmedIsTrue
<1>1. Init => PageInv /\ LoadInv
  BY PageStarts, LoadStarts
<1>2. PageInv /\ LoadInv /\ [Next]_vars => PageInv' /\ LoadInv'
  BY PageSteps, LoadSteps
<1>3. PageInv /\ LoadInv /\ [Next]_vars =>
        [/\ page.verification = "confirmed" => page'.verification = "confirmed"
         /\ page'.verification = "confirmed" =>
               accounts'[page.token].verified \/ accounts'[page.token].made = "gone"]_vars
  <2> SUFFICES ASSUME PageInv, LoadInv, [Next]_vars
               PROVE  /\ page.verification = "confirmed" => page'.verification = "confirmed"
                      /\ page'.verification = "confirmed" =>
                            accounts'[page.token].verified \/ accounts'[page.token].made = "gone"
    OBVIOUS
  <2>1. LoadInv' /\ Unsaid
    BY LoadSteps
  <2> QED BY <2>1 DEF LoadInv, Unsaid, WasConfirmed
<1> QED BY <1>1, <1>2, <1>3, PTL DEF Spec, ConfirmedIsTrue

-----------------------------------------------------------------------------
(* One person uses the tab: a key that was shown is not replaced from it.     *)

\* What a step is, from the view's side.
LEMMA StepKinds ==
    ASSUME PageInv, Next
    PROVE  \/ \E c \in calls : Serve(c)
           \/ Shows
           \/ \E id \in ActionIds, path \in Paths, flag \in BOOLEAN :
                 Begins(id, path, flag) /\ Started(id, path)
           \/ \E c \in calls : \E got \in Heard(c) : ActionReturns(c, got)
           \/ \E c \in calls : SignOutFails(c)
           \/ \E c \in calls : \E got \in Heard(c) : ReadReturns(c, got)
<1>1. CASE Answer
  BY <1>1 DEF Answer
<1>2. CASE Return
  <2>1. PICK c \in calls : \E got \in Heard(c) :
        \/ LoadSettles(c, got)   \/ VerifyReturns(c, got) \/ MeAfterReturns(c, got)
        \/ SignInReturns(c, got) \/ ResetReturns(c, got)  \/ FormTextsReturn(c, got)
        \/ ActionReturns(c, got) \/ SignOutReturns(c, got) \/ ReadReturns(c, got)
    BY <1>2 DEF Return
  <2>2. PICK got \in Heard(c) :
        \/ LoadSettles(c, got)   \/ VerifyReturns(c, got) \/ MeAfterReturns(c, got)
        \/ SignInReturns(c, got) \/ ResetReturns(c, got)  \/ FormTextsReturn(c, got)
        \/ ActionReturns(c, got) \/ SignOutReturns(c, got) \/ ReadReturns(c, got)
    BY <2>1
  <2> QED BY <2>2, LoadStep, VerifyStep, MeAfterStep, SignInStep, ResetStep, FormTextsStep,
             SignOutStep
<1>3. CASE Visit
  <2>1. ASSUME NEW view \in Forms, SwitchView(view) PROVE Shows
    BY <2>1, SwitchStep
  <2>2. ASSUME NEW who \in Users, SignIn(who) \/ Register(who) PROVE Shows
    BY <2>2, SubmitStep DEF SignIn, Register, Forms, Whos
  <2>3. CASE RequestReset \/ ConfirmReset
    BY <2>3, SubmitStep DEF RequestReset, ConfirmReset, Forms, Whos
  <2>4. CASE \/ \E kind \in Kinds : Toggle(kind)
             \/ LinkAction \/ UnlinkAction \/ ClaimAction \/ AcceptAction
             \/ Download \/ SignOut \/ Remove \/ ResendConfirmation
    <3>1. PICK id \in ActionIds, path \in Paths \ {"verify"}, flag \in BOOLEAN :
             Begins(id, path, flag)
      BY <2>4, ViewBegins
    <3>2. Started(id, path)
      BY <3>1, StartStep DEF Begins
    <3> QED BY <3>1, <3>2
  <2> QED BY <1>3, <2>1, <2>2, <2>3, <2>4 DEF Visit
<1> QED BY <1>1, <1>2, <1>3 DEF Next

\* A status the view may still look at was there before the step.
Looked(S) == {d \in S : d.path = "status" /\ d.alive /\ d.got = "ok"}

\* No step of the page brings one.
LEMMA LookedBefore ==
    ASSUME PageInv, Good(calls')
    PROVE  Looked(calls') \subseteq Looked(calls)
<1> SUFFICES ASSUME NEW d \in calls', d.path = "status", d.alive, d.got = "ok" PROVE d \in calls
  BY DEF Looked
<1>1. ASSUME NEW c \in calls, d = [c EXCEPT !.alive = FALSE] PROVE FALSE
  <2>1. c \in Call
    BY DEF PageInv, TypeOK
  <2> QED BY <1>1, <2>1, AliveOnly
<1> QED BY <1>1 DEF Good, Old, Made

\* There is none without a view.
LEMMA NoneLooked ==
    ASSUME PageInv, ~panel.mounted
    PROVE  Looked(calls) = {}
<1> SUFFICES ASSUME NEW d \in calls, d.path = "status", d.alive PROVE FALSE
  BY DEF Looked
<1>1. d.by \in {"status", "meter_link", "meter_unlink"}
  BY DEF PageInv, CallsAreMade, WellMade
<1>2. d.by \in OfPanel
  BY <1>1 DEF OfPanel, ActionIds, OfMeter, Reads
<1> QED BY <1>2, NoOwnUnmounted

KeysKnown ==
    /\ \A u \in Users : accounts[u].key <= accounts[u].issued
    /\ \A p \in shown : p[2] <= accounts[p[1]].issued

\* A step that changes neither an account nor what was shown.
LEMMA KeyKept ==
    ASSUME PageInv, Stepped, KeyInv, shown' = shown,
           \A d \in Own' : /\ d.path = "link" => d \in Own
                           /\ d.by = "meter_unlink" => \E e \in Own : e.by = "meter_unlink",
           panel'.key = panel.key,
           \/ panel'.status # "may" \/ panel'.status = panel.status
           \/ \E c \in Looked(calls) : panel'.status = StatusOf(c.seen)
    PROVE  KeyInv'
<1>1. accounts' = accounts /\ Looked(calls') \subseteq Looked(calls)
  BY LookedBefore DEF Stepped, Around
<1>2. (panel.key # 0 => \A c \in Own : c.by # "meter_unlink")'
  BY DEF KeyInv
<1>3. ASSUME NEW u \in Users, WasShown(u)'
      PROVE  NoOfferToLink' /\ \A c \in Own' : c.path = "link" => c.got = "ok"
  <2>1. WasShown(u)
    BY <1>1, <1>3 DEF WasShown
  <2>2. NoOfferToLink /\ \A c \in Own : c.path = "link" => c.got = "ok"
    BY <2>1 DEF KeyInv
  <2>3. NoOfferToLink'
    BY <1>1, <2>2 DEF NoOfferToLink, Looked
  <2> QED BY <2>2, <2>3
<1>4. KeysKnown'
  BY <1>1 DEF KeyInv, KeysKnown
<1> QED BY <1>2, <1>3, <1>4 DEF KeyInv, KeysKnown

\* A view that comes or goes.
LEMMA KeyFresh ==
    ASSUME PageInv, Stepped, KeyInv, shown' = shown, Own' = {},
           panel'.key = 0, panel'.status = "unknown", Looked(calls') = {}
    PROVE  KeyInv'
<1>1. accounts' = accounts
  BY DEF Stepped, Around
<1>2. NoOfferToLink'
  BY DEF NoOfferToLink, Looked
<1>3. KeysKnown'
  BY <1>1 DEF KeyInv, KeysKnown
<1> QED BY <1>2, <1>3 DEF KeyInv, KeysKnown

\* The view stays, goes, or comes with nothing but the consents.
LEMMA KeyShows ==
    ASSUME PageInv, KeyInv, Shows
    PROVE  KeyInv'
<1>1. Stepped /\ shown' = shown
  BY DEF Shows
<1>2. CASE ViewStays
  BY <1>1, <1>2, KeyKept DEF ViewStays
<1>3. CASE ViewGoes
  <2>1. Own' = {} /\ panel'.key = 0 /\ panel'.status = "unknown" /\ ~panel'.mounted
    BY <1>3, StartShapes DEF ViewGoes
  <2>2. PageInv'
    BY <1>1 DEF Stepped
  <2>3. ASSUME NEW d \in calls', d.path = "status", d.alive PROVE FALSE
    <3>1. d.by \in {"status", "meter_link", "meter_unlink"}
      BY <2>2, <2>3 DEF PageInv, CallsAreMade, WellMade
    <3>2. d.by \in ActionIds \cup Reads
      BY <3>1 DEF ActionIds, OfMeter, Reads
    <3> QED BY <2>1, <2>2, <2>3, <3>2 DEF PageInv, NothingWithoutAView, Own
  <2> QED BY <1>1, <2>1, <2>3, KeyFresh DEF Looked
<1>4. CASE ViewComes
  <2>1. ~panel.mounted /\ Own' = {}
    BY <1>4 DEF ViewComes
  <2>2. PICK c \in Snapshots, b \in BOOLEAN : panel' = Mounted(c.seen, b)
    BY <1>4 DEF ViewComes
  <2>3. c.seen \in AccountRow
    BY CallParts DEF PageInv, TypeOK, Snapshots
  <2>4. panel'.key = 0 /\ panel'.status = "unknown"
    BY <2>2, <2>3, MountedTyped
  <2>5. Looked(calls') = {}
    BY <1>1, <2>1, NoneLooked, LookedBefore DEF Stepped
  <2> QED BY <1>1, <2>1, <2>4, <2>5, KeyFresh
<1> QED BY <1>2, <1>3, <1>4 DEF Shows

\* A link is asked for only where nothing was shown.
LEMMA KeyBegins ==
    ASSUME PageInv, KeyInv, NEW id \in ActionIds, NEW path, NEW flag, Begins(id, path, flag),
           Started(id, path)
    PROVE  KeyInv'
<1>1. /\ Stepped /\ shown' = shown /\ panel'.key = panel.key /\ panel'.status = panel.status
  BY DEF Started
<1>2. PICK d : d.by = id /\ d.path = path /\ Own' = Own \cup {d}
  BY DEF Started
<1>3. accounts' = accounts /\ Looked(calls') \subseteq Looked(calls)
  BY <1>1, LookedBefore DEF Stepped, Around
<1>4. (panel.key # 0 => \A c \in Own : c.by # "meter_unlink")'
  BY <1>1, <1>2 DEF KeyInv, Begins
<1>5. ASSUME NEW u \in Users, WasShown(u)'
      PROVE  NoOfferToLink' /\ \A c \in Own' : c.path = "link" => c.got = "ok"
  <2>1. WasShown(u)
    BY <1>1, <1>3, <1>5 DEF WasShown
  <2>2. NoOfferToLink /\ \A c \in Own : c.path = "link" => c.got = "ok"
    BY <2>1 DEF KeyInv
  <2>3. path # "link"
    BY <2>2 DEF NoOfferToLink, Begins
  <2>4. NoOfferToLink'
    BY <1>1, <1>3, <2>2 DEF NoOfferToLink, Looked
  <2> QED BY <1>2, <2>2, <2>3, <2>4
<1>6. KeysKnown'
  BY <1>1, <1>3 DEF KeyInv, KeysKnown
<1> QED BY <1>4, <1>5, <1>6 DEF KeyInv, KeysKnown

\* A status that is read is one the view may look at.
LEMMA KeyReads ==
    ASSUME PageInv, KeyInv, NEW c \in calls, NEW got \in Heard(c), ReadReturns(c, got)
    PROVE  KeyInv'
<1>1. ReadDone(c, got)
  BY ReadStep
<1>2. ASSUME c.by = "status", got = "ok" PROVE c \in Looked(calls)
  <2>1. c.path = "status" /\ c.alive
    BY <1>2 DEF PageInv, CallsAreMade, WellMade, Reads
  <2> QED BY <1>2, <2>1, HeardOk DEF Looked
<1> QED BY <1>1, <1>2, KeyKept DEF ReadDone

\* A refused sign-out.
LEMMA KeySignOut ==
    ASSUME PageInv, KeyInv, NEW c \in calls, SignOutFails(c)
    PROVE  KeyInv'
BY KeyKept DEF SignOutFails

\* What an answer changes of the key, the status and the consents.
LEMMA UpdatedParts ==
    ASSUME PageInv, NEW c \in calls
    PROVE  /\ c.path = "link" => Updated(c).key = c.seen.key
           /\ c.path = "unlink" => Updated(c).key = 0
           /\ c.path \notin {"link", "unlink"} => Updated(c).key = panel.key
           /\ c.path = "status" => Updated(c).status = StatusOf(c.seen)
           /\ c.path # "status" => Updated(c).status = panel.status
           /\ c.path = "consent" =>
                 \A k \in Kinds : Updated(c).consents[k] =
                    IF k = c.by THEN c.seen.consents[k] ELSE panel.consents[k]
           /\ c.path # "consent" => Updated(c).consents = panel.consents
<1>1. panel \in Panel
  BY DEF PageInv, TypeOK
<1>2. CASE c.path = "consent"
  <2>1. Updated(c) = [panel EXCEPT !.consents[c.by] = c.seen.consents[c.by]]
    BY <1>2 DEF Updated
  <2>2. panel.consents \in [Kinds -> BOOLEAN]
    BY <1>1 DEF Panel
  <2>3. /\ Updated(c).key = panel.key /\ Updated(c).status = panel.status
        /\ Updated(c).consents = [panel.consents EXCEPT ![c.by] = c.seen.consents[c.by]]
    BY <1>1, <2>1 DEF Panel
  <2> QED BY <1>2, <2>2, <2>3
<1>3. CASE c.path = "link"
  BY <1>1, <1>3 DEF Updated, Panel
<1>4. CASE c.path = "unlink"
  BY <1>1, <1>4 DEF Updated, Panel
<1>5. CASE c.path = "status"
  BY <1>1, <1>5 DEF Updated, Panel
<1>6. CASE c.path \in {"accept", "resend", "check"}
  BY <1>1, <1>6 DEF Updated, Panel
<1>7. CASE c.path \notin {"consent", "link", "unlink", "accept", "resend", "status", "check"}
  BY <1>1, <1>7 DEF Updated
<1> QED BY <1>2, <1>3, <1>4, <1>5, <1>6, <1>7

\* An answer to a handler: only that to a link shows a key, and from then on the
\* view offers no other.
LEMMA KeyActs ==
    ASSUME PageInv, KeyInv, NEW c \in calls, NEW got \in Heard(c), ActionReturns(c, got)
    PROVE  KeyInv'
<1>1. Stepped /\ (ActionLost(c) \/ ActionEnds(c, got) \/ ActionGoesOn(c, got))
  BY ActionStep
<1>2. /\ c.by \in ActionIds
      /\ shown' = IF c.alive /\ got = "ok" /\ c.path = "link"
                  THEN shown \cup {<<c.who, c.seen.key>>} ELSE shown
  BY ActionParts
<1>3. panel \in Panel /\ WellMade(c)
  BY DEF PageInv, TypeOK, CallsAreMade
<1>4. CASE ActionLost(c)
  BY <1>1, <1>2, <1>4, KeyKept DEF ActionLost
<1>5. CASE ActionEnds(c, got)
  <2> DEFINE after == IF got = "ok" THEN Updated(c) ELSE [panel EXCEPT !.failure = TRUE]
  <2>1. /\ c.alive /\ Own' = Own \ {c} /\ panel' = Done(after, c)
        /\ got = "ok" => c.path \notin {"link", "unlink"}
    BY <1>5 DEF ActionEnds
  <2>2. after \in Panel
    <3>1. Updated(c) \in Panel
      BY <1>2, UpdatedTyped
    <3>2. [panel EXCEPT !.failure = TRUE] \in Panel
      BY <1>3 DEF Panel
    <3> QED BY <3>1, <3>2
  <2>3. /\ after.key = panel.key
        /\ after.status = panel.status
           \/ (got = "ok" /\ c.path = "status" /\ after.status = StatusOf(c.seen))
    <3>1. CASE got = "ok"
      BY <2>1, <3>1, UpdatedParts
    <3>2. CASE got # "ok"
      BY <1>3, <3>2 DEF Panel
    <3> QED BY <3>1, <3>2
  <2> HIDE DEF after
  <2>4. panel'.key = after.key /\ panel'.status = after.status
    BY <2>1, <2>2, DoneTyped
  <2>5. ASSUME got = "ok", c.path = "status" PROVE c \in Looked(calls)
    BY <2>1, <2>5, HeardOk DEF Looked
  <2>6. shown' = shown
    BY <1>2, <2>1
  <2> QED BY <1>1, <2>1, <2>3, <2>4, <2>5, <2>6, KeyKept
<1>6. ASSUME ActionGoesOn(c, got), c.path # "link" PROVE KeyInv'
  <2>1. c \in Own /\ panel' = Updated(c)
    BY <1>6 DEF ActionGoesOn
  <2>2. PICK d : d.by = c.by /\ d.path \in {"status", "check"} /\ Own' = (Own \ {c}) \cup {d}
    BY <1>6 DEF ActionGoesOn
  <2>3. c.path # "status" /\ c.path # "consent"
    BY <1>6 DEF ActionGoesOn
  <2>4. panel'.key = panel.key
    <3>1. CASE c.path = "unlink"
      BY <1>3, <2>1, <3>1, UpdatedParts DEF WellMade, KeyInv
    <3>2. CASE c.path # "unlink"
      BY <1>6, <2>1, <3>2, UpdatedParts
    <3> QED BY <3>1, <3>2
  <2>5. panel'.status = panel.status
    BY <2>1, <2>3, UpdatedParts
  <2>6. shown' = shown
    BY <1>2, <1>6
  <2> QED BY <1>1, <2>1, <2>2, <2>4, <2>5, <2>6, KeyKept
<1>7. ASSUME ActionGoesOn(c, got), c.path = "link" PROVE KeyInv'
  <2>1. c \in Own /\ c.alive /\ got = "ok" /\ panel' = Updated(c)
    BY <1>7 DEF ActionGoesOn
  <2>2. PICK d : d.by = c.by /\ d.path \in {"status", "check"} /\ Own' = (Own \ {c}) \cup {d}
    BY <1>7 DEF ActionGoesOn
  <2>3. c.got = "ok" /\ c.who \in Users /\ c.by = "meter_link"
    BY <1>3, <1>7, <2>1, HeardOfUser DEF WellMade
  <2>4. c.seen.key # 0 /\ c.seen.key <= accounts[c.who].issued
    BY <1>3, <1>7, <2>3 DEF WellMade
  <2>5. panel'.key # 0
    BY <1>7, <2>1, <2>4, UpdatedParts
  <2>6. \A e \in Own' : e.by = "meter_unlink" \/ e.path = "link" => e = d
    <3> SUFFICES ASSUME NEW e \in Own, e.by = "meter_unlink" \/ e.path = "link" PROVE e = c
      BY <2>2
    <3>1. e.by \in {"meter_link", "meter_unlink"}
      BY DEF PageInv, CallsAreMade, WellMade, Own
    <3>2. {e.by, c.by} \subseteq OfMeter
      BY <2>3, <3>1 DEF OfMeter
    <3> QED BY <2>1, <3>2 DEF PageInv, HandledOnce
  <2>7. \A e \in Own' : e.by # "meter_unlink" /\ e.path # "link"
    BY <2>2, <2>3, <2>6
  <2>8. accounts' = accounts
    BY <1>1 DEF Stepped, Around
  <2>9. shown' = shown \cup {<<c.who, c.seen.key>>}
    BY <1>2, <1>7, <2>1
  <2>10. KeysKnown'
    <3>1. ASSUME NEW p \in shown' PROVE p[2] <= accounts[p[1]].issued
      <4>1. CASE p \in shown
        BY <4>1 DEF KeyInv
      <4>2. CASE p = <<c.who, c.seen.key>>
        BY <2>4, <4>2
      <4> QED BY <2>9, <4>1, <4>2
    <3> QED BY <2>8, <3>1 DEF KeyInv, KeysKnown
  <2>11. NoOfferToLink'
    BY <2>5 DEF NoOfferToLink
  <2> QED BY <2>7, <2>10, <2>11 DEF KeyInv, KeysKnown
<1> QED BY <1>1, <1>4, <1>5, <1>6, <1>7

\* The API acts: a key it makes was never shown, and what it says of a link that
\* has one offers no other.
LEMMA KeyServes ==
    ASSUME OneUser, PageInv, KeyInv, NEW c \in calls, Serve(c)
    PROVE  KeyInv'
<1>0. PICK got \in {"ok", "unauthorised"}, row \in AccountRow : Served(c, got, row)
  BY ServeParts
<1>1. /\ calls' = (calls \ {c}) \cup {[c EXCEPT !.got = got, !.seen = row]}
      /\ c.got = "waiting" /\ panel' = panel /\ shown' = shown
      /\ got = "unauthorised" => accounts' = accounts
      /\ got = "ok" =>
            /\ Permitted(c) /\ RowOf(c) \in AccountRow /\ RowChange(c, RowOf(c), row)
            /\ accounts' = IF c.who \in Users THEN [accounts EXCEPT ![c.who] = row]
                           ELSE accounts
  BY <1>0 DEF Served
<1> DEFINE d == [c EXCEPT !.got = got, !.seen = row]
<1>2. /\ c \in Call /\ WellMade(c) /\ accounts \in [Users -> AccountRow]
      /\ shown \subseteq Users \X (1..MaxKeys)
  BY DEF PageInv, TypeOK, CallsAreMade
<1>3. /\ d.by = c.by /\ d.path = c.path /\ d.got = got /\ d.alive = c.alive /\ d.seen = row
  BY <1>2 DEF Call
<1>4. calls' = (calls \ {c}) \cup {d}
  BY <1>1
<1> HIDE DEF d
<1>5. \A u \in Users : accounts[u].key \in Nat /\ accounts[u].issued \in Nat
  BY <1>2, AccountAssumption DEF AccountRow
<1>6. \A e \in Own' : \/ e \in Own /\ e # c
                      \/ e = d /\ c \in Own
  BY <1>3, <1>4 DEF Own
<1>7. (panel.key # 0 => \A e \in Own : e.by # "meter_unlink")'
  BY <1>1, <1>3, <1>6 DEF KeyInv
<1>8. ASSUME NEW u \in Users
      PROVE  /\ accounts[u].issued <= accounts'[u].issued
             /\ accounts'[u].key <= accounts'[u].issued
             /\ \/ accounts'[u].key \in {accounts[u].key, 0}
                \/ accounts'[u].key = accounts[u].issued + 1
             /\ c.path = "status" /\ got = "ok" => row = accounts'[u]
             /\ c.path = "link" /\ got = "ok" => accounts'[u].key = accounts[u].issued + 1
  <2>1. CASE accounts' = accounts /\ ~(got = "ok" /\ c.path \in {"status", "link"})
    BY <1>5, <2>1 DEF KeyInv
  <2>2. CASE got = "ok" /\ c.who = u
    <3>1. /\ RowOf(c) = accounts[u] /\ accounts'[u] = row
      BY <1>1, <1>2, <2>2 DEF RowOf
    <3>2. RowChange(c, accounts[u], row) /\ accounts[u].key <= accounts[u].issued
      BY <1>1, <2>2, <3>1 DEF KeyInv
    <3>3. row.key \in Nat /\ row.issued \in Nat
      BY AccountAssumption DEF AccountRow
    <3>4. CASE c.path = "link"
      BY <1>5, <3>1, <3>2, <3>3, <3>4 DEF RowChange
    <3>5. CASE c.path # "link"
      BY <1>5, <3>1, <3>2, <3>3, <3>5 DEF RowChange
    <3> QED BY <3>4, <3>5
  <2>3. got = "ok" /\ c.who \in Users => c.who = u
    BY DEF OneUser
  <2>4. got = "ok" /\ c.path \in {"status", "link"} => c.who \in Users
    BY <1>1 DEF Permitted
  <2> QED BY <1>1, <2>1, <2>2, <2>3, <2>4
<1>9. KeysKnown'
  <2>1. ASSUME NEW p \in shown PROVE p[2] <= accounts'[p[1]].issued
    <3>1. p[1] \in Users /\ p[2] \in Nat /\ p[2] <= accounts[p[1]].issued
      BY <1>2, AccountAssumption DEF KeyInv
    <3>2. accounts[p[1]].issued <= accounts'[p[1]].issued
      BY <1>8, <3>1
    <3>3. accounts'[p[1]].issued \in Nat
      <4>1. Stepped \/ PageInv'
        BY ServeStep
      <4>2. accounts' \in [Users -> AccountRow]
        BY <4>1 DEF Stepped, PageInv, TypeOK
      <4> QED BY <3>1, <4>2, AccountAssumption DEF AccountRow
    <3> QED BY <1>5, <3>1, <3>2, <3>3
  <2> QED BY <1>1, <1>8, <2>1 DEF KeysKnown
<1>10. ASSUME NEW u \in Users, WasShown(u)'
       PROVE  NoOfferToLink' /\ \A e \in Own' : e.path = "link" => e.got = "ok"
  <2>1. accounts'[u].key # 0 /\ <<u, accounts'[u].key>> \in shown
    BY <1>1, <1>10 DEF WasShown
  <2>2. accounts'[u].key # accounts[u].issued + 1
    <3>1. accounts'[u].key <= accounts[u].issued
      BY <2>1 DEF KeyInv
    <3> QED BY <1>5, <3>1
  <2>3. accounts'[u].key = accounts[u].key
    BY <1>8, <2>1, <2>2
  <2>4. NoOfferToLink /\ \A e \in Own : e.path = "link" => e.got = "ok"
    BY <2>1, <2>3 DEF KeyInv, WasShown
  <2>5. ASSUME NEW e \in Own', e.path = "link" PROVE e.got = "ok"
    <3>1. CASE e \in Own
      BY <2>4, <2>5, <3>1
    <3>2. CASE e = d /\ c \in Own
      <4>1. c.path = "link" /\ c.got # "ok"
        BY <1>1, <1>3, <2>5, <3>2
      <4> QED BY <2>4, <3>2, <4>1
    <3> QED BY <1>6, <3>1, <3>2
  <2>6. NoOfferToLink'
    <3>1. ASSUME NEW e \in calls', e.path = "status", e.alive, e.got = "ok", e \notin calls
          PROVE  StatusOf(e.seen) # "may"
      <4>1. e = d /\ got = "ok" /\ c.path = "status"
        BY <1>3, <1>4, <3>1
      <4>2. e.seen = accounts'[u]
        BY <1>3, <1>8, <4>1
      <4> QED BY <2>1, <4>2 DEF StatusOf
    <3> QED BY <1>1, <2>4, <3>1 DEF NoOfferToLink
  <2> QED BY <2>5, <2>6
<1> QED BY <1>7, <1>9, <1>10 DEF KeyInv, KeysKnown

\* Every step keeps it.
LEMMA KeySteps ==
    ASSUME OneUser, PageInv, KeyInv, [Next]_vars
    PROVE  KeyInv'
<1>1. CASE Next
  <2>1. ASSUME NEW c \in calls, Serve(c) PROVE KeyInv'
    BY <2>1, KeyServes
  <2>2. CASE Shows
    BY <2>2, KeyShows
  <2>3. ASSUME NEW id \in ActionIds, NEW path \in Paths, NEW flag \in BOOLEAN,
               Begins(id, path, flag), Started(id, path)
        PROVE  KeyInv'
    BY <2>3, KeyBegins
  <2>4. ASSUME NEW c \in calls, NEW got \in Heard(c), ActionReturns(c, got) PROVE KeyInv'
    BY <2>4, KeyActs
  <2>5. ASSUME NEW c \in calls, SignOutFails(c) PROVE KeyInv'
    BY <2>5, KeySignOut
  <2>6. ASSUME NEW c \in calls, NEW got \in Heard(c), ReadReturns(c, got) PROVE KeyInv'
    BY <2>6, KeyReads
  <2> QED BY <1>1, <2>1, <2>2, <2>3, <2>4, <2>5, <2>6, StepKinds
<1>2. CASE UNCHANGED vars
  BY <1>2 DEF vars, KeyInv, WasShown, NoOfferToLink, Own
<1> QED BY <1>1, <1>2

\* It holds when the page opens: no key has been on the screen.
LEMMA KeyStarts ==
    ASSUME Init
    PROVE  KeyInv
<1>1. PageInv /\ panel = Unmounted /\ shown = {}
  BY PageStarts
<1>2. panel.key = 0
  BY <1>1, StartShapes
<1>3. ASSUME NEW u \in Users PROVE accounts[u].key <= accounts[u].issued
  <2>1. accounts[u] \in {NoRow} \cup
           {WithPast(v, g, k) : v \in BOOLEAN, g \in BOOLEAN, k \in {0, 1}}
    BY DEF Init
  <2>2. NoRow.key <= NoRow.issued
    BY DEF NoRow
  <2>3. ASSUME NEW v \in BOOLEAN, NEW g \in BOOLEAN, NEW k \in {0, 1}
        PROVE  WithPast(v, g, k).key <= WithPast(v, g, k).issued
    BY StartShapes DEF WithPast, AccountRow
  <2> QED BY <2>1, <2>2, <2>3
<1> QED BY <1>1, <1>2, <1>3 DEF KeyInv, WasShown

\* A step of the page itself changes no account.
LEMMA ServedOnly ==
    ASSUME PageInv, [Next]_vars, accounts' # accounts
    PROVE  \E c \in calls : Serve(c)
BY ReturnStep, VisitStep DEF Next, Answer, Stepped, Around, vars

\* A link that replaces another never replaces one whose key was on the screen,
\* unless a request of a view that has gone does: the view that showed the key
\* offers no second link, and a later view hears of the link before it offers one.
THEOREM ShownKeys ==
    ASSUME OneUser
    PROVE  Spec => ShownKeysAreKept
<1>1. Init => PageInv /\ KeyInv
  BY PageStarts, KeyStarts
<1>2. PageInv /\ KeyInv /\ [Next]_vars => PageInv' /\ KeyInv'
  BY PageSteps, KeySteps
<1>3. PageInv /\ KeyInv /\ [Next]_vars =>
        [\A u \in Users :
            accounts'[u].key \notin {0, accounts[u].key} /\ accounts[u].key # 0
                => \/ <<u, accounts[u].key>> \notin shown
                   \/ \E c \in calls : c.path = "link" /\ c.got = "waiting" /\ ~c.alive]_vars
  <2> SUFFICES ASSUME PageInv, KeyInv, [Next]_vars, NEW u \in Users,
                      accounts'[u].key \notin {0, accounts[u].key}, WasShown(u)
               PROVE  \E c \in calls : c.path = "link" /\ c.got = "waiting" /\ ~c.alive
    BY DEF WasShown
  <2>1. PICK c \in calls : Serve(c)
    BY ServedOnly
  <2>0. PICK got \in {"ok", "unauthorised"}, row \in AccountRow : Served(c, got, row)
    BY <2>1, ServeParts
  <2>2. /\ c.got = "waiting"
        /\ got = "unauthorised" => accounts' = accounts
        /\ got = "ok" =>
              /\ RowChange(c, RowOf(c), row)
              /\ accounts' = IF c.who \in Users THEN [accounts EXCEPT ![c.who] = row]
                             ELSE accounts
    BY <2>0 DEF Served
  <2>3. accounts \in [Users -> AccountRow] /\ WellMade(c)
    BY DEF PageInv, TypeOK, CallsAreMade
  <2>4. got = "ok" /\ c.who = u
    BY <2>2 DEF OneUser
  <2>5. RowOf(c) = accounts[u] /\ accounts'[u] = row
    BY <2>2, <2>3, <2>4 DEF RowOf
  <2>6. c.path = "link"
    BY <2>2, <2>4, <2>5 DEF RowChange
  <2>7. c.by \in ActionIds
    BY <2>3, <2>6 DEF WellMade, ActionIds, OfMeter
  <2>8. c \notin Own
    BY <2>2, <2>6 DEF KeyInv
  <2>9. ~c.alive
    BY <2>7, <2>8 DEF Own
  <2> QED BY <2>2, <2>6, <2>9
<1> QED BY <1>1, <1>2, <1>3, PTL DEF Spec, ShownKeysAreKept

-----------------------------------------------------------------------------
(* One person uses the tab: what the view says of a consent is what is stored.*)

\* The view, the snapshots and the consents under way agree about one kind.
Sound(u, k) ==
    LET stored == accounts[u].consents[k] IN
    /\ panel.mounted /\ k \notin panel.busy => panel.consents[k] = stored
    /\ \A c \in Snapshots : c.seen.consents[k] = stored
    /\ \A c \in Own : c.by = k => (IF c.got = "ok" THEN c.seen ELSE panel).consents[k] = stored

\* The invariant, one account and one kind at a time.
LEMMA ConsentParts ==
    ConsentInv <=> \A u \in Users :
        /\ accounts[u].made = "no" => ~panel.mounted /\ Snapshots = {}
        /\ accounts[u].made = "yes" => \A k \in Kinds \ doubt : Sound(u, k)
BY DEF ConsentInv, Sound

\* What the page may still look at was there before the step.
LEMMA SnapshotsBefore ==
    ASSUME PageInv, Good(calls'), NEW d \in Snapshots'
    PROVE  \E c \in Snapshots : c.seen = d.seen
<1>1. d \in calls' /\ d.path \in {"me", "me_again", "me_after"} /\ d.got = "ok"
  BY DEF Snapshots
<1>2. CASE d \in calls
  BY <1>1, <1>2 DEF Snapshots
<1>3. ASSUME NEW c \in calls, d = [c EXCEPT !.alive = FALSE] PROVE c \in Snapshots /\ c.seen = d.seen
  <2>1. c \in Call
    BY DEF PageInv, TypeOK
  <2>2. d.path = c.path /\ d.got = c.got /\ d.seen = c.seen
    BY <1>3, <2>1, AliveOnly
  <2> QED BY <1>1, <2>2 DEF Snapshots
<1> QED BY <1>1, <1>2, <1>3 DEF Good, Old, Made

\* A step of the page: it has only to keep what the view says, and what its
\* handlers will say.
LEMMA ConsentKept ==
    ASSUME PageInv, ConsentInv, Stepped, doubt \subseteq doubt',
           panel'.mounted => panel.mounted \/ Snapshots # {},
           \A u \in Users, k \in Kinds : accounts[u].made = "yes" /\ k \notin doubt' =>
              LET stored == accounts[u].consents[k] IN
              /\ panel'.mounted /\ k \notin panel'.busy => panel'.consents[k] = stored
              /\ \A c \in Own' : c.by = k =>
                    (IF c.got = "ok" THEN c.seen ELSE panel').consents[k] = stored
    PROVE  ConsentInv'
<1>1. accounts' = accounts /\ Good(calls')
  BY DEF Stepped, Around
<1>2. \A d \in Snapshots' : \E c \in Snapshots : c.seen = d.seen
  BY <1>1, SnapshotsBefore
<1> SUFFICES ASSUME NEW u \in Users
             PROVE  /\ accounts[u].made = "no" => ~panel'.mounted /\ Snapshots' = {}
                    /\ accounts[u].made = "yes" => \A k \in Kinds \ doubt' : Sound(u, k)'
  BY <1>1 DEF ConsentInv, Sound
<1>3. accounts[u].made = "no" => ~panel'.mounted /\ Snapshots' = {}
  BY <1>2 DEF ConsentInv
<1>4. ASSUME accounts[u].made = "yes", NEW k \in Kinds \ doubt' PROVE Sound(u, k)'
  <2>1. \A c \in Snapshots : c.seen.consents[k] = accounts[u].consents[k]
    BY <1>4 DEF ConsentInv
  <2>2. \A d \in Snapshots' : d.seen.consents[k] = accounts[u].consents[k]
    BY <1>2, <2>1
  <2> QED BY <1>1, <1>4, <2>2 DEF Sound
<1> QED BY <1>3, <1>4

\* The view stays, goes, or comes with the account me/ has answered with.
LEMMA ConsentShows ==
    ASSUME PageInv, ConsentInv, Shows
    PROVE  ConsentInv'
<1>1. Stepped /\ doubt' = doubt
  BY DEF Shows
<1>2. CASE ViewStays
  BY <1>1, <1>2, ConsentKept DEF ViewStays, ConsentInv
<1>3. CASE ViewGoes
  <2>1. ~panel'.mounted /\ Own' = {}
    BY <1>3, StartShapes DEF ViewGoes
  <2> QED BY <1>1, <2>1, ConsentKept
<1>4. CASE ViewComes
  <2>1. Own' = {}
    BY <1>4 DEF ViewComes
  <2>2. PICK c \in Snapshots, b \in BOOLEAN : panel' = Mounted(c.seen, b)
    BY <1>4 DEF ViewComes
  <2>3. c.seen \in AccountRow
    BY CallParts DEF PageInv, TypeOK, Snapshots
  <2>4. panel'.consents = c.seen.consents
    BY <2>2, <2>3, MountedTyped
  <2>5. ASSUME NEW u \in Users, NEW k \in Kinds, accounts[u].made = "yes", k \notin doubt'
        PROVE  panel'.consents[k] = accounts[u].consents[k]
    BY <1>1, <2>4, <2>5 DEF ConsentInv
  <2> QED BY <1>1, <2>1, <2>2, <2>5, ConsentKept
<1> QED BY <1>2, <1>3, <1>4 DEF Shows

\* A button that is pressed: what the view says is stored, until it is answered.
LEMMA ConsentBegins ==
    ASSUME PageInv, ConsentInv, NEW id \in ActionIds, NEW path, NEW flag, Begins(id, path, flag),
           Started(id, path)
    PROVE  ConsentInv'
<1>1. /\ Stepped /\ doubt' = doubt /\ panel.mounted /\ panel'.busy = panel.busy \cup {id}
      /\ panel'.consents = panel.consents /\ id \notin panel.busy
  BY DEF Started, Begins
<1>2. PICK d : d.by = id /\ d.got = "waiting" /\ Own' = Own \cup {d}
  BY DEF Started, Made
<1>3. ASSUME NEW u \in Users, NEW k \in Kinds, accounts[u].made = "yes", k \notin doubt'
      PROVE  /\ k \notin panel'.busy => panel'.consents[k] = accounts[u].consents[k]
             /\ \A c \in Own' : c.by = k =>
                   (IF c.got = "ok" THEN c.seen ELSE panel').consents[k] = accounts[u].consents[k]
  <2>1. Sound(u, k)
    BY <1>1, <1>3, ConsentParts
  <2>2. ASSUME NEW c \in Own', c.by = k
        PROVE  (IF c.got = "ok" THEN c.seen ELSE panel').consents[k] = accounts[u].consents[k]
    <3>1. CASE c \in Own
      BY <1>1, <2>1, <2>2, <3>1 DEF Sound
    <3>2. CASE c = d
      BY <1>1, <1>2, <2>1, <2>2, <3>2 DEF Sound
    <3> QED BY <1>2, <3>1, <3>2
  <2> QED BY <1>1, <2>1, <2>2 DEF Sound
<1> QED BY <1>1, <1>3, ConsentKept

\* A read says nothing of a consent.
LEMMA ConsentReads ==
    ASSUME PageInv, ConsentInv, NEW c \in calls, NEW got \in Heard(c), ReadReturns(c, got)
    PROVE  ConsentInv'
<1>1. ReadDone(c, got)
  BY ReadStep
<1> QED BY <1>1, ConsentKept DEF ReadDone, ConsentInv

\* Nor does a refused sign-out.
LEMMA ConsentSignOut ==
    ASSUME PageInv, ConsentInv, NEW c \in calls, SignOutFails(c)
    PROVE  ConsentInv'
<1>1. c.by \notin Kinds
  BY DEF SignOutFails, Kinds
<1> QED BY <1>1, ConsentKept DEF SignOutFails, ConsentInv

\* The answer to a consent is what is stored, unless that is in doubt.
LEMMA ConsentActs ==
    ASSUME PageInv, ConsentInv, NEW c \in calls, NEW got \in Heard(c), ActionReturns(c, got)
    PROVE  ConsentInv'
<1>1. Stepped /\ (ActionLost(c) \/ ActionEnds(c, got) \/ ActionGoesOn(c, got))
  BY ActionStep
<1>2. /\ c.by \in ActionIds
      /\ doubt' = IF c.path = "consent" /\ c.alive /\ c.got = "ok" /\ got # "ok"
                  THEN doubt \cup {c.by} ELSE doubt
  BY ActionParts
<1>3. panel \in Panel /\ (c.path = "consent" <=> c.by \in Kinds) /\ doubt \subseteq doubt'
  BY <1>2 DEF PageInv, TypeOK, CallsAreMade, WellMade
<1>4. CASE ActionLost(c)
  BY <1>1, <1>3, <1>4, ConsentKept DEF ActionLost, ConsentInv
<1>5. CASE ActionEnds(c, got)
  <2> DEFINE after == IF got = "ok" THEN Updated(c) ELSE [panel EXCEPT !.failure = TRUE]
  <2>1. c.alive /\ c \in Own /\ Own' = Own \ {c} /\ panel' = Done(after, c)
    BY <1>5 DEF ActionEnds
  <2>2. panel.mounted
    BY <2>1, MountedFor
  <2>3. after \in Panel /\ after.busy = panel.busy
    <3>1. Updated(c) \in Panel /\ Updated(c).busy = panel.busy
      BY <1>2, UpdatedTyped
    <3>2. [panel EXCEPT !.failure = TRUE] \in Panel /\ [panel EXCEPT !.failure = TRUE].busy = panel.busy
      BY <1>3 DEF Panel
    <3> QED BY <3>1, <3>2
  <2>4. \A k \in Kinds : after.consents[k] =
            IF got = "ok" /\ k = c.by THEN c.seen.consents[k] ELSE panel.consents[k]
    <3>1. CASE got = "ok"
      BY <1>3, <3>1, UpdatedParts
    <3>2. CASE got # "ok"
      BY <1>3, <3>2 DEF Panel
    <3> QED BY <3>1, <3>2
  <2> HIDE DEF after
  <2>5. panel'.busy = panel.busy \ {c.by} /\ panel'.consents = after.consents
    <3>1. Done(after, c).busy = after.busy \ {c.by} /\ Done(after, c).consents = after.consents
      BY <2>3, DoneTyped
    <3> QED BY <2>1, <2>3, <3>1
  <2>6. ASSUME NEW u \in Users, NEW k \in Kinds, accounts[u].made = "yes", k \notin doubt'
        PROVE  /\ k \notin panel'.busy => panel'.consents[k] = accounts[u].consents[k]
               /\ \A e \in Own' : e.by = k =>
                     (IF e.got = "ok" THEN e.seen ELSE panel').consents[k] = accounts[u].consents[k]
    <3>1. Sound(u, k)
      BY <1>3, <2>6, ConsentParts
    <3>2. CASE k # c.by
      BY <2>1, <2>2, <2>4, <2>5, <3>1, <3>2 DEF Sound
    <3>3. CASE k = c.by
      <4>1. c.path = "consent" /\ (c.got = "ok" => got = "ok")
        BY <1>2, <1>3, <2>1, <2>6, <3>3
      <4>2. got = "ok" => c.got = "ok"
        BY <4>1, HeardOk
      <4>3. panel'.consents[k] = accounts[u].consents[k]
        BY <2>1, <2>4, <2>5, <3>1, <3>3, <4>1, <4>2 DEF Sound
      <4>4. \A e \in Own' : e.by # k
        BY <2>1, <3>3 DEF PageInv, HandledOnce
      <4> QED BY <4>3, <4>4
    <3> QED BY <3>2, <3>3
  <2> QED BY <1>1, <1>3, <2>2, <2>6, ConsentKept
<1>6. CASE ActionGoesOn(c, got)
  <2>1. c \in Own /\ panel' = Updated(c) /\ c.path # "consent"
    BY <1>6 DEF ActionGoesOn
  <2>2. PICK d : d.by = c.by /\ Own' = (Own \ {c}) \cup {d}
    BY <1>6 DEF ActionGoesOn
  <2>3. panel.mounted /\ c.by \notin Kinds
    BY <1>3, <2>1, MountedFor
  <2>4. panel'.consents = panel.consents /\ panel'.busy = panel.busy
    BY <1>2, <2>1, UpdatedParts, UpdatedTyped
  <2>5. ASSUME NEW u \in Users, NEW k \in Kinds, accounts[u].made = "yes", k \notin doubt'
        PROVE  /\ k \notin panel'.busy => panel'.consents[k] = accounts[u].consents[k]
               /\ \A e \in Own' : e.by = k =>
                     (IF e.got = "ok" THEN e.seen ELSE panel').consents[k] = accounts[u].consents[k]
    <3>1. Sound(u, k)
      BY <1>3, <2>5, ConsentParts
    <3>2. \A e \in Own' : e.by = k => e \in Own
      BY <2>2, <2>3
    <3> QED BY <2>3, <2>4, <3>1, <3>2 DEF Sound
  <2> QED BY <1>1, <1>3, <2>3, <2>5, ConsentKept
<1> QED BY <1>1, <1>4, <1>5, <1>6

\* The API acts on a request: a consent that is stored while no other answer is
\* on its way leaves the screen behind only until its own answer is heard.
LEMMA ConsentServes ==
    ASSUME OneUser, PageInv, ConsentInv, NEW c \in calls, Serve(c)
    PROVE  ConsentInv'
<1>0. PICK got \in {"ok", "unauthorised"}, row \in AccountRow : Served(c, got, row)
  BY ServeParts
<1>1. /\ calls' = (calls \ {c}) \cup {[c EXCEPT !.got = got, !.seen = row]}
      /\ c.got = "waiting" /\ panel' = panel
      /\ got = "unauthorised" => accounts' = accounts /\ doubt' = doubt
      /\ got = "ok" =>
            /\ Permitted(c) /\ RowOf(c) \in AccountRow /\ RowChange(c, RowOf(c), row)
            /\ accounts' = IF c.who \in Users THEN [accounts EXCEPT ![c.who] = row]
                           ELSE accounts
            /\ doubt' = IF c.path # "consent" THEN doubt
                        ELSE IF c.alive /\ Snapshots = {} THEN doubt \ {c.by}
                        ELSE doubt \cup {c.by}
  BY <1>0 DEF Served
<1> DEFINE d == [c EXCEPT !.got = got, !.seen = row]
<1>2. /\ c \in Call /\ (c.path = "consent" <=> c.by \in Kinds)
      /\ accounts \in [Users -> AccountRow]
  BY DEF PageInv, TypeOK, CallsAreMade, WellMade
<1>3. /\ d.by = c.by /\ d.path = c.path /\ d.got = got /\ d.alive = c.alive /\ d.seen = row
  BY <1>2 DEF Call
<1>4. calls' = (calls \ {c}) \cup {d}
  BY <1>1
<1> HIDE DEF d
<1>5. \A e \in Own' : \/ e \in Own /\ e # c
                      \/ e = d /\ c \in Own
  BY <1>3, <1>4 DEF Own
<1>6. \A e \in Snapshots' : \/ e \in Snapshots
                            \/ /\ e = d /\ got = "ok" /\ e.seen = row
                               /\ c.path \in {"me", "me_again", "me_after"}
  BY <1>3, <1>4 DEF Snapshots
<1> SUFFICES ASSUME NEW u \in Users
             PROVE  /\ accounts'[u].made = "no" => ~panel'.mounted /\ Snapshots' = {}
                    /\ accounts'[u].made = "yes" => \A k \in Kinds \ doubt' : Sound(u, k)'
  BY DEF ConsentInv, Sound
\* Where the account keeps its consents, so does everything that knows of them.
<1>7. ASSUME NEW k \in Kinds \ doubt, c.by # k, accounts[u].made = "yes",
             accounts'[u].consents[k] = accounts[u].consents[k],
             c.path \in {"me", "me_again", "me_after"} /\ got = "ok"
                => row.consents[k] = accounts[u].consents[k]
      PROVE  Sound(u, k)'
  <2>1. Sound(u, k)
    BY <1>7, ConsentParts
  <2>2. \A e \in Snapshots' : e.seen.consents[k] = accounts[u].consents[k]
    BY <1>6, <1>7, <2>1 DEF Sound
  <2>3. \A e \in Own' : e.by = k => e \in Own
    BY <1>3, <1>5, <1>7
  <2> QED BY <1>1, <1>7, <2>1, <2>2, <2>3 DEF Sound
<1>8. CASE got = "unauthorised"
  <2>1. accounts[u].made = "no" => ~panel'.mounted /\ Snapshots' = {}
    BY <1>1, <1>6, <1>8 DEF ConsentInv
  <2>2. ASSUME accounts[u].made = "yes", NEW k \in Kinds \ doubt, c.by = k PROVE Sound(u, k)'
    <3>1. Sound(u, k)
      BY <2>2, ConsentParts
    <3>2. \A e \in Snapshots' : e \in Snapshots
      BY <1>6, <1>8
    <3>3. \A e \in Own' : \/ e \in Own
                          \/ e.got # "ok" /\ c \in Own
      BY <1>3, <1>5, <1>8
    <3> QED BY <1>1, <1>8, <2>2, <3>1, <3>2, <3>3 DEF Sound
  <2> QED BY <1>1, <1>7, <1>8, <2>1, <2>2
<1>9. CASE got = "ok" /\ c.who \notin Users
  <2>1. c.path \in {"texts", "request", "confirm"} /\ accounts' = accounts /\ doubt' = doubt
    BY <1>1, <1>9 DEF Permitted
  <2>2. c.by \notin Kinds
    BY <1>2, <2>1
  <2>3. accounts[u].made = "no" => ~panel'.mounted /\ Snapshots' = {}
    BY <1>1, <1>6, <2>1 DEF ConsentInv
  <2> QED BY <1>7, <2>1, <2>2, <2>3
<1>10. CASE got = "ok" /\ c.who \in Users
  <2>1. c.who = u
    BY <1>10 DEF OneUser
  <2>2. RowOf(c) = accounts[u] /\ accounts'[u] = row
    BY <1>1, <1>2, <1>10, <2>1 DEF RowOf
  <2>3. RowChange(c, accounts[u], row) /\ Permitted(c)
    BY <1>1, <1>10, <2>2
  <2>4. CASE c.path = "delete"
    BY <2>2, <2>3, <2>4 DEF RowChange
  <2>5. CASE c.path = "register"
    <3>1. accounts[u].made = "no"
      BY <2>1, <2>2, <2>3, <2>5 DEF Permitted
    <3>2. ~panel.mounted /\ Snapshots = {}
      BY <3>1 DEF ConsentInv
    <3>3. Snapshots' = {}
      BY <1>6, <2>5, <3>2
    <3>4. Own = {}
      BY <3>2 DEF PageInv, NothingWithoutAView, HandledOnce
    <3>5. Own' = {}
      BY <1>5, <3>4
    <3> QED BY <1>1, <3>2, <3>3, <3>5 DEF Sound
  <2>6. ASSUME c.path \notin {"delete", "register"}
        PROVE  accounts'[u].made = "yes" /\ accounts[u].made = "yes"
    BY <2>1, <2>2, <2>3, <2>6 DEF RowChange, Permitted
  <2>7. ASSUME c.path \notin {"delete", "register", "consent"}, NEW k \in Kinds \ doubt'
        PROVE  Sound(u, k)'
    <3>1. doubt' = doubt /\ c.by \notin Kinds /\ row.consents = accounts[u].consents
      BY <1>1, <1>2, <1>10, <2>3, <2>7 DEF RowChange
    <3> QED BY <1>7, <2>2, <2>6, <2>7, <3>1
  <2>8. ASSUME c.path = "consent", NEW k \in Kinds \ doubt', k # c.by PROVE Sound(u, k)'
    <3>1. k \notin doubt /\ row.consents[k] = accounts[u].consents[k]
      BY <1>1, <1>10, <2>3, <2>8 DEF RowChange
    <3> QED BY <1>7, <2>2, <2>6, <2>8, <3>1
  <2>9. ASSUME c.path = "consent", c.by \in Kinds \ doubt' PROVE Sound(u, c.by)'
    <3>1. c.alive /\ Snapshots = {}
      BY <1>1, <1>10, <2>9
    <3>2. c \in Own
      BY <2>9, <3>1, Sorts DEF Own
    <3>3. c.by \in panel.busy
      BY <3>2, MountedFor
    <3>4. Snapshots' = {}
      BY <1>6, <2>9, <3>1
    <3>5. \A e \in Own' : e.by = c.by => e = d
      BY <1>5, <3>2 DEF PageInv, HandledOnce
    <3> QED BY <1>1, <1>3, <1>10, <2>2, <3>3, <3>4, <3>5 DEF Sound
  <2> QED BY <2>4, <2>5, <2>6, <2>7, <2>8, <2>9
<1> QED BY <1>8, <1>9, <1>10

\* Every step keeps it.
LEMMA ConsentSteps ==
    ASSUME OneUser, PageInv, ConsentInv, [Next]_vars
    PROVE  ConsentInv'
<1>1. CASE Next
  <2>1. ASSUME NEW c \in calls, Serve(c) PROVE ConsentInv'
    BY <2>1, ConsentServes
  <2>2. CASE Shows
    BY <2>2, ConsentShows
  <2>3. ASSUME NEW id \in ActionIds, NEW path \in Paths, NEW flag \in BOOLEAN,
               Begins(id, path, flag), Started(id, path)
        PROVE  ConsentInv'
    BY <2>3, ConsentBegins
  <2>4. ASSUME NEW c \in calls, NEW got \in Heard(c), ActionReturns(c, got) PROVE ConsentInv'
    BY <2>4, ConsentActs
  <2>5. ASSUME NEW c \in calls, SignOutFails(c) PROVE ConsentInv'
    BY <2>5, ConsentSignOut
  <2>6. ASSUME NEW c \in calls, NEW got \in Heard(c), ReadReturns(c, got) PROVE ConsentInv'
    BY <2>6, ConsentReads
  <2> QED BY <1>1, <2>1, <2>2, <2>3, <2>4, <2>5, <2>6, StepKinds
<1>2. CASE UNCHANGED vars
  BY <1>2 DEF vars, ConsentInv, Snapshots, Own
<1> QED BY <1>1, <1>2

\* It holds when the page opens: nothing is on the screen, and nothing was told.
LEMMA ConsentStarts ==
    ASSUME Init
    PROVE  ConsentInv
<1>1. PageInv /\ panel = Unmounted
  BY PageStarts
<1>2. ~panel.mounted
  BY <1>1, StartShapes
<1>3. Own = {}
  BY <1>1, <1>2 DEF PageInv, NothingWithoutAView, HandledOnce
<1>4. Snapshots = {}
  <2>1. calls = {Asked("load", "me", Sender(cookie, "me"), FALSE, 0)}
    BY DEF Init
  <2>2. Asked("load", "me", Sender(cookie, "me"), FALSE, 0).got = "waiting"
    BY DEF Asked
  <2> QED BY <2>1, <2>2 DEF Snapshots
<1> QED BY <1>2, <1>3, <1>4 DEF ConsentInv

\* What the view says of a consent is what the API has stored of it, except while
\* a request about it is out and after one whose answer was lost.
THEOREM Consents ==
    ASSUME OneUser
    PROVE  Spec => []ConsentsAreTheServers
<1>1. Init => PageInv /\ ConsentInv
  BY PageStarts, ConsentStarts
<1>2. PageInv /\ ConsentInv /\ [Next]_vars => PageInv' /\ ConsentInv'
  BY PageSteps, ConsentSteps
<1>3. PageInv /\ ConsentInv => ConsentsAreTheServers
  BY DEF PageInv, ConsentInv, ConsentsAreTheServers
<1> QED BY <1>1, <1>2, <1>3, PTL DEF Spec

=============================================================================
