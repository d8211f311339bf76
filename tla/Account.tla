------------------------------- MODULE Account -------------------------------
(* The account page in one browser tab and the account API it talks to.       *)
(*                                                                            *)
(* frontend/src/app/_account/AccountPage.tsx is one component with three      *)
(* views: a sentence while the first me/ is out, one of four forms while      *)
(* nobody is known to be signed in, and the account itself.  Every handler is *)
(* an async function: it sends a request, and goes on when the answer is      *)
(* there, whatever the visitor has done meanwhile.  A handler under way is a  *)
(* call; calls are served in any order, their answers arrive in any order,    *)
(* and a call may be refused, or lost on the way there or on the way back.    *)
(*                                                                            *)
(* The API behind it (backend/accounts/views.py, service.py) takes one step  *)
(* per request here: the statements of a request are in Sessions, Outbox and *)
(* Meter.                                                                    *)
EXTENDS Naturals, FiniteSets

CONSTANTS
    Users,      \* the accounts somebody may sign in to from this tab
    Nobody,     \* no account: the cookies carry no session
    MaxKeys,    \* bound: how often a meter can be linked
    MaxClicks   \* bound: how often the visitor presses something that sends

ASSUME AccountAssumption ==
    /\ Nobody \notin Users
    /\ MaxKeys \in Nat \ {0} /\ MaxClicks \in Nat

VARIABLES
    accounts,   \* what the API has stored, by account
    cookie,     \* the session the browser holds, and if its access token lives
    calls,      \* the requests under way, each with the handler that waits
    page,       \* the state of AccountPage
    panel,      \* the state of AccountView, while it is mounted
    form,       \* the state of the form on the screen, while there is one
    clicks,     \* how often the visitor has pressed something
    doubt,      \* history: kinds the screen may be behind on: Serve, ActionReturns
    shown       \* history: the meter keys that were on the screen

vars == <<accounts, cookie, calls, page, panel, form, clicks, doubt, shown>>

-----------------------------------------------------------------------------
(* What the identifiers in the code range over.                               *)

Kinds     == {"METER_LINK", "LEAD_GENERATION"}
OfMeter   == {"meter_link", "meter_unlink", "consumption_accept", "advice_claim"}
Plain     == {"export", "logout", "delete", "verify"}
ActionIds == Kinds \cup OfMeter \cup Plain
Reads     == {"texts", "status", "check"}
Forms     == {"sign_in", "register", "reset_request", "reset_confirm"}

(* The requests that need no session: forms, the texts and a mailed token.    *)
Open == {"login", "register", "refresh", "texts", "request", "confirm", "verify"}

(* `made` is whether the account exists: an address registered again after a *)
(* deletion is another account.  `key` is the meter link that works, if any, *)
(* of `issued` so far; `advice` the latest advice, and whether the meter was *)
(* found to contradict it when it was last asked.                            *)
AccountRow == [made : {"no", "yes", "gone"}, verified : BOOLEAN, consents : [Kinds -> BOOLEAN],
               key : 0..MaxKeys, issued : 0..MaxKeys,
               advice : {"none", "agrees", "disagrees"}]

NoRow == [made |-> "no", verified |-> FALSE, consents |-> [k \in Kinds |-> FALSE],
          key |-> 0, issued |-> 0, advice |-> "none"]

(* A request under way.  `by` is the handler that waits for it, `who` the     *)
(* account it is about, `flag` what the handler remembers, `alive` whether    *)
(* the component that sent it is still there, `seen` the row as the API       *)
(* answered from it.                                                          *)
Call == [by : ActionIds \cup Reads \cup Forms \cup {"load", "form_texts"},
         path : Open \cup {"me", "me_again", "me_after", "status", "check",
                           "consent", "claim", "accept", "link", "unlink",
                           "export", "resend", "logout", "delete"},
         who : Users \cup {Nobody}, flag : BOOLEAN, alive : BOOLEAN,
         got : {"waiting", "ok", "unauthorised"},
         seen : AccountRow, nr : 0..MaxClicks]

(* What AccountPage, AccountView and a form keep.                             *)
Cookie == [who : Users \cup {Nobody}, access : BOOLEAN]

Page == [status : {"loading", "signed_out", "signed_in"}, notice : BOOLEAN,
         confirmation : {"none", "deleted", "changed"}, view : Forms,
         me : [who : Users \cup {Nobody}, verified : BOOLEAN],
         reset : BOOLEAN, verification : {"none", "confirmed", "failed"},
         registered : BOOLEAN, token : Users, hash : {"none", "verify"}]

Panel == [mounted : BOOLEAN, consents : [Kinds -> BOOLEAN],
          busy : SUBSET ActionIds, failure : BOOLEAN, texts : BOOLEAN,
          status : {"unknown", "linked", "may", "may_not"},
          check : {"unknown", "no_advice", "agrees", "disagrees"},
          key : 0..MaxKeys, accepted : BOOLEAN, mail : BOOLEAN]

Form == [busy : BOOLEAN, sent : BOOLEAN, failure : BOOLEAN, token : BOOLEAN,
         texts : {"loading", "there", "failed"}]

Asked(by, path, who, flag, nr) ==
    [by |-> by, path |-> path, who |-> who, flag |-> flag, alive |-> TRUE,
     got |-> "waiting", seen |-> NoRow, nr |-> nr]

(* The account a request is about when the cookies are `k`.  An access token  *)
(* that has expired is no session to any route but refresh/.                  *)
Sender(k, path) == IF k.access \/ path = "refresh" THEN k.who ELSE Nobody

NoSession == [who |-> Nobody, access |-> FALSE]

Unmounted ==
    [mounted |-> FALSE, consents |-> [k \in Kinds |-> FALSE], busy |-> {},
     failure |-> FALSE, texts |-> FALSE, status |-> "unknown", check |-> "unknown",
     key |-> 0, accepted |-> FALSE, mail |-> FALSE]

FreshForm == [busy |-> FALSE, sent |-> FALSE, failure |-> FALSE,
              token |-> FALSE, texts |-> "loading"]

-----------------------------------------------------------------------------
(* The API: one step per request.                                             *)

\* may_link_meter
MayLink(a) == a.verified /\ a.consents["METER_LINK"]

RowOf(c) == IF c.who \in Users THEN accounts[c.who] ELSE NoRow

\* A session, or the account a form names; an address not taken; a link that is
\* allowed; an advice that a linked meter may contradict.
Permitted(c) ==
    LET a == RowOf(c) IN
    /\ c.path \notin {"texts", "request", "confirm"} => c.who \in Users
    /\ c.who \in Users => a.made = IF c.path = "register" THEN "no" ELSE "yes"
    /\ c.path = "link" => MayLink(a) /\ a.issued < MaxKeys
    /\ c.path = "accept" => a.advice # "none" /\ a.key # 0

\* Withdrawing METER_LINK revokes the link in the same transaction.
Consented(a, kind, granted) ==
    [a EXCEPT !.consents[kind] = granted,
              !.key = IF kind = "METER_LINK" /\ ~granted THEN 0 ELSE @]

\* A second link replaces the first.
Linked(a) == [a EXCEPT !.key = a.issued + 1, !.issued = a.issued + 1]

Unlinked(a) == [a EXCEPT !.key = 0]

Deleted(a) == [NoRow EXCEPT !.made = "gone", !.issued = a.issued]

\* register/ asks for both consents and records the ones that were given.
Registered(a) ==
    {[a EXCEPT !.made = "yes", !.consents = g] : g \in [Kinds -> BOOLEAN]}

\* The meter is asked anew every time, over whatever it has pushed by then.
Compared(a) ==
    IF a.advice = "none" THEN {a}
    ELSE {[a EXCEPT !.advice = v] :
             v \in {"agrees"} \cup (IF a.key # 0 THEN {"disagrees"} ELSE {})}

\* The rows a served request may leave behind.
After(c) ==
    LET a == RowOf(c) IN
    CASE c.path = "consent"  -> {Consented(a, c.by, c.flag)}
      [] c.path = "link"     -> {Linked(a)}
      [] c.path = "unlink"   -> {Unlinked(a)}
      [] c.path = "claim"    -> {[a EXCEPT !.advice = "agrees"]}
      [] c.path = "accept"   -> {[a EXCEPT !.advice = "agrees"]}
      [] c.path = "check"    -> Compared(a)
      [] c.path = "verify"   -> {[a EXCEPT !.verified = TRUE]}
      [] c.path = "delete"   -> {Deleted(a)}
      [] c.path = "register" -> Registered(a)
      [] OTHER               -> {a}

(* What the page was told of an account and has not looked at yet.            *)
Snapshots == {c \in calls : c.path \in {"me", "me_again", "me_after"} /\ c.got = "ok"}

Answered(c, got, row) == (calls \ {c}) \cup {[c EXCEPT !.got = got, !.seen = row]}

(* The API acts on the request, or finds no session under it.  The screen may *)
(* fall behind on a consent that a view which has gone asked for, or that is  *)
(* stored beside an account the page was told of and has not shown.           *)
Serve(c) ==
    /\ c.got = "waiting" /\ c.path # "texts"
    /\ \/ /\ Permitted(c)
          /\ \E a \in After(c) :
                /\ accounts' = IF c.who \in Users THEN [accounts EXCEPT ![c.who] = a]
                              ELSE accounts
                /\ calls' = Answered(c, "ok", a)
          /\ doubt' = IF c.path # "consent" THEN doubt
                      ELSE IF c.alive /\ Snapshots = {} THEN doubt \ {c.by}
                      ELSE doubt \cup {c.by}
       \/ /\ c.path \notin Open /\ RowOf(c).made # "yes"
          /\ calls' = Answered(c, "unauthorised", NoRow)
          /\ UNCHANGED <<accounts, doubt>>
    /\ UNCHANGED <<cookie, page, panel, form, clicks, shown>>

(* What the handler may hear of it.  "failed" is a connection that went, before *)
(* or after the API acted, a refusal (400, 403, 429, 5xx) or a body this page *)
(* cannot read: all of them end in the handler's catch.                       *)
Heard(c) ==
    {"failed"} \cup
        CASE c.got # "waiting"    -> {c.got}
          [] c.path = "texts"     -> {"ok"}
          [] c.path = "refresh"   -> {"unauthorised"}
          [] c.path = "confirm"   -> {"token"}
          [] OTHER                -> {}

-----------------------------------------------------------------------------
(* What the page does with a view.                                            *)

(* Components that go: their reads are dropped (every one is guarded by       *)
(* `alive`), their other handlers go on without a screen to show anything on. *)
Orphaned(S, bys) ==
    {IF c.by \in bys THEN [c EXCEPT !.alive = FALSE] ELSE c :
        c \in {d \in S : ~(d.by \in bys /\ d.by \in Reads \cup {"form_texts"})}}

OfPanel == ActionIds \cup Reads
OfForm  == Forms \cup {"form_texts"}

(* The answer of a request is what sets or clears the cookies.                *)
CookieAfter(c, got) ==
    CASE got = "ok" /\ c.path \in {"login", "register", "refresh"}
            -> [who |-> c.who, access |-> TRUE]
      [] got = "ok" /\ c.path \in {"logout", "delete"} -> NoSession
      [] got = "unauthorised" /\ c.path = "refresh"     -> NoSession
      [] OTHER -> cookie

Then(c, path) == Asked(c.by, path, Sender(CookieAfter(c, "ok"), path), c.flag, c.nr)

(* What a form asks for when it opens: the registration form shows the        *)
(* sentences it asks consent for.                                             *)
FormReads(view) ==
    IF view = "register" THEN {Asked("form_texts", "texts", Nobody, FALSE, 0)} ELSE {}

(* AccountView asks for the texts and the meter when it mounts.               *)
Mounted(row, registered) ==
    [Unmounted EXCEPT !.mounted = TRUE, !.consents = row.consents,
                      !.mail = registered]

PanelReads(k) == {Asked("texts", "texts", Nobody, FALSE, 0),
                  Asked("status", "status", Sender(k, "status"), FALSE, 0)}

(* setState({status: "signed_in", me}): the account that answered, in a new   *)
(* AccountView unless one is on the screen already.                           *)
ShowAccount(c, S, p) ==
    /\ page' = [p EXCEPT !.status = "signed_in", !.notice = FALSE,
                         !.me = [who |-> c.who, verified |-> c.seen.verified]]
    /\ IF panel.mounted
       THEN panel' = panel /\ calls' = S
       ELSE /\ panel' = Mounted(c.seen, p.registered)
            /\ calls' = Orphaned(S, OfForm) \cup PanelReads(cookie)
    /\ form' = FreshForm

(* setState(signedOut(notice)), with `p` the rest of what the page sets.  A   *)
(* form that was on the screen already stays what it was.                     *)
ShowForm(S, p) ==
    LET stays == page.status = "signed_out" /\ page.view = p.view IN
    /\ page'  = [p EXCEPT !.status = "signed_out"]
    /\ panel' = Unmounted
    /\ form'  = IF stays THEN form ELSE FreshForm
    /\ calls' = IF stays THEN S
                ELSE Orphaned(S, OfPanel \cup OfForm) \cup FormReads(p.view)

-----------------------------------------------------------------------------
(* The first load: me/, one refresh/ if that was a 401, me/ once more; then   *)
(* the confirmation token off the address bar, and me/ again to show it.      *)

Rest(c) == calls \ {c}

ThenVerify(S, asked, signedIn) ==
    IF page.hash = "verify"
    THEN S \cup {Asked("load", "verify", page.token, signedIn, asked.nr)}
    ELSE S

\* Mutant: a refresh/ that fails throws out of the load.
LoadThrows(c, got) ==
    /\ c.by = "load"
    /\ c.path \in {"me", "refresh", "me_again"}
    /\ cookie' = CookieAfter(c, got)
    /\ \/ /\ c.path = "me" /\ got = "unauthorised"
          /\ calls' = Rest(c) \cup {Then(c, "refresh")}
          /\ UNCHANGED <<page, panel, form>>
       \/ /\ c.path = "refresh"
          /\ calls' = Rest(c) \cup (IF got = "ok" THEN {Then(c, "me_again")} ELSE {})
          /\ UNCHANGED <<page, panel, form>>
       \/ /\ c.path # "refresh" /\ got = "ok"
          /\ ShowAccount(c, ThenVerify(Rest(c), c, TRUE), page)
       \/ /\ c.path # "refresh" /\ got = "failed"
          /\ ShowForm(ThenVerify(Rest(c), c, FALSE), [page EXCEPT !.notice = TRUE])
    /\ UNCHANGED <<accounts, clicks, doubt, shown>>

LoadSettles(c, got) ==
    /\ c.by = "load"
    /\ c.path \in {"me", "refresh", "me_again"}
    /\ cookie' = CookieAfter(c, got)
    /\ \/ /\ c.path = "me" /\ got = "unauthorised"
          /\ calls' = Rest(c) \cup {Then(c, "refresh")}
          /\ UNCHANGED <<page, panel, form>>
       \/ /\ c.path = "refresh" /\ got = "ok"
          /\ calls' = Rest(c) \cup {Then(c, "me_again")}
          /\ UNCHANGED <<page, panel, form>>
       \/ /\ c.path # "refresh" /\ got = "ok"
          /\ ShowAccount(c, ThenVerify(Rest(c), c, TRUE), page)
       \/ /\ got = "failed" \/ (got = "unauthorised" /\ c.path # "me")
          /\ ShowForm(ThenVerify(Rest(c), c, FALSE),
                      [page EXCEPT !.notice = c.path # "refresh" /\ got = "failed"])
    /\ UNCHANGED <<accounts, clicks, doubt, shown>>

\* Mutant: the sentence is set whatever the answer was.
VerifyBelieved(c, got) ==
    /\ c.by = "load" /\ c.path = "verify"
    /\ page' = [page EXCEPT !.hash = "none", !.verification = "confirmed"]
    /\ calls' = Rest(c)
    /\ UNCHANGED <<accounts, cookie, panel, form, clicks, doubt, shown>>

VerifyReturns(c, got) ==
    /\ c.by = "load" /\ c.path = "verify"
    /\ page' = [page EXCEPT !.hash = "none",
                            !.verification = IF got = "ok" THEN "confirmed" ELSE "failed"]
    /\ calls' = IF got = "ok" /\ c.flag THEN Rest(c) \cup {Then(c, "me_after")} ELSE Rest(c)
    /\ UNCHANGED <<accounts, cookie, panel, form, clicks, doubt, shown>>

(* The second me/ decides on the view whatever the visitor did meanwhile.     *)
MeAfterReturns(c, got) ==
    /\ c.by = "load" /\ c.path = "me_after"
    /\ IF got = "ok" THEN ShowAccount(c, Rest(c), page)
       ELSE ShowForm(Rest(c), [page EXCEPT !.notice = TRUE])
    /\ UNCHANGED <<accounts, cookie, clicks, doubt, shown>>

-----------------------------------------------------------------------------
(* The four forms.                                                            *)

Press == clicks < MaxClicks /\ clicks' = clicks + 1

(* The buttons that lead from one form to another; the one under a refused    *)
(* reset link gives the token up.                                             *)
Leads == [sign_in |-> {"register", "reset_request"}, register |-> {"sign_in"},
          reset_request |-> {"sign_in"},
          reset_confirm |-> IF form.token THEN {"reset_request"} ELSE {}]

SwitchView(view) ==
    /\ page.status = "signed_out" /\ view \in Leads[page.view]
    /\ Press
    /\ page' = [page EXCEPT !.view = view, !.confirmation = "none",
                            !.reset = @ /\ page.view # "reset_confirm"]
    /\ form' = FreshForm
    /\ calls' = Orphaned(calls, OfForm) \cup FormReads(view)
    /\ UNCHANGED <<accounts, cookie, panel, doubt, shown>>

Submit(view, path, who) ==
    /\ page.status = "signed_out" /\ page.view = view /\ ~form.busy
    /\ Press
    /\ form' = [form EXCEPT !.busy = TRUE, !.failure = FALSE, !.token = FALSE]
    /\ calls' = calls \cup {Asked(view, path, who, FALSE, clicks)}
    /\ UNCHANGED <<accounts, cookie, page, panel, doubt, shown>>

SignIn(who)   == Submit("sign_in", "login", who)
Register(who) == form.texts = "there" /\ Submit("register", "register", who)
RequestReset  == ~form.sent /\ Submit("reset_request", "request", Nobody)
ConfirmReset  == page.reset /\ Submit("reset_confirm", "confirm", Nobody)

FormFails(c, got) ==
    IF c.alive THEN [form EXCEPT !.busy = FALSE, !.failure = TRUE, !.token = got = "token"]
    ELSE form

(* login/ and register/ are followed by me/, and it is me/ that signs in: the *)
(* handler calls its parent also when its form has gone.                      *)
SignInReturns(c, got) ==
    /\ c.by \in {"sign_in", "register"}
    /\ cookie' = CookieAfter(c, got)
    /\ \/ /\ c.path # "me" /\ got = "ok"
          /\ calls' = Rest(c) \cup {Then(c, "me")}
          /\ UNCHANGED <<page, panel, form>>
       \/ /\ c.path = "me" /\ got = "ok"
          /\ ShowAccount(c, Rest(c), [page EXCEPT
                                                 !.registered = @ \/ c.by = "register"])
       \/ /\ got # "ok"
          /\ calls' = Rest(c) /\ form' = FormFails(c, got)
          /\ UNCHANGED <<page, panel>>
    /\ UNCHANGED <<accounts, clicks, doubt, shown>>

ResetReturns(c, got) ==
    /\ c.by \in {"reset_request", "reset_confirm"}
    /\ calls' = Rest(c)
    /\ \/ /\ c.by = "reset_request" /\ got = "ok"
          /\ form' = IF c.alive THEN [form EXCEPT !.busy = FALSE, !.sent = TRUE] ELSE form
          /\ UNCHANGED page
       \/ /\ c.by = "reset_confirm" /\ got = "ok"
          /\ page' = [page EXCEPT !.reset = FALSE,
                                  !.confirmation = "changed", !.view = "sign_in"]
          /\ form' = FreshForm
       \/ got # "ok" /\ form' = FormFails(c, got) /\ UNCHANGED page
    /\ UNCHANGED <<accounts, cookie, panel, clicks, doubt, shown>>

FormTextsReturn(c, got) ==
    /\ c.by = "form_texts"
    /\ form' = [form EXCEPT !.texts = IF got = "ok" THEN "there" ELSE "failed"]
    /\ calls' = Rest(c)
    /\ UNCHANGED <<accounts, cookie, page, panel, clicks, doubt, shown>>

-----------------------------------------------------------------------------
(* AccountView: every button marks its own id busy and sends a request.  The  *)
(* button that asks "are you sure" and the fields (a password, an advice      *)
(* link) are the visitor's own: there is always a next press that sends.      *)

StatusOf(row) == IF row.key # 0 THEN "linked" ELSE IF MayLink(row) THEN "may" ELSE "may_not"
CheckOf(row)  == IF row.advice = "none" THEN "no_advice" ELSE row.advice

(* setMeterStatus: the effect on it drops the check that was asked for the    *)
(* status before, and asks again when there is a link.                        *)
WithCheck(S, status) ==
    {d \in S : d.by # "check"} \cup
        IF status = "linked" THEN {Asked("check", "check", Sender(cookie, "check"), FALSE, 0)}
        ELSE {}

Start(id, path, flag) ==
    /\ Press
    /\ panel' = [panel EXCEPT !.busy = @ \cup {id}, !.failure = FALSE]
    /\ calls' = calls \cup {Asked(id, path, Sender(cookie, path), flag, clicks)}
    /\ UNCHANGED <<accounts, cookie, page, form, doubt, shown>>

(* Taking back works without the sentence, giving does not.                   *)
MayToggle(kind) ==
    /\ panel.mounted /\ kind \notin panel.busy
    /\ panel.consents[kind] \/ panel.texts

\* Mutant: the row shows the new state before the API has it.
ToggleFirst(kind) ==
    /\ MayToggle(kind) /\ Press
    /\ panel' = [panel EXCEPT !.busy = @ \cup {kind}, !.failure = FALSE,
                             !.consents[kind] = ~@]
    /\ calls' = calls \cup {Asked(kind, "consent", Sender(cookie, "consent"),
                                  ~panel.consents[kind], clicks)}
    /\ UNCHANGED <<accounts, cookie, page, form, doubt, shown>>

Toggle(kind) == MayToggle(kind) /\ Start(kind, "consent", ~panel.consents[kind])

MeterBusy == panel.busy \cap OfMeter # {}

\* Mutant: a key on the screen does not put the rest of the block away.
OffersBeside(status) == panel.mounted /\ ~MeterBusy /\ panel.status = status

(* A key on the screen puts the rest of the meter block away.                 *)
Offers(status) ==
    panel.mounted /\ ~MeterBusy /\ panel.key = 0 /\ panel.status = status

OffersLink   == Offers("may")
OffersUnlink == Offers("linked")
OffersClaim  == Offers("linked") /\ panel.check = "no_advice"
OffersAccept == Offers("linked") /\ panel.check = "disagrees"

LinkAction   == OffersLink   /\ Start("meter_link", "link", FALSE)
UnlinkAction == OffersUnlink /\ Start("meter_unlink", "unlink", FALSE)
ClaimAction  == OffersClaim  /\ Start("advice_claim", "claim", FALSE)
AcceptAction == OffersAccept /\ Start("consumption_accept", "accept", FALSE)

(* Export, sign out, delete and resend wait until nothing is under way.       *)
PlainAction(id, path) == panel.mounted /\ panel.busy = {} /\ Start(id, path, FALSE)

Download           == PlainAction("export", "export")
SignOut            == PlainAction("logout", "logout")
Remove             == PlainAction("delete", "delete")
ResendConfirmation == ~page.me.verified /\ PlainAction("verify", "resend")

\* Mutant: one shared busy value, cleared by whichever handler ends first.
DoneAll(p, c) == [p EXCEPT !.busy = {}]

Done(p, c) == [p EXCEPT !.busy = @ \ {c.by}]

(* What an answer changes in the view that waited for it.                     *)
Updated(c) ==
    CASE c.path = "consent" -> [panel EXCEPT !.consents[c.by] = c.seen.consents[c.by]]
      [] c.path = "link"    -> [panel EXCEPT !.key = c.seen.key]
      [] c.path = "unlink"  -> [panel EXCEPT !.key = 0]
      [] c.path = "accept"  -> [panel EXCEPT !.accepted = TRUE]
      [] c.path = "resend"  -> [panel EXCEPT !.mail = TRUE]
      [] c.path = "status"  -> [panel EXCEPT !.status = StatusOf(c.seen)]
      [] c.path = "check"   -> [panel EXCEPT !.check = CheckOf(c.seen)]
      [] OTHER              -> panel

(* The request a handler still has to make after this answer.                 *)
Follows(c) ==
    CASE c.path \in {"link", "unlink"}  -> {Then(c, "status")}
      [] c.path \in {"claim", "accept"} -> {Then(c, "check")}
      [] OTHER -> {}

ActionReturns(c, got) ==
    /\ c.by \in ActionIds \ {"logout", "delete"}
    /\ LET more == IF got = "ok" THEN Follows(c) ELSE {}
           after == IF got = "ok" THEN Updated(c) ELSE [panel EXCEPT !.failure = TRUE]
       IN  /\ panel' = IF ~c.alive THEN panel ELSE IF more = {} THEN Done(after, c) ELSE after
           /\ calls' = IF c.alive /\ got = "ok" /\ c.path = "status"
                       THEN WithCheck(Rest(c), StatusOf(c.seen)) ELSE Rest(c) \cup
                            {[d EXCEPT !.alive = c.alive] : d \in more}
    /\ doubt' = IF c.path = "consent" /\ c.alive /\ c.got = "ok" /\ got # "ok"
                THEN doubt \cup {c.by} ELSE doubt
    /\ shown' = IF c.alive /\ got = "ok" /\ c.path = "link"
                THEN shown \cup {<<c.who, c.seen.key>>} ELSE shown
    /\ UNCHANGED <<accounts, cookie, page, form, clicks>>

\* Mutant: a refused sign-out leaves its button disabled.
SignOutForgets(c, got) ==
    /\ c.by \in {"logout", "delete"}
    /\ cookie' = CookieAfter(c, got)
    /\ IF got = "ok"
       THEN ShowForm(Rest(c), [page EXCEPT !.view = "sign_in", !.registered = FALSE,
                                           !.notice = FALSE, !.confirmation = "none"])
       ELSE /\ panel' = IF c.alive THEN [panel EXCEPT !.failure = TRUE] ELSE panel
            /\ calls' = Rest(c)
            /\ UNCHANGED <<page, form>>
    /\ UNCHANGED <<accounts, clicks, doubt, shown>>

(* onSignedOut is a call of the parent: it is made also when the view that    *)
(* asked has gone.                                                            *)
SignOutReturns(c, got) ==
    /\ c.by \in {"logout", "delete"}
    /\ cookie' = CookieAfter(c, got)
    /\ IF got = "ok"
       THEN ShowForm(Rest(c), [page EXCEPT !.view = "sign_in",
                                           !.registered = FALSE, !.notice = FALSE,
                                           !.confirmation = IF c.by = "delete"
                                                            THEN "deleted" ELSE "none"])
       ELSE /\ panel' = IF c.alive THEN Done([panel EXCEPT !.failure = TRUE], c) ELSE panel
            /\ calls' = Rest(c)
            /\ UNCHANGED <<page, form>>
    /\ UNCHANGED <<accounts, clicks, doubt, shown>>

ReadReturns(c, got) ==
    /\ c.by \in Reads
    /\ LET ok == got = "ok"
           status == IF ok THEN StatusOf(c.seen) ELSE "unknown"
       IN  /\ panel' =
                 CASE c.by = "texts"  -> [panel EXCEPT !.texts = ok]
                   [] c.by = "status" -> [panel EXCEPT !.status = status]
                   [] c.by = "check"  -> [panel EXCEPT !.check =
                                            IF ok THEN CheckOf(c.seen) ELSE "unknown"]
           /\ calls' = IF c.by = "status" THEN WithCheck(Rest(c), status) ELSE Rest(c)
    /\ UNCHANGED <<accounts, cookie, page, form, clicks, doubt, shown>>

-----------------------------------------------------------------------------

(* The page opens on any address: the recovery fragment is read and wiped     *)
(* before the first me/ is sent.                                              *)
FirstPage(hash, u) ==
    [status |-> "loading", notice |-> FALSE, confirmation |-> "none",
     view |-> IF hash = "reset" THEN "reset_confirm" ELSE "sign_in",
     me |-> [who |-> Nobody, verified |-> FALSE],
     reset |-> hash = "reset", verification |-> "none", registered |-> FALSE, token |-> u,
     hash |-> IF hash = "reset" THEN "none" ELSE hash]

(* An account may be new or have a past: a confirmed address, a consent that  *)
(* was given, and the link it allows.                                         *)
WithPast(v, g, k) == [NoRow EXCEPT !.made = "yes", !.verified = v, !.consents["METER_LINK"] = g,
                                   !.key = k, !.issued = k]

Init ==
    /\ \E hash \in {"none", "reset", "verify"}, u \in Users : page = FirstPage(hash, u)
    /\ cookie \in {NoSession} \cup [who : Users, access : BOOLEAN]
    /\ accounts \in [Users -> {NoRow} \cup
          {WithPast(v, g, k) : v \in BOOLEAN, g \in BOOLEAN, k \in {0, 1}}]
    /\ \A u \in Users :
          /\ accounts[u].key # 0 => MayLink(accounts[u])
          /\ u = cookie.who \/ (page.hash = "verify" /\ u = page.token) => accounts[u].made = "yes"
    /\ calls = {Asked("load", "me", Sender(cookie, "me"), FALSE, 0)}
    /\ panel = Unmounted /\ form = FreshForm
    /\ clicks = 0 /\ doubt = {} /\ shown = {}

Answer == \E c \in calls : Serve(c)

Return ==
    \E c \in calls : \E got \in Heard(c) :
        \/ LoadSettles(c, got)   \/ VerifyReturns(c, got) \/ MeAfterReturns(c, got)
        \/ SignInReturns(c, got) \/ ResetReturns(c, got)  \/ FormTextsReturn(c, got)
        \/ ActionReturns(c, got) \/ SignOutReturns(c, got) \/ ReadReturns(c, got)

Visit ==
    \/ \E view \in Forms : SwitchView(view)
    \/ \E who \in Users : SignIn(who) \/ Register(who)
    \/ RequestReset \/ ConfirmReset
    \/ \E kind \in Kinds : Toggle(kind)
    \/ LinkAction \/ UnlinkAction \/ ClaimAction \/ AcceptAction
    \/ Download \/ SignOut \/ Remove \/ ResendConfirmation

Next == Answer \/ Return \/ Visit

Spec == Init /\ [][Next]_vars

(* A browser ends every request in an answer or an error, and runs what waits *)
(* for it.  Nothing is assumed of the visitor, nor of the API's good will.    *)
FairSpec == Spec /\ WF_vars(Return)

-----------------------------------------------------------------------------

(* Types; the account is on the screen exactly while a view of it is mounted, *)
(* and the form that needs a token has one.                                   *)
TypeOK ==
    /\ accounts \in [Users -> AccountRow]
    /\ cookie \in Cookie
    /\ calls \subseteq Call
    /\ page \in Page /\ panel \in Panel /\ form \in Form
    /\ panel.mounted <=> page.status = "signed_in"
    /\ page.status = "signed_out" /\ page.view = "reset_confirm" => page.reset
    /\ clicks \in 0..MaxClicks
    /\ doubt \subseteq Kinds
    /\ shown \subseteq Users \X (1..MaxKeys)

(* The handlers of the view that have not ended.                              *)
Own == {c \in calls : c.alive /\ c.by \in ActionIds}

(* What is disabled is what is under way: the busy ids of the view are the    *)
(* handlers of the view that have not ended, each once.  One shared value     *)
(* cleared by whichever handler ends first would enable a button whose        *)
(* request is still out.                                                      *)
BusyIsUnderWay ==
    /\ panel.busy = {c.by : c \in Own}
    /\ Cardinality(Own) = Cardinality(panel.busy)

(* What the view says of a consent is what the API has stored of it, except   *)
(* while a request about it is out and after one whose answer was lost.       *)
ConsentsAreTheServers ==
    \A k \in Kinds :
        (/\ panel.mounted /\ cookie.who # Nobody /\ accounts[page.me.who].made = "yes"
         /\ k \notin panel.busy \cup doubt)
            => panel.consents[k] = accounts[page.me.who].consents[k]

(* "Uw e-mailadres is bevestigd" is said of an address that is confirmed, and *)
(* is not taken back when a later question fails.                             *)
ConfirmedIsTrue ==
    [][/\ page.verification = "confirmed" => page'.verification = "confirmed"
       /\ page'.verification = "confirmed" =>
              accounts'[page.token].verified \/ accounts'[page.token].made = "gone"]_vars

(* A link that replaces another never replaces one whose key was on the       *)
(* screen: its readings would be erased under a device that is running.  Only *)
(* a request that is still out from a view that has gone can do that.         *)
ShownKeysAreKept ==
    [][\A u \in Users :
          accounts'[u].key \notin {0, accounts[u].key} /\ accounts[u].key # 0
              => \/ <<u, accounts[u].key>> \notin shown
                 \/ \E c \in calls : c.path = "link" /\ c.got = "waiting" /\ ~c.alive]_vars

(* The inductive invariants the proofs rest on, checked by TLC as well.       *)

(* Which handler makes which request, and what an answer of it holds.         *)
WellMade(c) ==
    /\ c.path = "consent" <=> c.by \in Kinds
    /\ c.path = "link" => c.by = "meter_link"
    /\ c.path = "unlink" => c.by = "meter_unlink"
    /\ c.path = "status" => c.by \in {"status", "meter_link", "meter_unlink"}
    /\ c.path \in {"me", "me_again", "me_after"} => c.by \in {"load", "sign_in", "register"}
    /\ c.by = "load" => c.path \in {"me", "refresh", "me_again", "verify", "me_after"}
    /\ c.path = "verify" => c.by = "load" /\ c.who = page.token
    /\ c.by = "status" => c.path = "status"
    /\ c.by \in Reads => c.alive
    /\ c.got = "ok" /\ c.path \notin {"request", "confirm"} => c.who \in Users
    /\ c.got = "ok" /\ c.path = "link" =>
          c.seen.key # 0 /\ c.seen.key <= accounts[c.who].issued

CallsAreMade == \A c \in calls : WellMade(c)

(* A view that is not there waits for nothing and shows nothing.              *)
NothingWithoutAView ==
    ~panel.mounted => /\ panel.busy = {} /\ panel.key = 0
                      /\ \A c \in calls : c.by \notin Reads

(* A disabled button has one handler under way, and the meter one at a time.  *)
HandledOnce ==
    /\ panel.busy = {c.by : c \in Own}
    /\ \A c, d \in Own : c.by = d.by \/ {c.by, d.by} \subseteq OfMeter => c = d

PageInv ==
    /\ TypeOK
    /\ page.view = "reset_confirm" => page.reset
    /\ panel.mounted => page.me.who \in Users
    /\ CallsAreMade /\ NothingWithoutAView /\ HandledOnce

(* The load goes through its requests once, and verifies its token once.      *)
WasConfirmed(u) == accounts[u].verified \/ accounts[u].made = "gone"

LoadInv ==
    /\ \A c, d \in calls : c.by = "load" /\ d.by = "load" => c = d
    /\ \A c \in calls : c.by = "load" /\ page.verification # "none" => c.path = "me_after"
    /\ \A c \in calls : c.path = "verify" /\ c.got = "ok" => WasConfirmed(page.token)
    /\ page.verification = "confirmed" => WasConfirmed(page.token)

(* Once the key that works has been on the screen no view is about to replace *)
(* it: the one that showed it puts the button away, and a later one hears of  *)
(* a link before it offers anything.                                          *)
WasShown(u) == accounts[u].key # 0 /\ <<u, accounts[u].key>> \in shown

NoOfferToLink ==
    \/ panel.key # 0
    \/ /\ panel.status # "may"
       /\ \A c \in calls : c.path = "status" /\ c.alive /\ c.got = "ok" =>
              StatusOf(c.seen) # "may"

KeyInv ==
    /\ \A u \in Users : accounts[u].key <= accounts[u].issued
    /\ \A p \in shown : p[2] <= accounts[p[1]].issued
    /\ panel.key # 0 => \A c \in Own : c.by # "meter_unlink"
    /\ \A u \in Users : WasShown(u) =>
          /\ NoOfferToLink
          /\ \A c \in Own : c.path = "link" => c.got = "ok"

(* Where nothing is in doubt, the view, the snapshots it may still look at    *)
(* and the consents under way agree with what the API has stored.             *)
ConsentInv ==
    \A u \in Users :
        /\ accounts[u].made = "no" => ~panel.mounted /\ Snapshots = {}
        /\ accounts[u].made = "yes" => \A k \in Kinds \ doubt :
              LET stored == accounts[u].consents[k] IN
              /\ panel.mounted /\ k \notin panel.busy => panel.consents[k] = stored
              /\ \A c \in Snapshots : c.seen.consents[k] = stored
              /\ \A c \in Own : c.by = k =>
                    (IF c.got = "ok" THEN c.seen ELSE panel).consents[k] = stored

(* One person uses the tab.                                                   *)
OneUser == \A u, v \in Users : u = v

(* The sentence "Uw gegevens worden opgehaald" does not stay.                 *)
LoadingEnds == <>(page.status # "loading")

(* Once the visitor stops pressing, every button that was disabled comes back *)
(* or its view goes: no handler ends without clearing its own id.             *)
BusyEnds == panel.busy # {} ~> panel.busy = {}

-----------------------------------------------------------------------------
(* A statement of the source that the code does not keep.                     *)

(* "Cleared on unlinking so a stale key never survives past the link it       *)
(* belonged to": when nothing is under way, the key shown is the working one. *)
ShownKeyWorks ==
    panel.mounted /\ calls = {} /\ doubt = {} /\ panel.key # 0
        => panel.key = accounts[page.me.who].key
=============================================================================
