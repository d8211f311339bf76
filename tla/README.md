# Ampeer in TLA+

Ampeer advises Dutch households on a home battery. A static Next.js site talks
to a Django REST API; the API keeps accounts, stored advice and, for households
that link a meter, their quarter-hour readings in PostgreSQL; a kernel simulates
a year of a household with and without a battery; systemd timers run the
commands that send mail, purge rows and fold old readings. This directory holds
the TLA+ model of that program: what its parts promise, what was checked with
TLC and what is proved with TLAPS.

Contents: [parts](#the-parts-of-the-system) ·
[modules](#modules-and-the-code-they-model) ·
[runs](#what-the-runs-show) · [fairness](#fairness) · [proofs](#proofs) ·
[findings](#where-code-and-text-disagree) · [not modelled](#what-is-not-modelled) ·
[plan](#plan) · [how to run](#running-it)

## The parts of the system

The hard part of this program is not in any one function. Every request of the
API is a database session of its own. PostgreSQL runs it at READ COMMITTED,
`ATOMIC_REQUESTS` is off, and gunicorn serves several workers while the timers
run their commands beside them. What the code promises (a token that is
exchanged once, a link that works once, a reading that is counted once) rests on
which statements share a transaction, which rows are locked, and what a
statement's snapshot shows. That is what the models are about first.

| Part | State | Operations | Talks to | Hard because | Correct when |
|---|---|---|---|---|---|
| Refresh sessions (`accounts/tokens.py`, views, `purge_expired_sessions`) | `RefreshSession` rows: rotated, revoked, expired | login, refresh with reuse detection, logout, revocation by a reset, purge | browser cookies; the password reset | two tabs refresh at once; a multi-row UPDATE races a row lock; deadlocks | one successor per token; a replay is recognised, and answered once deadlocks end; evidence is kept until expiry |
| Recovery links and the mail outbox (`recovery.py`, `send_outbound_mail`, `mailer.py`) | `OneTimeToken`, `OutboundMail`; the provider's idempotency keys | ask for a mail, present a link, claim / mint / send / defer a row, purge, deletion | the mail provider, over HTTP | lost answers, retries, crash between answer and commit, two runs of the command | a link works once; no digest of a mail nobody took; every row leaves |
| Meter links and readings (`service.py`, `meter.py`, meter views, `purge_meter_readings`) | `Consent`, `MeterLink`, `QuarterReading`, `HourAggregate` | grant, withdraw, link, unlink, push, fold | the household's device | push, unlink and fold of one link interleave; deadlock; replayed buffers | one link works; a link is emptied when it stops; the fold loses and repeats nothing; old quarters leave |
| Account deletion, export, consent (`service.py`) | every table of the account, by CASCADE | delete, export | all of the above | inserts in flight during the CASCADE | nothing of a deleted account remains |
| Registration | `User`, first session, first mail | register | sessions, outbox | writes that are not one transaction | no half account |
| Sign-in lockout | django-axes' tables | count, lock, release | login | counting by client address | a lockout ends |
| Cookie authentication, CSRF | none | check a request | sessions | – | – |
| Quarter grid and window (`window.py`) | none (functions) | place a reading on the year's grid | readings | clock changes, leap years | each quarter has one place |
| Stored advice (`advice/models.py`, `service.py`, `purge_expired_advice`) | `StoredAdvice`, `AuditEvent` | create, look up, claim, purge | sessions, kernel | expiry against purge and claim | an expired advice is never served; the log only grows |
| Production cache, counters | `ProductionCache`, `DailyCounter` | look up, fall back, store, bump | PVGIS, over HTTP | concurrent upserts, a failing provider | no count is lost |
| Simulation kernel (`ampeer_sim`) | battery state inside one run | charge, discharge, plan a day, balance | advice | clamps and order of flows over 35 040 quarters | energy is conserved; the state of charge stays in its bounds |
| Advice rules (`ampeer_advice`) | none (functions) | choose a size, grade confidence | kernel | thresholds | – |
| Account page (`app/_account`, `lib/accounts.ts`) | the view, busy ids, consents, meter key and status on the screen; forms | load with one refresh, sign in, register, reset, toggle, link, unlink, claim, accept, sign out, delete | API, cookies | a handler goes on when its answer comes, whatever was pressed meanwhile; answers are late, lost, or for a view that has gone | the page shows what the API has, and every disabled button comes back |
| Question flow (`app/berekenen`, `app/_flow`) | the answers in sessionStorage and in the module, the position, the field's draft, counters | type, choose, on, back, submit, leave, reload | sessionStorage, API | stored answers come back one by one; a computation ends after the visitor left; storage is full or denied | what the form went past is answered, what is shown is what is stored and sent, every wait ends |
| Advice page and plate (`app/advies`, `components/band`, `components/carpet`, `advice/series.py`) | the advice, open panels, the drawing of the year, the cursor | arrive, draw, point, move, open, copy | API | one shape check guards all of React; two byte arrays packed in Python and read in TypeScript; frames against a changing preference | only what the shape check does not look at can blank the page; each quarter drawn and read is the household's |
| Site shell (`app/_shell`) | consent and theme in localStorage; script, switch and root attribute per document | answer, take back, pick, open, close | localStorage, the measurement script | tabs share an answer and do not hear of it; storage refuses | no document sends after its visitor's no |
| Charts and static pages; API input and layout; deployment; profile ingest | – | – | – | – | outside the model, see below |

How they interact: a password reset (recovery link) revokes all refresh
sessions; a withdrawal of the meter consent unlinks the meter in its own
transaction; deletion removes every row of an account by CASCADE; registration
issues a session and enqueues a mail; the fit over readings feeds the kernel;
the account page sees the three through the account API and the flow and the
advice page see the kernel through theirs, one request and one answer at a time;
everything else is separated by the account a row belongs to, which is why one
or two accounts are enough in an instance.

## Modules and the code they model

| Module | What it is |
|---|---|
| `RefreshContract` | abstract: what refresh sessions promise, each request at one instant |
| `Sessions` | refresh sessions, statement by statement |
| `SessionsProofs`, `SessionsRefinement` | theorems about `Sessions`; that it implements `RefreshContract` |
| `Outbox` | recovery links, the outbox, the command that mails, the provider |
| `RecoveryContract` | abstract: what recovery links and their mail promise, each request, message and run at one instant |
| `OutboxProofs` | theorems about `Outbox`; that it implements `RecoveryContract` |
| `Meter` | one household's consent, links, pushes and the fold |
| `MeterContract` | abstract: what a household is promised about its meter, each request, push and fold at one instant |
| `MeterProofs` | theorems about `Meter`; that it implements `MeterContract` |
| `Account` | the account page in one tab, and the account API it talks to, one step per request |
| `AccountProofs` | theorems about `Account` |
| `Flow` | the question flow in one tab, to the page with the advice |
| `FlowProofs` | theorems about `Flow` |
| `AdvicePage` | the page of one advice; extends `Bands` and `Carpet` |
| `AdvicePageProofs` | theorems about `AdvicePage`, and about the functions of `Bands` and `Carpet` |
| `Bands`, `Carpet` | functions: where a band stands on its axis; how a year is packed, unpacked, coloured, pointed at |
| `Shell` | the consent question and the theme, in several tabs over one storage |
| `ShellProofs` | theorems about `Shell` |
| `MCSessions`, `MCOutbox`, `MCMeter` | symmetry sets for TLC's instances |
| `MCAccount`, `MCFlow`, `MCAdvicePage` | the page's instance; the sessions and the bodies TLC starts from |

### One idea of the database

`Sessions`, `Outbox` and `Meter` use the same abstraction of PostgreSQL at READ
COMMITTED. One action is one statement. A statement sees what was committed when
it began, and where it waits for a row it looks at the row again when it has it
(a row that no longer satisfies its WHERE is skipped, a row it never saw is not
added). What a transaction has written is invisible to the others until its
commit, so writes that nobody can see yet are kept in the record of the process,
or are folded into the commit action where nothing can come between. Locked rows
are explicit (`lock`, `claimed`) or read off the process records (`held`,
`revokes`, `quarters`, `spans`, `Updated`, `Deleted` in `Meter`). Foreign keys
are deferred, as Django makes them on PostgreSQL: an INSERT asks for the row it
refers to at the commit and not before. A process may die at every step, and
PostgreSQL rolls back what it had not committed; of two transactions that wait
for each other it kills one.

Two simplifications differ per module. `Sessions` takes the rows of a multi-row
UPDATE or DELETE one at a time (`todo`, `LockNext`), because the deadlock between
two replays lives there. `Outbox` and `Meter` let such a statement wait for all
of its rows and then take them at once: it loses the deadlocks between the rows of
two such statements, each of which ends with one of them rolled back, a
behaviour `Die` and `Abort` have anyway. The deadlocks between one statement and
another (`Deadlocked` in `Meter`) are there.

### Sessions

`stored`, `rotated`, `revoked` and `expired` are the columns of `RefreshSession`
as sets of tokens. `rotate` (tokens.py) is `Present` (the transaction opens), `LockRow` (SELECT FOR
UPDATE), then `Exchange` (rotated_at, the successor and the commit) or
`RevokeAll`, `LockNext` and `CommitReuse`: the exception is raised after the
block, so the revocation stands. Login is `Authenticate` (the password is checked, the
version it saw is kept in `seen`) and `IssueAtLogin`; the reset is `BeginReset`,
`LockNext`, `CommitReset`; logout is `BeginLogout`, which reads the row, and
`Revoke`, which writes one column; the purge is `BeginPurge`, `LockNext`,
`CommitPurge`. `owner`, `parent` and `era` are history. `RefreshContract` has a
token's standing only (live, exchanged, ended, forgotten) and requests that act
at one instant; `SessionsRefinement` gives the mapping.

### Outbox

`mail` is the outbox table, `link` the `OneTimeToken` table, `accepted` and
`inbox` the provider. `Ask` is the look of `enqueue`, `Enqueue` its insert;
`LockLink`, `Confirm`, `Abandon` are the two confirmations. A run of the command
takes a row (`Claim`, SKIP LOCKED), opens the savepoint and supersedes
(`BeginMint`), inserts the link (`Mint`), and the provider takes the message
(`Accept`, whose answer may be lost) or not (`Refuse`); `CommitSent` deletes the
row, `Defer` rolls the savepoint back and puts the row off, or gives up on it
when it is old or the refusal is a lasting one.

The provider is external. Its rule, that it drops a message with a key it has
seen and answers as for the first, is taken from the comments of
`send_outbound_mail` and `mailer.py`; a provider that answered such a key with an
error would turn the finding below into a row that is retried until it is given
up on. How long it remembers a key is not modelled: the keys last as long as the
behaviour, which matches retries inside the first day.

`RecoveryContract` sees of a row of the outbox whether it waits, has failed or is
gone, and for whom and what it is (`Letters`); of a link and the provider it sees
what `Outbox` has. The savepoint, the claims and the delays are not in it: an
order, an acceptance, a delivery that supersedes, a use and a deletion are one
step each.

### Meter

`reading[l][m]` is which write of quarter `m` stands in the table under link `l`
(0: none), so a row that was deleted and written again is another row, as its
primary key would be. `hours[l][m]` is how often quarter `m` has been added to
its hour: the sums of kWh and the column `quarters` are sums over it. `stored` is
history. `request` is the household's browser: `MayLink` (the consent, outside
the transaction), `Look` and `Hold` (SELECT FOR UPDATE: snapshot, and rows), `EraseQuarters`,
`EraseHours`, then `Unlinked` (commit) or `LookAgain`, `Supersede` (the UPDATE)
and `Linked` (commit). A withdrawal is `unlink_meter` inside a transaction that
also writes the consent; a grant made after it was stamped outlives it (`later`).
`device` is the push: `Authenticate`, and `Store` at its commit. `fold` is
`purge_meter_readings` for one link: `ReadQuarters`, `ReadHours`, `WriteHours`,
`DeleteQuarters`, and the commit `Folded`. The hours it inserts refer to the
link's row, and that foreign key is deferred: until the commit nobody waits for
a new hour or sees it (`EraseHours` passes it by), and at the commit the fold
waits for whoever holds the link FOR UPDATE. An erasure and a fold can wait for
each other in two ways (`ErasureWaits`, `FoldWaits`): for the quarters the fold
has deleted against the link's row at its commit, and for an hour it has updated
against the quarters the erasure has deleted. `BreakDeadlock` kills one of the two.
`horizon` is
how far the retention has come; a push may bring a quarter of any age, since
nothing in the serializer bounds it.

`MeterContract` has the tables and none of the processes. A link stops in one
step, with everything under it; a push adds quarters that were not there; a fold
moves quarters that are past the retention to their hours, each once. `Straggle`
is what the code leaves of that after a link has stopped: a fold that had read
its quarters may still remove rows and leave hours under that link, and touches
no other.

### One idea of the browser

The other four modules are pages. One action is one event as the browser runs
it: a handler up to its `await`, an answer and what the handler does with it, a
frame, a render. Nothing interrupts an event; anything may come between two.
Requests under way are records in a set (`calls`), so answers arrive in any
order or not at all, and a record keeps what its handler remembers and whether
the component that sent it is still on the screen.

### Account

`page`, `panel` and `form` are the states of `AccountPage`, `AccountView` and
the form there is; `calls` the handlers that wait, `cookie` the browser's
session, `accounts` what the API has stored. `Serve` is a request at the API, with
its whole effect in one step: who asks (`Sender`, `Permitted`), the row before and
after it (`RowOf`, `After` and the operators it is made of: `Consented`, `Linked`,
`Unlinked`, `Deleted`, `Registered`, `Compared`) and the cookie (`CookieAfter`),
translated from `accounts/views.py`, `service.py`, `authentication.py` and
`cookies.py`. `Heard` is what its handler
may be told, which includes a failure after the API acted. `LoadSettles`,
`VerifyReturns` and `MeAfterReturns` are `loadSession` and the load effect;
`SignInReturns`, `ResetReturns`, `ActionReturns`, `SignOutReturns` and
`ReadReturns` the code behind each `await`; `Toggle`, `LinkAction` and so on the
presses, with the condition under which the button is there and enabled. When a
view goes, its effects drop their answers and its handlers do not (`Orphaned`):
that is what the `alive` flag in the effects does, and what the handlers lack.
`doubt` and `shown` are history: the consents about which an answer was lost or
overtaken, and the keys that were on the screen.

### Flow

`session` is sessionStorage, `cached` and `read` the module's copy
(`_flow/store.ts`), `page` and `field` the state of `BerekenenPage` and of the
one `NumberQuestion` on the screen. An answer is a class (a good number, one the
field refuses, nothing) since the flow tells no more apart. `Type`, `Choose`,
`ChooseEv`, `PickRoof` are the controls; `GoOn` is `next()` and, at the last
question, the submit; `ComputeSucceeds` is the assignment of `location`, which
happens wherever the visitor is by then; `ReadReturns` is the advice page's
answer. `sent` is the set of counters this mount has reported.

`Open` mounts the form. `Switch` is a link, Back or Forward that changes only
`?ronde`: the router leaves the page mounted, so the place in the questions, the
buttons, the sentences and the ref of the entry counter all stay as they are and
only the field mounts anew. A round can therefore start in its middle, and round
one past its last question, where `next()` throws (`Thrown`). `entered` is the
history of the tab as far as Back and Forward need it: the rounds this document
has shown. `kept` is history too: the furthest place at which a change of round
left this form. Back to an advice page of the same document is not modelled.

### AdvicePage, Bands, Carpet

A body is a record of the fields the page uses, whole or spoilt. `isAdvice` and
the guards under it are `lib/api.ts`; `Renders` is what the components read, so
that a body the first accepts and the second cannot build is an empty page.
`ReadsYear` is what `buildPixels` and `cellAt` read of a year that `decodeYear`
let through: where the stylesheet has the plate's colours a year without ceilings
throws in the effect that draws it, and where it has not, at the first quarter
that is read (`Arrives`, `Read`). `advice` keeps the advice that blanked the page.
`RuleFigures` is the rule that the first step's band is not drawn again in its
route. `Carpet` has both ends of the year: `encode_year` (Python) and
`decodeYear`, `reading`, `buildPixels`, `cellFromPointer` (TypeScript), over
integers; `Bands` the headline's axis and fill as fractions. The plate is per
column `ground`, `edge` or `data`, and a frame draws the columns up to its
moment.

### Shell

`stored` is localStorage, `tab` per tab the document: what the banner and the
reset on the privacy page have read, the toggle, the attribute on the root
element, whether the script is loaded and whether its switch is thrown. `Open`
is the inline script before the first paint, `Hydrate` React's first read of
both stores, `Render` any later one (only then does a tab find what another
wrote), `Answer` and `ConsentReset` are `setConsent`, `PickTheme` is
`setThemeChoice`. `said` is history: the last answer given in the document or
acted on by it.

## What the runs show

Every run is on the smallest instance in which each conflict the module has can
occur, with the bounds below. `passes` means TLC visited all states.

| Run | Instance | Result |
|---|---|---|
| `sessions` | 2 accounts, 3 tokens, 2 sessions at once, 1 reset | passes: `ExchangedOnce`, `EvidenceKept`, `SweptSessionsAreDead`, `NeverExchangesSpent`, `ImplementsContract` |
| `sessions_liveness` | 1 account, 4 tokens, of which one has been exchanged for its live successor, 2 requests that exchange and replay; nothing dies but to break a deadlock | passes: `ReuseIsAnswered` |
| `outbox_two_runs` | 1 account, 4 tokens, 3 rows, 2 requests, 2 runs of the command | passes: `UsedOnce`, `OneSenderPerRow`, `DigestsWereAccepted`, `SupersededByAnother`, `NothingToTheDeleted`, `ImplementsContract` |
| `outbox_liveness` | 1 account, 5 tokens, 2 rows, 2 requests, 1 run | passes: `EveryMailLeaves`, `OneUsableLink` |
| `meter_household` | 1 request, 1 push, 1 fold, 2 links, 2 quarters of one hour, each written up to twice | passes: `OneActiveLink`, `FoldsConserve`, `EmptiedWhenRevoked`, `ImplementsContract` |
| `meter_liveness` | 1 link, 2 quarters, no deaths but to break a deadlock | passes: `OldQuartersLeave` |
| `meter_replay` | 1 push, 1 fold | refutes `WrittenOnce` |
| `account_page` | 1 account, 2 meter keys, 2 presses | passes: `BusyIsUnderWay`, `ConsentsAreTheServers`, `ConfirmedIsTrue`, `ShownKeysAreKept`, `LoadingEnds`, `BusyEnds` |
| `account_stale_key` | 1 account, 1 key, 2 presses | refutes `ShownKeyWorks` |
| `flow_form` | 6 stored sessions, 2 edits, 3 openings or changes of round, storage that works, is full or denied | passes: `EarlierAnswered`, `ShownIsStored`, `RequestsAreWhole`, `FunnelAddsUp`, `WaitsEnd` |
| `advice_page` | 28 bodies, years of 2, 4 and 5 days of 2 quarters, 4 steps of time | passes: `BlankOnlyUnlooked`, `EveryBandOnce`, `HeadlineOnTrack`, `PlateIsTheModel`, `ReadingIsThePixel`, `ReducedIsStill`, `PageSettles` |
| `shell_tabs` | 2 tabs, storage that works or is full, 4 answers or picks | passes: `NoIsHonoured`, `PageViewOnce`, `ToggleIsTheTheme` |

What the page runs add up to:

* **The account page tells the truth about what it sent.** What is disabled is
  what is under way, each handler once (`BusyIsUnderWay`), and comes back
  (`BusyEnds`): every handler clears its own id on every path. A consent row
  shows what the API has unless a request about it is out or its answer was lost
  (`ConsentsAreTheServers`). A meter key that was on the screen is not replaced by
  the page itself (`ShownKeysAreKept`), because a key on the screen puts the rest
  of the block away, whatever the status read says.
* **The flow sends what it showed.** Of the questions the form went past, none
  is unanswered (`EarlierAnswered`), which rests on a field that empties the
  answer it refuses;
  a draft is the stored answer (`ShownIsStored`), which rests on the keys of the
  questions; a detail travels with its yes and only then (`RequestsAreWhole`),
  whatever another version of the site left in storage; a counter is never ahead
  of the one before it (`FunnelAddsUp`). The first and the last hold from where a
  change of round last left the form; across such a change they do not, see the
  table of statements.
* **An accepted advice is drawn, once, and as it was computed.** What blanks the
  page is one of five things the shape check does not look at, and each of them
  does (`BlankOnlyUnlooked`; a null year, a year without ceilings, a null or
  mistyped consumption, a mistyped sentence of the first step); whatever the check
  looks at is caught or harmless. Every quarter drawn is the one the simulation had, to half a
  step of its byte, and the quarter read under a pointer is the pixel under it
  (`PlateIsTheModel`, `ReadingIsThePixel`), also after the columns of an
  interrupted drawing (`ReducedIsStill`).
* **A no is honoured in its document** (`NoIsHonoured`) though storage may be
  full and the switch is the only thing that stops a loaded script.

Bounds, and why they are enough:

* `Tokens` (refresh tokens): 3 in the safety run. A conflict needs a token, its
  successor and one more session of the account. Liveness needs 4: a replay that
  began before the last two exchanges has a snapshot two tokens short, and the
  deadlock that lets a token escape is between replays at either end of the chain.
* `MaxResets`: 1. A second reset meets the state the first one leaves.
* `MaxMails`: 2 or 3 rows, `Tokens` (raw link tokens) 4 or 5: two rows of one
  kind, each with a failed attempt, plus a link that is already out.
* `MaxLinks`: 2 links: one to be superseded and its successor. `RoomForLink`
  holds a request back while there is no id for it.
* `MaxMoments`: 2 quarters, `PerHour` 2: one hour of which one quarter, the
  other or both have been folded.
* `MaxStored`: 2: a quarter that is written, folded, written again.
* `MaxClicks`: 2 presses, `MaxKeys`: 2 keys, one account. Two presses are two
  handlers under way at once, beside the load, the texts, the status and the
  check, which the page starts by itself. A third press meets no new pair.
* `MaxEdits`: 2 and `MaxMounts`: 3, from sessions that are empty, half way, one
  question from the end, without the fourth answer of round one, and left by
  another version: enough to answer the last question, go back, break an earlier
  answer, leave and come back, or go to the other round and back.
* `Bodies`: one whole body per figure the page draws, one body per field that
  is spoilt and one per way around the check; years with a leap day, an idle year,
  a year of exports, payloads of the wrong length. `Pointers` and `Frames` are the resolution of a pointer and
  of time.
* `Tabs`: 2, `MaxWrites`: 4 (yes, no, change, yes). `Access` leaves out a storage
  that is denied: there every page is at rest after two steps. The theorems have it.
* Requests, pushes and runs: one or two of each, since every conflict listed
  under "hazards" in `PROJECT.json` is one between two processes. For any number
  of them there are the proofs.

Sets of model values are symmetric in the safety runs of the API (each module
treats requests, tokens and so on alike); outbox rows, links and quarters are
numbers and are not. Liveness is checked without symmetry.

`Sessions` keeps the deadlock check on. The others switch it off: with every id
used, the visitor's presses spent or the page left, there is nothing left to do.

Not every property is checked with every process or body. `OneUsableLink` and
`OneActiveLink` are promises about one run of the command and about one request
at a time; `HeadlineOnTrack` leaves out the headline of three zeros.
Without those limits TLC refutes them.

## Fairness

Safety needs none. The liveness runs assume, and the code justifies:

* a request or command that can go on does so (weak fairness): gunicorn and
  systemd run their processes;
* PostgreSQL serves the waiters of a row in turn, so a statement that can get
  its rows again and again does get them (strong fairness on the steps that wait
  for locks);
* the timer starts the command again and again: every minute for mail, every
  day for the fold; and time passes (`BecomeDue`, `GrowOld`);
* of a deadlock, one participant is killed (`BreakDeadlock`);
* in that stretch nothing else dies. A process that died at the same statement
  on every attempt would never finish, and the code does not claim it would.

In `Sessions` that stretch is `SpecReplays`: it starts from a token that has been
exchanged once, browsers offer tokens, and no login, reset, logout, expiry or
purge begins. `ReuseIsAnswered` has a premise there, `DeadlocksEnd`. A replay that
is the victim of a deadlock sweeps nothing; what answers it is the survivor, which
sweeps the same account. But the next replay can take the victim's place, wait
for the survivor and have it killed in its turn, and no lock order in
`revoke_all` and no fairness of PostgreSQL rules that out for ever. Also with the
premise the promise is one `revoke_all` of the account that commits, and not that
the replayed token itself is revoked: `EveryReuseIsAnswered` says that, and TLC
refutes it with four tokens, since the survivor's UPDATE may be older than the
victim's row.

The pages assume less: a browser ends every request in an answer or an error and
runs what waits for it (weak fairness on `Return`, `ComputeReturns`,
`ReadReturns`, `AnswerComes`), and keeps handing out frames that are later than
the last (`Grow`, `Frame` at a time that has come). Nothing is assumed of the
visitor, nor that the API serves a request rather than failing it.

`ReadQuarters` is strongly fair for each link. That is right for a household's
link as long as one run reaches every link with old quarters; with more than the
200 of `--max` it does not, see the hazards.

## Proofs

TLAPS proves, for every value of the constants:

| Theorem | Says | Assumes |
|---|---|---|
| `Invariance`, `TypesHold` | `SessionsInv` and the types hold | `NoneIsNobody`, `MaxResetsIsNat` |
| `OneSuccessor`, `SpentStaysSpent` | a token is exchanged once, and never when spent | same |
| `EvidenceIsKept` | a token that has not expired keeps its row | same |
| `SweptStayDead` | what `revoke_all` saw is revoked when the request is answered | same |
| `LocksHaveOwners` | no row stays locked behind a request | same |
| `Refinement` (`SessionsRefinement`) | `Sessions` implements `RefreshContract` | same |
| `Consistency`, `Typed` | `OutboxInv` and the types hold | `KindsAreKnown`, `MaxMailsIsNat`, `NoneIsNobody`, `ProcessesDiffer` |
| `LinkWorksOnce` | a link is confirmed once | same |
| `NoDigestWithoutMail` | every digest in the table is of a message the provider took | same |
| `RowsAreApart` | one run per outbox row | same |
| `SilentAfterDeletion` | the provider is handed nothing for a deleted account | same |
| `SupersededBySent` | a link is superseded only by another one of its account and kind | same |
| `OneLinkPerKind` | an account has one usable link of a kind | same, and `OneCommand` |
| `Refinement` (`OutboxProofs`) | `Outbox` implements `RecoveryContract` | same as `Consistency` |
| `Agreement`, `MeterTyped` | `MeterInv` and the types hold | `SizesAreNat`, `HourIsNotEmpty`, `OneFold` |
| `NothingLostInTheFold` | each write of a quarter of a working link is in the table or in an hour, and in one of them | same |
| `OneLinkAtATime` | one link works at most | same, and `OneRequest` |
| `UnlinkingEmpties` | a link the household took away itself keeps no row it had | same as `Agreement` |
| `RevokingEmpties` | a link keeps no row it had when it stopped, whichever way it stopped | same, and `OneRequest` |
| `Refinement` (`MeterProofs`) | `Meter` implements `MeterContract` | same, `OneFold` and `OneRequest` |
| `ShellInvariance`, `ShellTypes` | `ShellInv` and the types hold | `ShellAssumption` |
| `NoIsAlwaysHonoured` | a document whose last answer was not a yes sends nothing | same |
| `OnePageView` | no document configures the measurement twice | same |
| `ToggleAlwaysNamesIt` | where storage works, the tab that picked last names its theme | same |
| `FlowInvariance`, `FlowTypes` | `FlowInv` and the types hold | `FlowAssumption` |
| `EarlierQuestionsAnswered` | no question the form went past, from where a change of round last left it, is unanswered | same |
| `ScreenIsStored` | the field shows the answer there is, and storage holds it | same |
| `WholeRequests` | a request is complete, with a detail exactly when its question was answered yes | same |
| `BusyWhileComputing` | the buttons are disabled exactly while the form's one computation is out | same |
| `CountersAddUp` | the counters a form reports are in the order of its questions, from where a change of round last left it | same |
| `PageTyped`, `Typed` (`AccountProofs`) | `PageInv` of `Account` and the types hold | the assumptions on the constants of `Account` |
| `Busy` | a disabled button has one handler under way, and a handler its disabled button | same |
| `Confirmed` | a confirmation that is said is of a confirmed address, and stands | same |
| `ShownKeys` | no view replaces a link whose key was on the screen; only a request of a view that has gone can | same, and `OneUser` |
| `Consents` | a consent row says what is stored, unless a request about it is out or its answer was lost | same, and `OneUser` |
| `Typed` (`AdvicePageProofs`) | `PageInv` of `AdvicePage` holds | `AdviceAssumption`, `QuartersAssumption`, `FloorAssumption` |
| `UnlookedBlanks` | a page goes blank only over something the shape check does not look at, whatever the bodies are | same |
| `Still` | under less movement the plate is complete and no frame is asked for | same |
| `BandsOnce` | a rule with a saving has one band on the page | same, and `RulesFireOnce` |
| `HeadlineStays` | fill, marker and labels stay on the track | same, and `HeadlinesAreBands` |
| `PlateIsTrue` | a drawn quarter is the simulation's, to half a step of each byte | same, and `YearsArePacked` |
| `ReadingIsTrue` | the cursor is on a quarter, reads its pixel and names its day | same, with `MonthsHoldYears` |

The argument is the same in each. The properties are not inductive: that a token
is exchanged once rests on the request that holds its row's lock knowing what
the row says, which rests on nobody writing a row without its lock. So there is
an invariant over tables, locks and process records together (`SessionsInv`,
`OutboxInv`, `MeterInv`), written as named conjuncts in the component's module
and checked by TLC there; one lemma per action shows that the action keeps it,
and the theorems follow from it.

`SessionsInv` ties every request's position to the rows it has locked and to
what those rows hold. `OutboxInv` ties a sender's uncommitted links to its
claimed row, and every committed link to a message the provider took. `MeterInv`
says that a request holds working links only and deletes nothing of any other,
that no two requests have a hand on one link, and that while a fold's link works
the fold's copy of quarters and hours is what the tables hold. That last part is
why the sums are right though the fold reads twice, writes, deletes and commits
in five steps: whoever could change those rows needs the link's row, and a link
that stops working takes the question away.

`ShellInv` ties a document to storage: a document that is not hydrated has no
script, a script is there only in a build with an ID, and where storage is full
and the question stands, nothing is stored. The last part is what `NoIsHonoured`
needs: a no that could not be written is followed by a read of storage, and if
an old yes were still there that read would load the script over the switch. The
lemmas `ReadIsHonest` and `ResetIsTold` say what one reading of storage does to
one document, `AnswerIsKept` composes them as `setConsent` does, and
`OneDocument` carries a claim about one tab to all of them.

`FlowInv` holds for every set of answers a tab may start with, so also those an
older version of the site left behind. It says of every form, one that shows that
round one is missing included, that the questions from `kept` up to its own are
answered (`Filled`), that its counters are in their order and those of the
questions it passed are among them (`InOrder`, `Reported`), that its field fits the answer, and of every
request a form still waits for that its submission was reported. The tables
`FieldTable` and `StepTable` spell the nine questions out; `NumberIsItsOwn` and
`YesNoIsItsOwn` say that an edit at one question leaves the questions before it
answered (the detail a no forgets belongs to the same question), and
`InputIsWhole` that `toEstimateInput` and `toRefineInput` build whole bodies from
any answers. `ElsewhereIsSafe` covers every way of leaving a page, and
`SwitchIsSafe` a change of round under the form: the place stays, `kept` moves up
to it, and the field is mounted for whatever question now stands there
(`FieldOnFits`), or for none.

Superseding has invariants of its own. `SupersedeInv` says of a run that has
superseded and not yet committed that the rows it marked are of the account and
kind of its claimed mail, so what it marked has a reason when the commit shows
it. `UsableInv` says that such a run has marked every usable link of that
account and kind. It needs one run of the command: a second one would mint a
link the first did not see.

Erasing has `ErasureInv`. `ErasesItsLinks` says of a request that has erased
quarters or hours that none of its links' are left but those its transaction
deletes, and that no fold has updated an hour there. What a fold has inserted
there is not visible yet, and its commit waits for the row the request holds: it
comes after the request's and is one of the rows that a link may get after it
stopped. It holds for any number of requests, and
gives `UnlinkingEmpties`. `HoldsEveryLink` says that a request which makes a link
has locked every one that works, and there `OneRequest` is needed: with two
requests, `previous.update()` takes a snapshot
of its own and stops a link that was made after this request locked and erased
what it saw. TLC refutes `EmptiedWhenRevoked` in that instance.

The three contracts are refined step by step: one lemma per kind of commit
(`DeliverMaps`, `UnlinkMaps`, `FoldMaps` and so on) shows that it is one step of
the contract, and every other statement changes nothing the contract sees. For
`Outbox` that needs `OwnedInv`, next to `SupersedeInv`: a usable link is of an
account that is there, and a row nobody has written is nobody's. For `Meter` it needs that a
request which is about to unlink has locked every link that works
(`UnlinksEveryLink`, which rests on there being one), and that a fold holds no
quarter that is younger than the retention (`FoldsOldQuarters`). `OneRequest` is
needed here for the same reason as for `RevokingEmpties`.

`PageInv` of `Account` says which handler makes which request (`CallsAreMade`),
that a view which has gone waits for nothing (`NothingWithoutAView`), and that
every disabled button has one handler under way and the meter's buttons one
between them (`HandledOnce`). That is what makes `finally { clear(id) }` give
back the right button, and it holds for any number of people in one tab and of
presses. `LoadInv` follows the load through its requests: its token is presented
once, so a confirmation that is said cannot be undone by a later answer.
`KeyInv` is why a shown key stays: while a key that was shown stands, no view
offers to link and no status that could bring the offer back is under way.
`ConsentInv` relates four copies of a consent, in the table, in the view, in
the snapshots of requests that are still out and in the answers still to be
applied. The last two assume one person in the tab (`OneUser`). With two, the
handlers of a view that has gone act on the cookie of whoever signed in since,
and TLC refutes both: `ConsentsAreTheServers` after five presses,
`ShownKeysAreKept` after seven. In `account_page` there is one account, so the
run does not show it. Proving `Consents` also corrected the model: `doubt`, the
history of consents about which an answer was lost or overtaken, had missed an
answer that is overtaken by the next view, which needs more presses than the
run's bound.

On the advice page the invariant is short, `PageInv`: what is on the page passed
the shape check and could be built, its year can be read (`ReadsYear`) wherever a
quarter of it was coloured or read, and what blanked a page had passed the check;
and `CursorInv`: the cursor is on a quarter of the plate. The work is in the functions. `CheckedRenders` compares the shape
check with what React reads, field by field. `Placed` puts the fill, the marker
and the labels of a band on its track: it needs that a band right of zero ends
at its axis' end, so that hanging it from the right loses nothing. `ScaleFits`
bounds the rounding of one byte, `QuarterIsTrue` carries the bound through
packing and decoding to the colour of a pixel, `TurnedOver` is the turn from day
by day to hour by hour, for any number of quarters in a day and of days.

What those theorems assume of the answers is written next to the properties, and
TLC evaluates it on the bodies of the run (`AnswersAssumption` in
`MCAdvicePage`): no rule
fires twice (`RulesFireOnce`; `ampeer_advice/rules.py` runs each once), the
headline is three ordered amounts not both zero at the ends
(`HeadlinesAreBands`), a year whose quarters can be read (`IsRead`) is `encode_year`
of flows that never go both ways at once (`YearsArePacked`; `encode_year` raises otherwise), and the
months hold the days (`MonthsHoldYears`). `HeadlinesAreBands` is false of
some advice the service could send, as the table below says. `UnlookedBlanks`
assumes none of them.

`OneFold` (one run of the fold at a time) is an assumption of the theorems about
`Meter`, and needed: with two runs TLC finds the same quarters added twice. Only
the systemd unit, which does not start while it is running, provides it.
`OneRequest` is needed for `OneLinkAtATime`: with two requests it fails.

Only model-checked: the liveness properties (`ReuseIsAnswered`,
`EveryMailLeaves`, `OldQuartersLeave`, `LoadingEnds`, `BusyEnds`, `WaitsEnd`,
`PageSettles`), since fairness and ENABLED are out of the prover's reach. That
the days before a month add up (`DaysBefore` is a fold over the months) is
induction over data and so an assumption of `ReadingIsTrue`, which TLC evaluates
on the calendar of the run. Every other property of a passing run is the subject of a
theorem. The types of every module are theorems and no property of a run.

## Where code and text disagree

Two runs refute what a comment says, each with a trace of a few steps;
`PROJECT.json` quotes the sentences.

* **A replayed quarter can be counted twice** (`meter_replay`). The fold deletes
  the row its unique constraint would need.
* **A withdrawn consent leaves its key on the screen** (`account_stale_key`).
  The toggle stores the consent and nothing else, while the API has revoked the
  link; the page goes on showing a key that no longer works.

The other statements of a comment or a document that the models refute are kept
as definitions beside the properties, without a run of their own. Each is
reproduced by giving it as the INVARIANT (or PROPERTY) of its module with the
constants named here:

| Statement | Module, instance | What happens |
|---|---|---|
| `ReuseEndsEverySession` | `MCSessions`, 1 account, 3 tokens, 2 requests | `revoke_all`'s UPDATE works on its snapshot; a successor committed while it waits is not in it |
| `NothingOldSurvivesReset` | the same, `MaxResets = 1` | a login checked its password before the reset and inserts its session after the UPDATE's snapshot |
| `FreshLinksWereReceived` | `MCOutbox`, 1 request, 1 sender, 1 row, 2 tokens | the first attempt's answer is lost, the retry carries another token under the same key and the provider drops it |
| `EveryReuseIsAnswered` | `MCSessions`, `SPECIFICATION SpecReplays`, 4 tokens, 2 requests | two replays deadlock, and the survivor's UPDATE began before the victim's token was inserted |
| `OneUsableLink` | `MCOutbox`, 2 senders | two rows of one kind are minted by two runs that do not see each other's links |
| `OneActiveLink` | `MCMeter`, 2 requests | for a first link there is no row to lock |
| `EmptiedWhenRevoked` | `MCMeter`, 2 requests | the UPDATE of a second link stops a link that was made after this request erased what it saw |
| `RevokedLinksAreEmpty` | `MCMeter`, 1 request, 1 push | nothing looks at the link again after authentication |
| `ConsentsAreTheServers` | `MCAccount`, 2 accounts, `MaxClicks = 5` | a handler of a view that has gone acts on the account that signed in since |
| `ShownKeysAreKept` | the same, `MaxClicks = 7` | the same, for a link |
| `NothingIsSkipped` ("the flow refuses to advance past a question that is not answered", `answers.ts:179-180`) | `MCFlow` | `?ronde` changes under the form and the place stays: a form of round two stands at its fourth question before its first is answered |
| `QuestionsHaveNames` ("it cannot happen while the two arrays' lengths agree", `page.tsx:382-383`) | `MCFlow` | the header's link at the fifth question of round two leads to a fifth question of round one, which is not there; `next()` throws |
| `FunnelIsAChain` ("so abandonment can be read per question", `page.tsx:366-367`) | `MCFlow` | the same link at the fourth question: round one reports its last question and none before it |
| `RefusalIsTold` | `MCFlow` | Enter on a field that refuses its draft and has not been left: neither sentence is shown |
| `RoundIsCounted` | `MCFlow` | the built page renders once before the round is known, so a load of `?ronde=2` counts a first round |
| `BlockedFormWorks` | `MCFlow` | `window.sessionStorage` throws where it is evaluated, outside the try |
| `SiteSurvives` | `Shell`, `Access = {"denied"}`, `MaxWrites = 2` | the same with `window.localStorage`, on every page |
| `NothingAfterNo` | `Shell`, 2 tabs, storage that works | a no in one tab does not reach a tab that is measuring |
| `HeadlineOnTrack` | `MCAdvicePage`, `Bodies <- ZeroBodies` | a band of zeros has no axis |
| `NeverBlank` | `MCAdvicePage`, `Bodies <- Unlooked` | five things the check of `api.ts:83-103` does not look at: a null year, a year without ceilings, a null or mistyped consumption, a mistyped sentence of the first step |

Smaller things seen on the way, which no statement of the source forbids: after
yes, no, change, yes in one document the switch of the no stays thrown, so that
document measures nothing although its visitor said yes; after yes and change it
goes on sending while the question stands again; on a full storage the toggle
says the old word under the new theme; a link can be made after its consent was
withdrawn, since the consent is checked outside the transaction; and the
markdown parser's lists swallow a heading or a fence that follows without a
blank line, though it promises to throw on what it does not know.

## What is not modelled

* In the modelled API parts: audit lines, blocked accounts (`is_active`),
  `--check` reports, the caps of one run (`--max`), numbers of attempts and kWh,
  the validation of input, the throttles. The deletion of an account is an
  instant in `Outbox` and absent from `Sessions` and `Meter`.
* In the modelled pages: wording, number formats and styles; a second tab beside
  the account page and an access token that expires while it is open; what a
  download contains. The API behind `Account` is one step per request: its
  interleavings are `Sessions`, `Outbox` and `Meter`.
* Cookies, CSRF and the access token: a signature, an expiry and a comparison
  per request, with no state to interleave.
* Floating point: profiles, production, tariffs and the fit work on series of
  35 040 floats, which TLC cannot enumerate.
* Charts of prices and of a day, static pages and the markdown parser (build
  time, no state), the infrastructure, and the one-off profile ingest.

## Plan

In this order:

1. `FoldQueue`: the runs of `purge_meter_readings` over many links with the cap
   of `--max`. Abstract promise: no quarter is more than the grace period past
   its retention. It holds with as many links as one run takes, and is expected
   to fail with one more.
2. `Advice`: `StoredAdvice`, the claim by an account, expiry and purge, the
   audit log, the production cache and the daily counter under concurrent
   upserts, with an abstract counter and an abstract store that they implement.
3. `Household`: deletion by CASCADE against inserts in flight on every table,
   export, and registration; composes the tables of the API modules.
4. `Battery` and `DayPlan`: the quarter loop over integer amounts of energy, with
   the balance as invariant and the plan against a reference definition; proofs
   for every capacity and power.
5. `YearGrid`: the map of `window.py` from a moment to the quarter of the year
   over clock changes and leap years, against a reference definition.
6. `Lockout`; `TwoTabs` (one cookie jar, on top of `Sessions`); `Release`: the
   order of backup, migration and switch in the deployment.

Each gets an MC module, one passing run with its type and safety invariants, and
a proofs module where the arithmetic or the locking deserves one.

## Running it

    tlc -config Sessions_requests.cfg MCSessions
    tlapm SessionsProofs.tla

The runs, their modules and configurations, the code lines each definition
stands for and the mutants that break each property are in `PROJECT.json`. A
mutant is an operator of the module, marked "Mutant" in its comment, that
replaces the definition named beside it: a plausible bug in that code, with
which TLC finds the property violated.
