-------------------------------- MODULE Meter --------------------------------
(***************************************************************************)
(* A household's meter: the links it authorises, the quarters a device     *)
(* pushes under a link, and the nightly fold of old quarters into hours    *)
(* (backend/accounts/service.py, meter.py, the meter routes and            *)
(* ConsentView of views.py, and purge_meter_readings).                     *)
(*                                                                         *)
(* One account: nothing here crosses accounts.  Its address is confirmed.  *)
(* One action is one statement; what a transaction has written lives in    *)
(* the record of its process until the commit, and the row locks are read  *)
(* off those records.  Django defers its foreign keys on PostgreSQL: an    *)
(* INSERT under a link looks at the link's row at the commit, and waits    *)
(* for SELECT FOR UPDATE there; until then nobody waits for the new row,   *)
(* or sees it.  A statement over several rows waits for all of them and    *)
(* then takes them at once.                                                *)
(***************************************************************************)
EXTENDS Naturals, FiniteSets

CONSTANTS
    Requests,    \* requests from the household's browser
    Devices,     \* pushes a device has under way
    Folds,       \* runs of purge_meter_readings
    MaxLinks,    \* bound on the links ever made
    MaxMoments,  \* the quarters of this model, in the order of time
    PerHour,     \* quarters in an hour: 4, smaller in an instance
    MaxStored    \* bound on how often one quarter is written

ASSUME SizesAreNat == MaxLinks \in Nat /\ MaxMoments \in Nat /\ MaxStored \in Nat
ASSUME HourIsNotEmpty == PerHour \in Nat \ {0}

Links   == 1..MaxLinks
Moments == 1..MaxMoments

VARIABLES
    consent,   \* Consent.current(METER_LINK)
    link,      \* the MeterLink rows
    reading,   \* QuarterReading: which write of a quarter is in the table, or 0
    hours,     \* HourAggregate: how often each quarter is in its hour's sums
    stored,    \* history: how often a quarter was written
    horizon,   \* quarters up to here are past the retention
    request,   \* what each request is doing
    device,    \* the link each push was authenticated for, or 0
    fold       \* what each run of the fold is doing

tables == <<link, reading, hours, stored>>
vars == <<consent, link, reading, hours, stored, horizon, request, device, fold>>

None == [m \in Moments |-> 0]

RequestState ==
    [at : {"idle", "checked", "looking", "holding", "erasing", "erased",
           "superseding", "creating"},
     op : {"link", "unlink", "withdraw"},
     seen : SUBSET Links,       \* what its last SELECT or UPDATE has in its snapshot
     held : SUBSET Links,       \* locked FOR UPDATE
     revokes : SUBSET Links,    \* written by link_meter's UPDATE
     quarters : SUBSET (Links \X Moments),    \* deleted, uncommitted
     spans : SUBSET (Links \X Moments),       \* in hours deleted, uncommitted
     later : BOOLEAN]           \* consent was granted after this withdrawal's stamp

FoldState ==
    [at : {"idle", "read", "looked", "written", "deleted"},
     link : Links \cup {0},
     rows : [Moments -> Nat],     \* the quarters it read, as reading has them
     base : [Moments -> Nat],     \* the hours it found them in
     wrote : SUBSET Moments]      \* quarters of the hours it wrote

IdleRequest ==
    [at |-> "idle", op |-> "unlink", seen |-> {}, held |-> {}, revokes |-> {},
     quarters |-> {}, spans |-> {}, later |-> FALSE]

IdleFold == [at |-> "idle", link |-> 0, rows |-> None, base |-> None, wrote |-> {}]

TypeOK ==
    /\ consent \in BOOLEAN
    /\ link \in [Links -> {"none", "active", "revoked"}]
    /\ reading \in [Links -> [Moments -> Nat]]
    /\ hours \in [Links -> [Moments -> Nat]]
    /\ stored \in [Links -> [Moments -> Nat]]
    /\ horizon \in 0..MaxMoments
    /\ request \in [Requests -> RequestState]
    /\ device \in [Devices -> Links \cup {0}]
    /\ fold \in [Folds -> FoldState]

Init ==
    /\ consent = FALSE
    /\ link = [l \in Links |-> "none"]
    /\ reading = [l \in Links |-> None]
    /\ hours = [l \in Links |-> None]
    /\ stored = [l \in Links |-> None]
    /\ horizon = 0
    /\ request = [q \in Requests |-> IdleRequest]
    /\ device = [d \in Devices |-> 0]
    /\ fold = [f \in Folds |-> IdleFold]

-----------------------------------------------------------------------------

Active == {l \in Links : link[l] = "active"}

\* MeterLink.Meta.ordering: the newest row first.
Newest(S) == {l \in S : \A k \in S : k <= l}

HourOf(m) == (m - 1) \div PerHour

\* The quarters of the hours that a set of quarters lies in.
InHoursOf(S) == {m \in Moments : \E n \in S : HourOf(n) = HourOf(m)}

\* The quarters some hour has counted.
Counted(l) == {m \in Moments : hours[l][m] > 0}

\* The quarters a run of the fold is folding, and those of them whose hour it
\* did not find.
Folding(f) == {m \in Moments : fold[f].rows[m] > 0}
Found(f)   == InHoursOf({m \in Moments : fold[f].base[m] > 0})

\* Of the hours it has written, uncommitted: those it inserted and those it
\* updated; and the quarters it has deleted.
Inserted(f) == fold[f].wrote \ Found(f)
Updated(f)  == fold[f].wrote \cap Found(f)
ToDelete(f) == {m \in Folding(f) : reading[fold[f].link][m] = fold[f].rows[m]}
Deleted(f)  == IF fold[f].at = "deleted" THEN ToDelete(f) ELSE {}

(* Row locks.                                                              *)

HeldByOther(q, l) == \E r \in Requests \ {q} : l \in request[r].held
RevokedByOther(q, l) == \E r \in Requests \ {q} : l \in request[r].revokes

QuarterLocked(l, m) == \E q \in Requests : <<l, m>> \in request[q].quarters

\* Bound: a link is asked for only while there is an id for everybody.
RoomForLink ==
    Cardinality({l \in Links : link[l] = "none"}) >
        Cardinality({q \in Requests : request[q].at # "idle" /\ request[q].op = "link"})

-----------------------------------------------------------------------------
(* ConsentView.post: a grant is one row.                                   *)

\* A withdrawal under way has stamped its row before this one.
Grant ==
    /\ consent' = TRUE
    /\ request' = [q \in Requests |->
          IF request[q].at # "idle" /\ request[q].op = "withdraw"
          THEN [request[q] EXCEPT !.later = TRUE] ELSE request[q]]
    /\ UNCHANGED <<tables, horizon, device, fold>>

-----------------------------------------------------------------------------
(* link_meter, unlink_meter, and the withdrawal that calls unlink_meter in *)
(* its own transaction.                                                    *)

\* MeterLinkView.post: may_link_meter, outside the transaction.
MayLink(q) ==
    /\ request[q].at = "idle"
    /\ consent
    /\ RoomForLink
    /\ request' = [request EXCEPT ![q] = [@ EXCEPT !.at = "checked", !.op = "link"]]
    /\ UNCHANGED <<consent, tables, horizon, device, fold>>

\* The snapshot of SELECT ... FOR UPDATE.
Look(q, op) ==
    /\ IF op = "link" THEN request[q].at = "checked" /\ request[q].op = "link"
                      ELSE request[q].at = "idle"
    /\ request' = [request EXCEPT ![q] =
                      [@ EXCEPT !.at = "looking", !.op = op, !.seen = Active]]
    /\ UNCHANGED <<consent, tables, horizon, device, fold>>

\* It has its rows, without those revoked while it waited.  unlink_meter asks
\* for the first one only.
Hold(q) ==
    LET still == request[q].seen \cap Active
        wanted == IF request[q].op = "link" THEN still ELSE Newest(still)
    IN
    /\ request[q].at = "looking"
    /\ \A l \in wanted : ~HeldByOther(q, l) /\ ~RevokedByOther(q, l)
    /\ request' = [request EXCEPT ![q] = [@ EXCEPT !.at = "holding", !.held = wanted]]
    /\ UNCHANGED <<consent, tables, horizon, device, fold>>

\* _erase_meter_data, its first DELETE, which waits for the quarters a fold has
\* deleted.
EraseQuarters(q) ==
    /\ request[q].at = "holding" /\ request[q].held # {}
    /\ \A f \in Folds : fold[f].link \in request[q].held => Deleted(f) = {}
    /\ request' = [request EXCEPT ![q] = [@ EXCEPT !.at = "erasing",
          !.quarters = {p \in request[q].held \X Moments : reading[p[1]][p[2]] > 0}]]
    /\ UNCHANGED <<consent, tables, horizon, device, fold>>

\* Its second DELETE, which waits for the hours a fold has updated and passes
\* by those it has inserted.
EraseHours(q) ==
    /\ request[q].at = "erasing"
    /\ \A f \in Folds : fold[f].link \in request[q].held => Updated(f) = {}
    /\ request' = [request EXCEPT ![q] = [@ EXCEPT !.at = "erased",
          !.spans = {p \in request[q].held \X Moments : hours[p[1]][p[2]] > 0}]]
    /\ UNCHANGED <<consent, tables, horizon, device, fold>>

\* What is left of the tables when q's deletions commit.
QuartersLeft(q) == [l \in Links |-> [m \in Moments |->
    IF <<l, m>> \in request[q].quarters THEN 0 ELSE reading[l][m]]]

HoursLeft(q) == [l \in Links |-> [m \in Moments |->
    IF <<l, m>> \in request[q].spans THEN 0 ELSE hours[l][m]]]

Erased(q) == \/ request[q].at = "erased"
             \/ request[q].at = "holding" /\ request[q].held = {}

\* The commit of unlink_meter, or of the withdrawal around it.
Unlinked(q) ==
    /\ Erased(q) /\ request[q].op # "link"
    /\ link' = [l \in Links |-> IF l \in request[q].held THEN "revoked" ELSE link[l]]
    /\ reading' = QuartersLeft(q)
    /\ hours' = HoursLeft(q)
    /\ consent' = (consent /\ (request[q].op = "withdraw" => request[q].later))
    /\ request' = [request EXCEPT ![q] = IdleRequest]
    /\ UNCHANGED <<stored, horizon, device, fold>>

\* previous.update(): a statement of its own, with a snapshot of its own.
LookAgain(q) ==
    /\ Erased(q) /\ request[q].op = "link"
    /\ request' = [request EXCEPT ![q] = [@ EXCEPT !.at = "superseding", !.seen = Active]]
    /\ UNCHANGED <<consent, tables, horizon, device, fold>>

Supersede(q) ==
    LET still == request[q].seen \cap Active IN
    /\ request[q].at = "superseding"
    /\ \A l \in still : ~HeldByOther(q, l) /\ ~RevokedByOther(q, l)
    /\ request' = [request EXCEPT ![q] = [@ EXCEPT !.at = "creating", !.revokes = still]]
    /\ UNCHANGED <<consent, tables, horizon, device, fold>>

\* Mutant: the new row is made, the previous one is left.
LinkedBeside(q) ==
    /\ request[q].at = "creating"
    /\ \E n \in Links :
          /\ link[n] = "none" /\ \A k \in Links : k < n => link[k] # "none"
          /\ link' = [link EXCEPT ![n] = "active"]
    /\ reading' = QuartersLeft(q)
    /\ hours' = HoursLeft(q)
    /\ request' = [request EXCEPT ![q] = IdleRequest]
    /\ UNCHANGED <<consent, stored, horizon, device, fold>>

\* The commit of link_meter, with the new row.
Linked(q) ==
    /\ request[q].at = "creating"
    /\ \E n \in Links :
          /\ link[n] = "none" /\ \A k \in Links : k < n => link[k] # "none"
          /\ link' = [l \in Links |-> IF l = n THEN "active"
                                      ELSE IF l \in request[q].revokes THEN "revoked"
                                      ELSE link[l]]
    /\ reading' = QuartersLeft(q)
    /\ hours' = HoursLeft(q)
    /\ request' = [request EXCEPT ![q] = IdleRequest]
    /\ UNCHANGED <<consent, stored, horizon, device, fold>>

\* A worker dies, or PostgreSQL picks the request to break a deadlock.
Abort(q) ==
    /\ request[q].at # "idle"
    /\ request' = [request EXCEPT ![q] = IdleRequest]
    /\ UNCHANGED <<consent, tables, horizon, device, fold>>

-----------------------------------------------------------------------------
(* The push: MeterTokenAuthentication and store_readings.                  *)

Authenticate(d, l) ==
    /\ device[d] = 0
    /\ link[l] = "active"
    /\ device' = [device EXCEPT ![d] = l]
    /\ UNCHANGED <<consent, tables, horizon, request, fold>>

\* Mutant: the push leaves last_seen_at alone, so nothing waits for the link.
StoreUnwaited(d, batch) ==
    LET l == device[d]
        new == {m \in batch : reading[l][m] = 0}
    IN
    /\ l # 0
    /\ \A f \in Folds : fold[f].link = l => Deleted(f) \cap batch = {}
    /\ \A m \in new : stored[l][m] < MaxStored
    /\ stored' = [stored EXCEPT ![l] =
          [m \in Moments |-> IF m \in new THEN @[m] + 1 ELSE @[m]]]
    /\ reading' = [reading EXCEPT ![l] =
          [m \in Moments |-> IF m \in new THEN stored[l][m] + 1 ELSE @[m]]]
    /\ device' = [device EXCEPT ![d] = 0]
    /\ UNCHANGED <<consent, link, hours, horizon, request, fold>>

\* Its transaction, at its commit: the quarters that were not there yet, and
\* last_seen_at, for which it waits for the link's row.  ON CONFLICT DO NOTHING
\* waits for a quarter that a fold is deleting.
Store(d, batch) ==
    LET l == device[d]
        new == {m \in batch : reading[l][m] = 0}
    IN
    /\ l # 0
    /\ \A q \in Requests : l \notin request[q].held \cup request[q].revokes
    /\ \A f \in Folds : fold[f].link = l => Deleted(f) \cap batch = {}
    /\ \A m \in new : stored[l][m] < MaxStored
    /\ stored' = [stored EXCEPT ![l] =
          [m \in Moments |-> IF m \in new THEN @[m] + 1 ELSE @[m]]]
    /\ reading' = [reading EXCEPT ![l] =
          [m \in Moments |-> IF m \in new THEN stored[l][m] + 1 ELSE @[m]]]
    /\ device' = [device EXCEPT ![d] = 0]
    /\ UNCHANGED <<consent, link, hours, horizon, request, fold>>

\* A batch the serializer refuses, or a worker that dies.
Refuse(d) ==
    /\ device[d] # 0
    /\ device' = [device EXCEPT ![d] = 0]
    /\ UNCHANGED <<consent, tables, horizon, request, fold>>

-----------------------------------------------------------------------------
(* purge_meter_readings: one transaction per link.                         *)

\* Mutant: an hour is folded once all its quarters have come.
ReadWholeHours(f, l, cutoff) ==
    LET whole(m) == \A n \in Moments : HourOf(n) = HourOf(m) => reading[l][n] > 0
        rows == [m \in Moments |-> IF m <= cutoff /\ whole(m) THEN reading[l][m] ELSE 0]
    IN
    /\ fold[f].at = "idle"
    /\ cutoff <= horizon
    /\ rows # None
    /\ fold' = [fold EXCEPT ![f] = [@ EXCEPT !.at = "read", !.link = l, !.rows = rows]]
    /\ UNCHANGED <<consent, tables, horizon, request, device>>

\* Mutant: the quarter the cutoff falls on goes too.
ReadPastCutoff(f, l, cutoff) ==
    LET rows == [m \in Moments |-> IF m <= cutoff + 1 THEN reading[l][m] ELSE 0] IN
    /\ fold[f].at = "idle"
    /\ cutoff <= horizon
    /\ rows # None
    /\ fold' = [fold EXCEPT ![f] = [@ EXCEPT !.at = "read", !.link = l, !.rows = rows]]
    /\ UNCHANGED <<consent, tables, horizon, request, device>>

\* The cutoff is the one the run began with.
ReadQuarters(f, l, cutoff) ==
    LET rows == [m \in Moments |-> IF m <= cutoff THEN reading[l][m] ELSE 0] IN
    /\ fold[f].at = "idle"
    /\ cutoff <= horizon
    /\ rows # None
    /\ fold' = [fold EXCEPT ![f] = [@ EXCEPT !.at = "read", !.link = l, !.rows = rows]]
    /\ UNCHANGED <<consent, tables, horizon, request, device>>

\* The hours it will add to.
ReadHours(f) ==
    LET touched == InHoursOf(Folding(f)) IN
    /\ fold[f].at = "read"
    /\ fold' = [fold EXCEPT ![f] = [@ EXCEPT !.at = "looked",
          !.base = [m \in Moments |-> IF m \in touched THEN hours[fold[f].link][m] ELSE 0]]]
    /\ UNCHANGED <<consent, tables, horizon, request, device>>

\* bulk_create of the new hours; an hour another run has made meanwhile is an
\* IntegrityError, and the run ends (Die).  bulk_update of the hours it found,
\* of those that are still there.
WriteHours(f) ==
    LET l == fold[f].link
        touched == InHoursOf(Folding(f))
        fresh == touched \ Found(f)
        kept == InHoursOf(Counted(l)) \cap touched \cap Found(f)
    IN
    /\ fold[f].at = "looked"
    /\ \A q \in Requests, m \in touched : <<l, m>> \notin request[q].spans
    /\ \A g \in Folds \ {f} : fold[g].link = l => fold[g].wrote \cap touched = {}
    /\ fresh \cap Counted(l) = {}
    /\ fold' = [fold EXCEPT ![f] = [@ EXCEPT !.at = "written", !.wrote = fresh \cup kept]]
    /\ UNCHANGED <<consent, tables, horizon, request, device>>

\* The DELETE of the quarters it read, by primary key.
DeleteQuarters(f) ==
    LET l == fold[f].link IN
    /\ fold[f].at = "written"
    /\ \A m \in ToDelete(f) : ~QuarterLocked(l, m)
    /\ \A g \in Folds \ {f} : fold[g].link = l => Deleted(g) \cap ToDelete(f) = {}
    /\ fold' = [fold EXCEPT ![f] = [@ EXCEPT !.at = "deleted"]]
    /\ UNCHANGED <<consent, tables, horizon, request, device>>

\* Mutant: the DELETE repeats the question instead of naming the rows.
FoldedByCutoff(f) ==
    LET l == fold[f].link IN
    /\ fold[f].at = "deleted"
    /\ Inserted(f) # {} => \A q \in Requests : l \notin request[q].held
    /\ reading' = [reading EXCEPT ![l] =
          [m \in Moments |-> IF m <= horizon THEN 0 ELSE @[m]]]
    /\ hours' = [hours EXCEPT ![l] =
          [m \in Moments |-> IF m \in fold[f].wrote
                             THEN fold[f].base[m] + (IF m \in Folding(f) THEN 1 ELSE 0)
                             ELSE @[m]]]
    /\ fold' = [fold EXCEPT ![f] = IdleFold]
    /\ UNCHANGED <<consent, link, stored, horizon, request, device>>

\* The commit.  The foreign key of the hours it inserted asks for the link's row
\* first, and waits for who holds it FOR UPDATE.
Folded(f) ==
    LET l == fold[f].link IN
    /\ fold[f].at = "deleted"
    /\ Inserted(f) # {} => \A q \in Requests : l \notin request[q].held
    /\ reading' = [reading EXCEPT ![l] =
          [m \in Moments |-> IF m \in Deleted(f) THEN 0 ELSE @[m]]]
    /\ hours' = [hours EXCEPT ![l] =
          [m \in Moments |-> IF m \in fold[f].wrote
                             THEN fold[f].base[m] + (IF m \in Folding(f) THEN 1 ELSE 0)
                             ELSE @[m]]]
    /\ fold' = [fold EXCEPT ![f] = IdleFold]
    /\ UNCHANGED <<consent, link, stored, horizon, request, device>>

\* The run dies, is killed to break a deadlock, or meets an IntegrityError.
Die(f) ==
    /\ fold[f].at # "idle"
    /\ fold' = [fold EXCEPT ![f] = IdleFold]
    /\ UNCHANGED <<consent, tables, horizon, request, device>>

Age ==
    /\ horizon < MaxMoments
    /\ horizon' = horizon + 1
    /\ UNCHANGED <<consent, tables, request, device, fold>>

-----------------------------------------------------------------------------

Serve(q) ==
    \/ MayLink(q)
    \/ \E op \in {"link", "unlink", "withdraw"} : Look(q, op)
    \/ Hold(q) \/ EraseQuarters(q) \/ EraseHours(q) \/ Unlinked(q)
    \/ LookAgain(q) \/ Supersede(q) \/ Linked(q)

Push(d) ==
    \/ \E l \in Links : Authenticate(d, l)
    \/ \E batch \in SUBSET Moments \ {{}} : Store(d, batch)
    \/ Refuse(d)

Fold(f) ==
    \/ \E l \in Links, cutoff \in 0..MaxMoments : ReadQuarters(f, l, cutoff)
    \/ ReadHours(f) \/ WriteHours(f) \/ DeleteQuarters(f) \/ Folded(f)

Next ==
    \/ Grant \/ Age
    \/ \E q \in Requests : Serve(q) \/ Abort(q)
    \/ \E d \in Devices : Push(d)
    \/ \E f \in Folds : Fold(f) \/ Die(f)

Spec == Init /\ [][Next]_vars

\* An erasure wants a quarter the fold has deleted, or an hour it has updated.
ErasureWaits(q, f) ==
    /\ fold[f].link \in request[q].held
    /\ \/ request[q].at = "holding" /\ Deleted(f) # {}
       \/ request[q].at = "erasing" /\ Updated(f) # {}

\* The fold wants a quarter the erasure has deleted, or the link's row.
FoldWaits(f, q) ==
    \/ /\ fold[f].at = "written"
       /\ \E m \in ToDelete(f) : <<fold[f].link, m>> \in request[q].quarters
    \/ /\ fold[f].at = "deleted" /\ Inserted(f) # {}
       /\ fold[f].link \in request[q].held

\* Each waits for the other: PostgreSQL kills one of them.
Deadlocked(q, f) == ErasureWaits(q, f) /\ FoldWaits(f, q)

BreakDeadlock ==
    \E q \in Requests, f \in Folds : Deadlocked(q, f) /\ (Abort(q) \/ Die(f))

\* A stretch in which nothing dies but to break a deadlock.  A request that has
\* begun goes on, the timer runs the fold every day over every link with old
\* quarters, and PostgreSQL serves the waiters of a row in turn.
FairSpec ==
    /\ Init
    /\ [][\/ Grant \/ Age \/ BreakDeadlock
          \/ \E q \in Requests : Serve(q)
          \/ \E d \in Devices : Push(d)
          \/ \E f \in Folds : Fold(f)]_vars
    /\ WF_vars(BreakDeadlock)
    /\ \A q \in Requests :
          /\ WF_vars(Unlinked(q) \/ LookAgain(q) \/ Linked(q))
          /\ SF_vars(Hold(q)) /\ SF_vars(Supersede(q))
          /\ SF_vars(EraseQuarters(q)) /\ SF_vars(EraseHours(q))
    /\ \A f \in Folds :
          /\ WF_vars(ReadHours(f)) /\ SF_vars(WriteHours(f))
          /\ SF_vars(DeleteQuarters(f)) /\ SF_vars(Folded(f))
          /\ \A l \in Links : SF_vars(ReadQuarters(f, l, horizon))

-----------------------------------------------------------------------------

\* One link of an account is active at a time (MeterLink's docstring).
OneActiveLink == \A a, b \in Active : a = b

IsEmpty(l) == reading[l] = None /\ hours[l] = None

\* A link that stops working leaves nothing behind at that moment.
EmptiedWhenRevoked ==
    [][\A l \in Links : link[l] = "active" /\ link'[l] = "revoked" => IsEmpty(l)']_vars

\* While a link works, each write of a quarter is in the table or in an hour's
\* sums, and in one of them only: a fold neither loses nor repeats one.
FoldsConserve ==
    \A l \in Active, m \in Moments :
        stored[l][m] = hours[l][m] + (IF reading[l][m] > 0 THEN 1 ELSE 0)

Contract == INSTANCE MeterContract

\* Every request, every push and every run of the fold takes effect at its
\* commit, as one step of the contract: a link stops together with all that is
\* stored under it, a fold moves each quarter once and none before its time, and
\* nothing touches another link (link_meter, unlink_meter, store_readings,
\* purge_meter_readings).
ImplementsContract == Contract!Spec

\* A quarter past the retention leaves the table, folded or erased.
OldQuartersLeave ==
    \A l \in Links, m \in Moments :
        m <= horizon /\ reading[l][m] > 0 ~> reading[l][m] = 0

(***************************************************************************)
(* The inductive invariant the proofs rest on, checked by TLC as well.     *)
(***************************************************************************)

\* A request holds working links only, and deletes nothing of any other.
HoldsWorkingLinks(q) ==
    LET r == request[q] IN
    /\ r.held \cup r.revokes \subseteq Active
    /\ r.quarters \cup r.spans \subseteq r.held \X Moments
    /\ r.at \in {"idle", "checked", "looking"} => r.held = {}
    /\ r.at # "creating" => r.revokes = {}
    /\ r.at = "superseding" => r.held \subseteq r.seen
    /\ r.at = "creating" => r.held \subseteq r.revokes

\* No two requests have written or locked the same link.
LocksApart ==
    \A q, r \in Requests : q # r =>
        (request[q].held \cup request[q].revokes)
            \cap (request[r].held \cup request[r].revokes) = {}

\* While its link works, a run of the fold sees what the tables hold.
FoldsWhatIsThere(f) ==
    LET l == fold[f].link IN
    /\ fold[f].at # "idle" => l \in Links /\ link[l] # "none"
    /\ fold[f].at # "idle" /\ link[l] = "active" =>
          \A m \in Folding(f) : reading[l][m] = fold[f].rows[m]
    /\ fold[f].at \in {"looked", "written", "deleted"} /\ link[l] = "active" =>
          \A m \in InHoursOf(Folding(f)) : fold[f].base[m] = hours[l][m]
    /\ fold[f].at \in {"written", "deleted"} /\ link[l] = "active" =>
          fold[f].wrote = InHoursOf(Folding(f))
    /\ fold[f].at \notin {"written", "deleted"} => fold[f].wrote = {}

\* A request that is about to make a link revokes every one that works.
SeesEveryLink ==
    /\ OneActiveLink
    /\ \A q \in Requests :
          /\ request[q].at = "superseding" => Active \subseteq request[q].seen
          /\ request[q].at = "creating" => Active \subseteq request[q].revokes

\* A request that has erased quarters left none of its links' in the table but
\* those it deletes; one that has erased hours left no hour either, and no run of
\* the fold is about to update one.
ErasesItsLinks(q) ==
    LET r == request[q] IN
    /\ r.at \in {"erasing", "erased", "superseding", "creating"} =>
          \A l \in r.held, m \in Moments : reading[l][m] > 0 => <<l, m>> \in r.quarters
    /\ r.at \in {"erased", "superseding", "creating"} =>
          \A l \in r.held :
             /\ \A m \in Moments : hours[l][m] > 0 => <<l, m>> \in r.spans
             /\ \A f \in Folds : fold[f].link = l => Updated(f) = {}

\* A request that is about to make a link has locked every one that works.
HoldsEveryLink(q) ==
    LET r == request[q] IN
    /\ r.at \in {"superseding", "creating"} => r.op = "link"
    /\ r.op = "link" /\ r.at = "looking" => Active \subseteq r.seen
    /\ r.op = "link" /\ r.at \notin {"idle", "checked", "looking"} => Active \subseteq r.held

ErasureInv == \A q \in Requests : ErasesItsLinks(q) /\ HoldsEveryLink(q)

\* A request that is about to unlink has locked every link that works.
UnlinksEveryLink(q) ==
    LET r == request[q] IN
    /\ r.op # "link" /\ r.at = "looking" => Active \subseteq r.seen
    /\ r.op # "link" /\ r.at \notin {"idle", "checked", "looking"} => Active \subseteq r.held

\* A run of the fold takes no quarter before its time.
FoldsOldQuarters(f) == \A m \in Folding(f) : m <= horizon

\* The household does one thing at a time.
OneRequest == \A q, r \in Requests : q = r

\* The timer's unit runs one fold at a time.
OneFold == \A f, g \in Folds : f = g

MeterInv ==
    /\ TypeOK
    /\ \A q \in Requests : HoldsWorkingLinks(q)
    /\ LocksApart
    /\ \A f \in Folds : FoldsWhatIsThere(f)
    /\ FoldsConserve
    /\ \A d \in Devices : device[d] # 0 => link[device[d]] # "none"
    /\ \A l \in Links : link[l] = "none" =>
          reading[l] = None /\ hours[l] = None /\ stored[l] = None

\* What the refinement rests on, for a household that does one thing at a time.
ContractInv ==
    /\ MeterInv /\ SeesEveryLink /\ ErasureInv
    /\ \A q \in Requests : UnlinksEveryLink(q)
    /\ \A f \in Folds : FoldsOldQuarters(f)

(***************************************************************************)
(* What the sources say and the interleavings refute.                      *)
(***************************************************************************)

\* decisions.md 62: unlinking deletes every QuarterReading and HourAggregate.
RevokedLinksAreEmpty == \A l \in Links : link[l] = "revoked" => IsEmpty(l)

\* QuarterReading: a device that replays its buffer never writes a quarter twice.
WrittenOnce ==
    \A l \in Links, m \in Moments :
        hours[l][m] + (IF reading[l][m] > 0 THEN 1 ELSE 0) <= 1

=============================================================================
