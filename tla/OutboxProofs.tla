---------------------------- MODULE OutboxProofs ----------------------------
(* Proofs about Outbox for any accounts, tokens, requests and runs of the   *)
(* command.                                                                 *)
EXTENDS Outbox, TLAPS

SenderSteps == {"idle", "claimed", "minting", "sending", "taken", "refused"}

\* A run of the command that moves on changes itself and nobody else.
LEMMA SenderMoves ==
    ASSUME sender \in [Senders -> SenderState], NEW s \in Senders, NEW r \in SenderState,
           sender' = [sender EXCEPT ![s] = r]
    PROVE  /\ sender' \in [Senders -> SenderState]
           /\ sender'[s] = r
           /\ \A z \in Senders \ {s} : sender'[z] = sender[z]
OBVIOUS

\* The same for a request.
LEMMA RequestMoves ==
    ASSUME request \in [Requests -> RequestState], NEW q \in Requests, NEW r \in RequestState,
           request' = [request EXCEPT ![q] = r]
    PROVE  /\ request' \in [Requests -> RequestState]
           /\ request'[q] = r
           /\ \A z \in Requests \ {q} : request'[z] = request[z]
OBVIOUS

\* Setting a row's state changes that row's state.
LEMMA MailSet ==
    ASSUME TypeOK, NEW m \in Mails, NEW x \in {"none", "waiting", "failed", "gone"},
           mail' = [mail EXCEPT ![m].state = x]
    PROVE  /\ mail' \in [Mails -> MailRow] /\ mail'[m].state = x
           /\ mail'[m].user = mail[m].user
           /\ \A z \in Mails \ {m} : mail'[z] = mail[z]
<1>1. mail \in [Mails -> MailRow]
  BY DEF TypeOK
<1>2. [mail[m] EXCEPT !.state = x] \in MailRow
  BY <1>1 DEF MailRow
<1> QED BY <1>1, <1>2 DEF MailRow

\* The same for its two dates, and for what becomes of a link.
LEMMA MailAged ==
    \A row \in MailRow, b \in BOOLEAN :
        /\ [row EXCEPT !.due = b] \in MailRow /\ [row EXCEPT !.old = b] \in MailRow
        /\ [row EXCEPT !.due = b].state = row.state /\ [row EXCEPT !.due = b].user = row.user
        /\ [row EXCEPT !.old = b].state = row.state /\ [row EXCEPT !.old = b].user = row.user
BY DEF MailRow

LEMMA MailGone ==
    \A row \in MailRow : /\ [row EXCEPT !.state = "gone"] \in MailRow
                         /\ [row EXCEPT !.state = "gone"].state = "gone"
BY DEF MailRow

LEMMA LinkMarked ==
    \A row \in LinkRow :
        /\ [row EXCEPT !.state = "gone"] \in LinkRow
        /\ [row EXCEPT !.state = "gone"].state = "gone"
        /\ [row EXCEPT !.state = "superseded"] \in LinkRow
        /\ [row EXCEPT !.state = "superseded"].state = "superseded"
BY DEF LinkRow

LEMMA RestTyped ==
    /\ IdleRequest \in RequestState /\ IdleRequest.at = "idle"
    /\ IdleSender \in SenderState /\ IdleSender.at = "idle"
    /\ IdleSender.mail = None /\ IdleSender.token = None
BY DEF IdleRequest, RequestState, IdleSender, SenderState, Turn

\* A request keeps what it relies on while nobody touches the rows it holds.
LEMMA RequestUndisturbed ==
    ASSUME NEW q \in Requests, ConfirmsWhatItHolds(q), request'[q] = request[q],
           \A t \in Tokens : lock[t] = q => lock'[t] = q /\ link'[t] = link[t]
    PROVE  ConfirmsWhatItHolds(q)'
BY DEF ConfirmsWhatItHolds

\* So does a run of the command.
LEMMA SenderUndisturbed ==
    ASSUME TypeOK, NEW s \in Senders, SendsWhatItHolds(s), sender'[s] = sender[s],
           \A m \in Mails : claimed[m] = s =>
               claimed'[m] = s /\ mail'[m].state = mail[m].state,
           \A t \in Tokens : lock[t] = s => lock'[t] = s /\ link'[t] = link[t],
           sender[s].at \in {"sending", "taken", "refused"} =>
               LET n == sender[s].token IN
               origin'[n] = origin[n] /\ link'[n].state = link[n].state,
           accepted \subseteq accepted'
    PROVE  SendsWhatItHolds(s)'
<1> USE DEF SendsWhatItHolds
<1>1. sender[s].older \subseteq Tokens /\ sender[s].at \in SenderSteps
  BY DEF TypeOK, SenderState, SenderSteps
<1> QED BY <1>1

\* A process that lets go of its rows lets go of nobody else's.
LEMMA FreedOnly ==
    ASSUME TypeOK, NEW p \in Processes
    PROVE  /\ Freed(p) \in [Tokens -> Processes \cup {None}]
           /\ \A t \in Tokens : Freed(p)[t] # p
           /\ \A t \in Tokens : lock[t] # p => Freed(p)[t] = lock[t]
           /\ \A t \in Tokens : Freed(p)[t] # None => Freed(p)[t] = lock[t]
BY NoneIsNobody DEF Freed, TypeOK, Processes

\* Requests and runs of the command are different processes, and none is None.
LEMMA ProcessFacts ==
    /\ \A q \in Requests : q \in Processes /\ q \notin Senders /\ q # None
    /\ \A s \in Senders : s \in Processes /\ s \notin Requests /\ s # None
    /\ None \notin Mails /\ None \notin Tokens /\ None \notin Users
BY NoneIsNobody, ProcessesDiffer DEF Processes, Mails

\* Two runs of the command never draw the same token, nor hold the same row.
LEMMA SendersApart ==
    ASSUME OutboxInv, NEW a \in Senders, NEW b \in Senders, a # b,
           sender[a].at # "idle", sender[b].at # "idle"
    PROVE  /\ sender[a].mail # sender[b].mail
           /\ sender[a].at \in {"sending", "taken", "refused"} =>
                 (sender[b].at \in {"sending", "taken", "refused"} =>
                    sender[a].token # sender[b].token)
BY DEF OutboxInv, SendsWhatItHolds

\* The invariant holds of the empty tables.
LEMMA InvInit == Init => OutboxInv
<1> SUFFICES ASSUME Init PROVE OutboxInv
  OBVIOUS
<1>1. TypeOK
  BY RestTyped DEF Init, TypeOK, MailRow, LinkRow
<1>2. \A q \in Requests : ConfirmsWhatItHolds(q)
  BY RestTyped DEF Init, ConfirmsWhatItHolds
<1>3. \A s \in Senders : SendsWhatItHolds(s)
  BY RestTyped DEF Init, SendsWhatItHolds
<1> QED BY <1>1, <1>2, <1>3 DEF OutboxInv, Init, UsedOnce, DigestsWereAccepted

-----------------------------------------------------------------------------
(* Requests.                                                               *)

\* Asking reads; the row comes later.
LEMMA AskStep ==
    ASSUME OutboxInv, NEW q \in Requests, NEW u \in Users, NEW k \in Kinds, Ask(q, u, k)
    PROVE  OutboxInv'
<1> DEFINE r == [at |-> "enqueuing", user |-> u, kind |-> k, token |-> None]
<1> USE DEF people, outbox, links, outside, history
<1>0. TypeOK
  BY DEF OutboxInv
<1>1. r \in RequestState /\ r.at # "confirming"
  BY KindsAreKnown DEF RequestState
<1>2. /\ request' \in [Requests -> RequestState] /\ request'[q] = r
      /\ \A z \in Requests \ {q} : request'[z] = request[z]
  BY <1>0, <1>1, RequestMoves DEF Ask, TypeOK
<1>3. \A z \in Requests : ConfirmsWhatItHolds(z)'
  BY <1>1, <1>2 DEF OutboxInv, ConfirmsWhatItHolds, Ask
<1>4. \A s \in Senders : SendsWhatItHolds(s)'
  BY DEF OutboxInv, SendsWhatItHolds, Ask
<1>5. TypeOK'
  BY <1>0, <1>2 DEF TypeOK, Ask
<1> QED BY <1>3, <1>4, <1>5 DEF OutboxInv, UsedOnce, DigestsWereAccepted, Ask

\* The row is new, and its account is there.
LEMMA EnqueueStep ==
    ASSUME OutboxInv, NEW q \in Requests, Enqueue(q)
    PROVE  OutboxInv'
<1> USE DEF people, links, outside, history
<1>0. TypeOK /\ request[q] \in RequestState
  BY DEF OutboxInv, TypeOK
<1>1. /\ request' \in [Requests -> RequestState] /\ request'[q] = IdleRequest
      /\ \A z \in Requests \ {q} : request'[z] = request[z]
  BY <1>0, RestTyped, RequestMoves DEF Enqueue, TypeOK
<1>2. \A z \in Requests : ConfirmsWhatItHolds(z)'
  BY <1>1, RestTyped DEF OutboxInv, ConfirmsWhatItHolds, Enqueue
<1>3. CASE mail' = mail
  <2>1. \A s \in Senders : SendsWhatItHolds(s)'
    BY <1>3 DEF OutboxInv, SendsWhatItHolds, Enqueue
  <2>2. TypeOK'
    BY <1>0, <1>1, <1>3 DEF TypeOK, Enqueue
  <2> QED BY <1>2, <1>3, <2>1, <2>2 DEF OutboxInv, UsedOnce, DigestsWereAccepted, Enqueue
<1>4. ASSUME NEW m \in Mails, mail[m].state = "none", request[q].user \in accounts,
             mail' = [mail EXCEPT ![m] =
                         [state |-> "waiting", user |-> request[q].user,
                          kind |-> request[q].kind, due |-> TRUE, old |-> FALSE]]
      PROVE  OutboxInv'
  <2>1. [state |-> "waiting", user |-> request[q].user,
         kind |-> request[q].kind, due |-> TRUE, old |-> FALSE] \in MailRow
    BY <1>0 DEF MailRow, RequestState
  <2>2. TypeOK'
    BY <1>0, <1>1, <1>4, <2>1 DEF TypeOK, Enqueue
  <2>3. \A n \in Mails \ {m} : mail'[n] = mail[n]
    BY <1>0, <1>4 DEF TypeOK
  <2>4. /\ mail'[m].user = request[q].user /\ mail'[m].state = "waiting"
    BY <1>0, <1>4 DEF TypeOK
  <2>5. ASSUME NEW s \in Senders PROVE SendsWhatItHolds(s)'
    BY <1>0, <1>4, <2>3, SenderUndisturbed DEF OutboxInv, SendsWhatItHolds, Enqueue
  <2>6. \A n \in Mails : (mail[n].state = "waiting" => mail[n].user \in accounts)'
    BY <1>4, <2>3, <2>4 DEF OutboxInv, Enqueue
  <2> QED BY <1>2, <2>2, <2>5, <2>6 DEF OutboxInv, UsedOnce, DigestsWereAccepted, Enqueue
<1> QED BY <1>3, <1>4 DEF Enqueue

\* The lock is taken on a fresh link nobody holds.
LEMMA LockLinkStep ==
    ASSUME OutboxInv, NEW q \in Requests, NEW t \in Tokens, LockLink(q, t)
    PROVE  OutboxInv'
<1> DEFINE r == [at |-> "confirming", user |-> None, kind |-> Reset, token |-> t]
<1> USE DEF people, outbox, outside, history
<1>0. TypeOK
  BY DEF OutboxInv
<1>1. r \in RequestState /\ r.token = t
  BY DEF RequestState
<1>2. /\ request' \in [Requests -> RequestState] /\ request'[q] = r
      /\ \A z \in Requests \ {q} : request'[z] = request[z]
  BY <1>0, <1>1, RequestMoves DEF LockLink, TypeOK
<1>3. /\ lock' = [lock EXCEPT ![t] = q] /\ lock[t] = None /\ link[t].state = "fresh"
      /\ \A z \in Tokens \ {t} : lock'[z] = lock[z]
      /\ lock'[t] = q
  BY <1>0 DEF LockLink, IsUsable, TypeOK
<1>4. \A z \in Requests : ConfirmsWhatItHolds(z)'
  BY <1>1, <1>2, <1>3, ProcessFacts DEF OutboxInv, ConfirmsWhatItHolds, LockLink
<1>5. ASSUME NEW s \in Senders PROVE SendsWhatItHolds(s)'
  BY <1>0, <1>3, ProcessFacts, SenderUndisturbed DEF OutboxInv, LockLink
<1>6. TypeOK'
  BY <1>0, <1>2, <1>3, ProcessFacts DEF TypeOK, LockLink
<1>7. \A z \in Tokens : link'[z].state = "none" => lock'[z] = None
  BY <1>3 DEF OutboxInv, LockLink
<1> QED BY <1>4, <1>5, <1>6, <1>7 DEF OutboxInv, UsedOnce, DigestsWereAccepted, LockLink

\* The link it spends is the one it holds, and had never been spent.
LEMMA ConfirmStep ==
    ASSUME OutboxInv, NEW q \in Requests, Confirm(q)
    PROVE  OutboxInv'
<1> DEFINE t == request[q].token
<1> USE DEF outbox, outside
<1>0. /\ TypeOK /\ t \in Tokens /\ lock[t] = q /\ link[t].state = "fresh" /\ uses[t] = 0
  BY DEF OutboxInv, Confirm, ConfirmsWhatItHolds
<1>1. /\ request' \in [Requests -> RequestState] /\ request'[q] = IdleRequest
      /\ \A z \in Requests \ {q} : request'[z] = request[z]
  BY <1>0, RestTyped, RequestMoves DEF Confirm, TypeOK
<1>2. /\ link' = [link EXCEPT ![t].state = "spent"]
      /\ uses' = [uses EXCEPT ![t] = uses[t] + 1] /\ lock' = Freed(q)
      /\ UNCHANGED <<accounts, mail, claimed, expired, accepted, inbox, origin, sender>>
  BY DEF Confirm
<1> HIDE DEF t
<1>3. /\ \A z \in Tokens \ {t} : link'[z] = link[z] /\ uses'[z] = uses[z]
      /\ link'[t].state = "spent" /\ uses'[t] = 1
  BY <1>0, <1>2 DEF TypeOK, LinkRow
<1>4. ASSUME NEW z \in Requests PROVE ConfirmsWhatItHolds(z)'
  <2>1. CASE z = q
    BY <1>1, <2>1, RestTyped DEF ConfirmsWhatItHolds
  <2>2. CASE z # q
    BY <1>0, <1>1, <1>2, <1>3, <2>2, FreedOnly, ProcessFacts, RequestUndisturbed DEF OutboxInv
  <2> QED BY <2>1, <2>2
<1>5. ASSUME NEW s \in Senders PROVE SendsWhatItHolds(s)'
  BY <1>0, <1>2, <1>3, FreedOnly, ProcessFacts, SenderUndisturbed DEF OutboxInv, SendsWhatItHolds
<1>6. TypeOK'
  <2>1. link' \in [Tokens -> LinkRow] /\ uses' \in [Tokens -> Nat]
    BY <1>0, <1>2 DEF TypeOK, LinkRow
  <2>2. verified' \subseteq Users
    <3>1. link[t].user \in Users
      BY <1>0 DEF OutboxInv
    <3> QED BY <1>0, <3>1 DEF Confirm, TypeOK, t
  <2> QED BY <1>0, <1>1, <1>2, <2>1, <2>2, FreedOnly, ProcessFacts DEF TypeOK
<1>7. UsedOnce'
  BY <1>3 DEF OutboxInv, UsedOnce
<1>8. DigestsWereAccepted'
  BY <1>0, <1>2, <1>3 DEF OutboxInv, DigestsWereAccepted
<1>9. \A z \in Tokens : link'[z].state = "none" => lock'[z] = None
  BY <1>0, <1>2, <1>3, FreedOnly, ProcessFacts DEF OutboxInv
<1> QED BY <1>2, <1>3, <1>4, <1>5, <1>6, <1>7, <1>8, <1>9 DEF OutboxInv

\* Nothing was written: the request lets go of its row.
LEMMA AbandonStep ==
    ASSUME OutboxInv, NEW q \in Requests, Abandon(q)
    PROVE  OutboxInv'
<1> USE DEF people, outbox, outside, history
<1>0. TypeOK /\ lock' = Freed(q)
  BY DEF OutboxInv, Abandon
<1>1. /\ request' \in [Requests -> RequestState] /\ request'[q] = IdleRequest
      /\ \A z \in Requests \ {q} : request'[z] = request[z]
  BY <1>0, RestTyped, RequestMoves DEF Abandon, TypeOK
<1>2. ASSUME NEW z \in Requests PROVE ConfirmsWhatItHolds(z)'
  <2>1. CASE z = q
    BY <1>1, <2>1, RestTyped DEF ConfirmsWhatItHolds
  <2>2. CASE z # q
    BY <1>0, <1>1, <2>2, FreedOnly, ProcessFacts, RequestUndisturbed DEF OutboxInv, Abandon
  <2> QED BY <2>1, <2>2
<1>3. ASSUME NEW s \in Senders PROVE SendsWhatItHolds(s)'
  BY <1>0, FreedOnly, ProcessFacts, SenderUndisturbed DEF OutboxInv, Abandon
<1>4. TypeOK'
  BY <1>0, <1>1, FreedOnly, ProcessFacts DEF TypeOK, Abandon
<1>5. \A z \in Tokens : link'[z].state = "none" => lock'[z] = None
  BY <1>0, FreedOnly, ProcessFacts DEF OutboxInv, Abandon
<1> QED BY <1>2, <1>3, <1>4, <1>5 DEF OutboxInv, UsedOnce, DigestsWereAccepted, Abandon

-----------------------------------------------------------------------------
(* Runs of the command.                                                    *)

\* A run of the command that writes only rows it holds, or that nobody holds,
\* disturbs nobody else.
LEMMA OthersUndisturbed ==
    ASSUME OutboxInv, NEW s \in Senders, request' = request,
           \A z \in Senders \ {s} : sender'[z] = sender[z],
           accepted \subseteq accepted',
           \A m \in Mails : claimed[m] \notin {s, None} =>
               claimed'[m] = claimed[m] /\ mail'[m] = mail[m],
           \A t \in Tokens : lock[t] \notin {s, None} =>
               lock'[t] = lock[t] /\ link'[t] = link[t],
           \A t \in Tokens : t # sender[s].token =>
               /\ origin[t] # None => origin'[t] = origin[t]
               /\ link[t].state = "none" => link'[t] = link[t]
    PROVE  /\ \A q \in Requests : ConfirmsWhatItHolds(q)'
           /\ \A z \in Senders \ {s} : SendsWhatItHolds(z)'
<1>0. TypeOK
  BY DEF OutboxInv
<1>1. ASSUME NEW q \in Requests PROVE ConfirmsWhatItHolds(q)'
  <2>1. \A t \in Tokens : lock[t] = q => lock'[t] = q /\ link'[t] = link[t]
    BY ProcessFacts
  <2> QED BY <2>1, RequestUndisturbed DEF OutboxInv
<1>2. ASSUME NEW z \in Senders \ {s} PROVE SendsWhatItHolds(z)'
  <2>1. \A t \in Tokens : lock[t] = z => lock'[t] = z /\ link'[t] = link[t]
    BY ProcessFacts
  <2>2. \A m \in Mails : claimed[m] = z => claimed'[m] = z /\ mail'[m].state = mail[m].state
    BY ProcessFacts
  <2>3. ASSUME sender[z].at \in {"sending", "taken", "refused"}
        PROVE  LET n == sender[z].token IN
               origin'[n] = origin[n] /\ link'[n].state = link[n].state
    <3> DEFINE n == sender[z].token
    <3>1. /\ n \in Tokens /\ origin[n] # None /\ link[n].state = "none"
      BY <2>3, ProcessFacts DEF OutboxInv, SendsWhatItHolds
    <3>2. n # sender[s].token
      <4>1. sender[s].at \in SenderSteps
        BY <1>0 DEF TypeOK, SenderState, SenderSteps
      <4>2. CASE sender[s].at \in {"sending", "taken", "refused"}
        BY <2>3, <4>2, SendersApart
      <4>3. CASE sender[s].at \in {"idle", "claimed", "minting"}
        BY <3>1, <4>3, ProcessFacts DEF OutboxInv, SendsWhatItHolds
      <4> QED BY <4>1, <4>2, <4>3 DEF SenderSteps
    <3> QED BY <3>1, <3>2
  <2>4. SendsWhatItHolds(z) /\ sender'[z] = sender[z]
    BY DEF OutboxInv
  <2> QED BY <1>0, <2>1, <2>2, <2>3, <2>4, SenderUndisturbed
<1> QED BY <1>1, <1>2

\* The outbox row is taken while nobody holds it.
LEMMA ClaimStep ==
    ASSUME OutboxInv, NEW s \in Senders, Claim(s)
    PROVE  OutboxInv'
<1> USE DEF people, links, outside, history
<1>0. TypeOK
  BY DEF OutboxInv
<1>1. PICK m \in Mails :
         /\ mail[m].state = "waiting" /\ claimed[m] = None
         /\ claimed' = [claimed EXCEPT ![m] = s]
         /\ sender' = [sender EXCEPT ![s] = Turn("claimed", m, None, {}, TRUE)]
  BY DEF Claim, Claimable
<1> DEFINE r == Turn("claimed", m, None, {}, TRUE)
<1>2. /\ "claimed" \in SenderSteps /\ {} \in SUBSET Tokens /\ TRUE \in BOOLEAN
      /\ m \in Mails \cup {None} /\ None \in Tokens \cup {None}
  BY DEF SenderSteps
<1>3. /\ r \in SenderState /\ r.at = "claimed" /\ r.mail = m /\ r.token = None
  BY <1>2 DEF Turn, SenderState
<1> HIDE DEF r
<1>4. /\ sender' \in [Senders -> SenderState] /\ sender'[s] = r
      /\ \A z \in Senders \ {s} : sender'[z] = sender[z]
  BY <1>0, <1>1, <1>3, SenderMoves DEF TypeOK, r
<1>5. /\ claimed' \in [Mails -> Senders \cup {None}] /\ claimed'[m] = s
      /\ \A n \in Mails \ {m} : claimed'[n] = claimed[n]
  BY <1>0, <1>1 DEF TypeOK
<1>6. UNCHANGED <<accounts, verified, mail, link, expired, lock, accepted, inbox,
                  origin, uses, request>>
  BY DEF Claim
<1>7. /\ \A q \in Requests : ConfirmsWhatItHolds(q)'
      /\ \A z \in Senders \ {s} : SendsWhatItHolds(z)'
  BY <1>1, <1>4, <1>5, <1>6, OthersUndisturbed
<1>8. SendsWhatItHolds(s)'
  BY <1>1, <1>3, <1>4, <1>5, <1>6 DEF SendsWhatItHolds
<1>9. TypeOK'
  BY <1>0, <1>4, <1>5, <1>6 DEF TypeOK
<1> QED BY <1>6, <1>7, <1>8, <1>9 DEF OutboxInv, UsedOnce, DigestsWereAccepted

\* The snapshot is only read.
LEMMA BeginMintStep ==
    ASSUME OutboxInv, NEW s \in Senders, BeginMint(s)
    PROVE  OutboxInv'
<1> USE DEF people, outbox, links, outside, history
<1> DEFINE m == sender[s].mail
           F == Fresh(mail[m].user, mail[m].kind)
           r == Turn("minting", m, None, F, TRUE)
<1>0. TypeOK /\ sender[s].at = "claimed" /\ sender' = [sender EXCEPT ![s] = r]
  BY DEF OutboxInv, BeginMint
<1>1. /\ m \in Mails /\ claimed[m] = s /\ mail[m].state = "waiting"
  BY <1>0 DEF OutboxInv, SendsWhatItHolds
<1>2. F \in SUBSET Tokens
  BY DEF Fresh
<1>3. /\ "minting" \in SenderSteps /\ TRUE \in BOOLEAN
      /\ m \in Mails \cup {None} /\ None \in Tokens \cup {None}
  BY <1>1 DEF SenderSteps
<1> HIDE DEF F, m
<1>4. /\ r \in SenderState /\ r.at = "minting" /\ r.mail = m /\ r.token = None
  BY <1>1, <1>2, <1>3 DEF Turn, SenderState
<1> HIDE DEF r
<1>5. /\ sender' \in [Senders -> SenderState] /\ sender'[s] = r
      /\ \A z \in Senders \ {s} : sender'[z] = sender[z]
  BY <1>0, <1>4, SenderMoves DEF TypeOK
<1>6. UNCHANGED <<accounts, verified, mail, claimed, link, expired, lock, accepted,
                  inbox, origin, uses, request>>
  BY DEF BeginMint
<1>7. /\ \A q \in Requests : ConfirmsWhatItHolds(q)'
      /\ \A z \in Senders \ {s} : SendsWhatItHolds(z)'
  BY <1>5, <1>6, OthersUndisturbed
<1>8. SendsWhatItHolds(s)'
  BY <1>1, <1>4, <1>5, <1>6 DEF SendsWhatItHolds
<1>9. TypeOK'
  BY <1>0, <1>5, <1>6 DEF TypeOK
<1> QED BY <1>6, <1>7, <1>8, <1>9 DEF OutboxInv, UsedOnce, DigestsWereAccepted

\* The new token belongs to nobody; the links it supersedes are locked, and
\* were held by nobody.
LEMMA MintStep ==
    ASSUME OutboxInv, NEW s \in Senders, Mint(s)
    PROVE  OutboxInv'
<1> USE DEF people, outbox, outside
<1> DEFINE m == sender[s].mail
           still == {t \in sender[s].older : link[t].state = "fresh"}
<1>0. /\ TypeOK /\ sender[s].at = "minting" /\ \A t \in sender[s].older : lock[t] = None
      /\ lock' = [t \in Tokens |-> IF t \in still THEN s ELSE lock[t]]
      /\ UNCHANGED <<accounts, verified, mail, claimed, link, expired, accepted, inbox,
                     uses, request>>
  BY DEF OutboxInv, Mint
<1>1. PICK n \in Tokens :
         /\ origin[n] = None
         /\ origin' = [origin EXCEPT ![n] = m]
         /\ sender' = [sender EXCEPT ![s] = Turn("sending", m, n, still, TRUE)]
  BY DEF Mint
<1> DEFINE r == Turn("sending", m, n, still, TRUE)
<1>2. /\ m \in Mails /\ claimed[m] = s /\ mail[m].state = "waiting" /\ sender[s].token = None
  BY <1>0 DEF OutboxInv, SendsWhatItHolds
<1>3. /\ "sending" \in SenderSteps /\ still \in SUBSET Tokens
      /\ \A t \in still : link[t].state = "fresh" /\ lock[t] = None
  BY <1>0 DEF SenderSteps, TypeOK, SenderState
<1>4. link[n].state = "none"
  BY <1>1, ProcessFacts, <1>0 DEF OutboxInv, DigestsWereAccepted, TypeOK
<1> HIDE DEF still, m
<1>5. /\ r \in SenderState /\ r.at = "sending" /\ r.mail = m /\ r.token = n /\ r.older = still
  BY <1>2, <1>3 DEF Turn, SenderState
<1> HIDE DEF r
<1>6. /\ sender' \in [Senders -> SenderState] /\ sender'[s] = r
      /\ \A z \in Senders \ {s} : sender'[z] = sender[z]
  BY <1>0, <1>1, <1>5, SenderMoves DEF TypeOK, r
<1>7. /\ origin' \in [Tokens -> Mails \cup {None}] /\ origin'[n] = m
      /\ \A t \in Tokens \ {n} : origin'[t] = origin[t]
  BY <1>0, <1>1, <1>2 DEF TypeOK
<1>8. /\ lock' \in [Tokens -> Processes \cup {None}]
      /\ \A t \in still : lock'[t] = s
      /\ \A t \in Tokens : lock[t] # None => lock'[t] = lock[t]
  BY <1>0, <1>3, ProcessFacts DEF TypeOK
<1>9. /\ \A q \in Requests : ConfirmsWhatItHolds(q)'
      /\ \A z \in Senders \ {s} : SendsWhatItHolds(z)'
  BY <1>0, <1>1, <1>6, <1>7, <1>8, OthersUndisturbed
<1>10. SendsWhatItHolds(s)'
  BY <1>0, <1>2, <1>3, <1>4, <1>5, <1>6, <1>7, <1>8 DEF SendsWhatItHolds
<1>11. TypeOK'
  BY <1>0, <1>6, <1>7, <1>8 DEF TypeOK
<1>12. DigestsWereAccepted'
  BY <1>0, <1>4, <1>7 DEF OutboxInv, DigestsWereAccepted
<1>13. \A z \in Tokens : link'[z].state = "none" => lock'[z] = None
  BY <1>0, <1>3 DEF OutboxInv
<1> QED BY <1>0, <1>9, <1>10, <1>11, <1>12, <1>13 DEF OutboxInv, UsedOnce

\* What the provider knows only grows.
LEMMA AcceptStep ==
    ASSUME OutboxInv, NEW s \in Senders, Accept(s)
    PROVE  OutboxInv'
<1> USE DEF people, outbox, links, history
<1> DEFINE m == sender[s].mail
           n == sender[s].token
           S == sender[s].older
<1>0. /\ TypeOK /\ sender[s].at = "sending" /\ accepted' = accepted \cup {m}
      /\ inbox' = IF m \in accepted THEN inbox ELSE [inbox EXCEPT ![m] = n]
      /\ UNCHANGED <<accounts, verified, mail, claimed, link, expired, lock,
                     origin, uses, request>>
  BY DEF OutboxInv, Accept
<1>1. PICK outcome \in {"taken", "refused"} :
         sender' = [sender EXCEPT ![s] = Turn(outcome, m, n, S, TRUE)]
  BY DEF Accept
<1> DEFINE r == Turn(outcome, m, n, S, TRUE)
<1>2. /\ m \in Mails /\ claimed[m] = s /\ mail[m].state = "waiting"
      /\ n \in Tokens /\ origin[n] = m /\ link[n].state = "none"
      /\ \A t \in S : lock[t] = s /\ link[t].state = "fresh"
  BY <1>0 DEF OutboxInv, SendsWhatItHolds
<1>3. S \in SUBSET Tokens
  BY <1>0 DEF TypeOK, SenderState
<1> HIDE DEF m, n, S
<1>4. /\ r \in SenderState /\ r.at = outcome /\ r.mail = m /\ r.token = n /\ r.older = S
  BY <1>2, <1>3 DEF Turn, SenderState
<1> HIDE DEF r
<1>5. /\ sender' \in [Senders -> SenderState] /\ sender'[s] = r
      /\ \A z \in Senders \ {s} : sender'[z] = sender[z]
  BY <1>0, <1>1, <1>4, SenderMoves DEF TypeOK, r
<1>6. /\ \A q \in Requests : ConfirmsWhatItHolds(q)'
      /\ \A z \in Senders \ {s} : SendsWhatItHolds(z)'
  BY <1>0, <1>5, OthersUndisturbed
<1>7. SendsWhatItHolds(s)'
  BY <1>0, <1>2, <1>4, <1>5 DEF SendsWhatItHolds
<1>8. TypeOK'
  BY <1>0, <1>2, <1>5 DEF TypeOK
<1> QED BY <1>0, <1>6, <1>7, <1>8 DEF OutboxInv, UsedOnce, DigestsWereAccepted

\* A refusal leaves the tables alone.
LEMMA RefuseStep ==
    ASSUME OutboxInv, NEW s \in Senders, Refuse(s)
    PROVE  OutboxInv'
<1> USE DEF people, outbox, links, outside, history
<1> DEFINE m == sender[s].mail
           n == sender[s].token
           S == sender[s].older
<1>0. /\ TypeOK /\ sender[s].at = "sending"
      /\ UNCHANGED <<accounts, verified, mail, claimed, link, expired, lock, accepted,
                     inbox, origin, uses, request>>
  BY DEF OutboxInv, Refuse
<1>1. PICK again \in BOOLEAN :
         sender' = [sender EXCEPT ![s] = Turn("refused", m, n, S, again)]
  BY DEF Refuse
<1> DEFINE r == Turn("refused", m, n, S, again)
<1>2. /\ m \in Mails /\ claimed[m] = s /\ mail[m].state = "waiting"
      /\ n \in Tokens /\ origin[n] = m /\ link[n].state = "none"
      /\ \A t \in S : lock[t] = s /\ link[t].state = "fresh"
  BY <1>0 DEF OutboxInv, SendsWhatItHolds
<1>3. S \in SUBSET Tokens
  BY <1>0 DEF TypeOK, SenderState
<1> HIDE DEF m, n, S
<1>4. /\ r \in SenderState /\ r.at = "refused" /\ r.mail = m /\ r.token = n /\ r.older = S
  BY <1>2, <1>3 DEF Turn, SenderState
<1> HIDE DEF r
<1>5. /\ sender' \in [Senders -> SenderState] /\ sender'[s] = r
      /\ \A z \in Senders \ {s} : sender'[z] = sender[z]
  BY <1>0, <1>1, <1>4, SenderMoves DEF TypeOK, r
<1>6. /\ \A q \in Requests : ConfirmsWhatItHolds(q)'
      /\ \A z \in Senders \ {s} : SendsWhatItHolds(z)'
  BY <1>0, <1>5, OthersUndisturbed
<1>7. SendsWhatItHolds(s)'
  BY <1>0, <1>2, <1>4, <1>5 DEF SendsWhatItHolds
<1>8. TypeOK'
  BY <1>0, <1>5 DEF TypeOK
<1> QED BY <1>0, <1>6, <1>7, <1>8 DEF OutboxInv, UsedOnce, DigestsWereAccepted

\* The mint becomes visible together with the end of its outbox row.
LEMMA CommitSentStep ==
    ASSUME OutboxInv, NEW s \in Senders, CommitSent(s)
    PROVE  OutboxInv'
<1> USE DEF people, outside, history
<1> DEFINE m == sender[s].mail
           n == sender[s].token
           S == sender[s].older
           row == [state |-> "fresh", user |-> mail[m].user, kind |-> mail[m].kind]
<1>0. /\ TypeOK /\ sender[s].at = "taken"
      /\ link' = [t \in Tokens |-> IF t = n THEN row
                    ELSE IF t \in S THEN [link[t] EXCEPT !.state = "superseded"] ELSE link[t]]
      /\ mail' = [mail EXCEPT ![m].state = "gone"]
      /\ claimed' = [claimed EXCEPT ![m] = None] /\ lock' = Freed(s)
      /\ sender' = [sender EXCEPT ![s] = IdleSender]
      /\ UNCHANGED <<accounts, verified, expired, accepted, inbox, origin, uses, request>>
  BY DEF OutboxInv, CommitSent
<1>1. /\ m \in Mails /\ claimed[m] = s /\ mail[m].state = "waiting"
      /\ n \in Tokens /\ origin[n] = m /\ link[n].state = "none" /\ m \in accepted
      /\ \A t \in S : lock[t] = s /\ link[t].state = "fresh"
  BY <1>0 DEF OutboxInv, SendsWhatItHolds
<1>2. S \in SUBSET Tokens /\ mail[m] \in MailRow
  BY <1>0, <1>1 DEF TypeOK, SenderState
<1>3. mail[m].user \in accounts /\ accounts \subseteq Users /\ uses[n] = 0
  BY <1>0, <1>1 DEF OutboxInv, TypeOK
<1> HIDE DEF m, n, S
<1>4. row \in LinkRow /\ row.state = "fresh" /\ row.user \in Users
  BY <1>2, <1>3 DEF LinkRow, MailRow
<1> HIDE DEF row
<1>5. /\ sender' \in [Senders -> SenderState] /\ sender'[s] = IdleSender
      /\ \A z \in Senders \ {s} : sender'[z] = sender[z]
  BY <1>0, RestTyped, SenderMoves DEF TypeOK
<1>6. /\ link' \in [Tokens -> LinkRow] /\ link'[n] = row
      /\ \A t \in S \ {n} : link'[t].state = "superseded"
      /\ \A t \in Tokens : t # n /\ t \notin S => link'[t] = link[t]
  BY <1>0, <1>1, <1>2, <1>4, LinkMarked DEF TypeOK
<1>7. /\ mail' \in [Mails -> MailRow] /\ mail'[m].state = "gone"
      /\ \A z \in Mails \ {m} : mail'[z] = mail[z]
  <2>1. "gone" \in {"none", "waiting", "failed", "gone"}
    OBVIOUS
  <2> QED BY <1>0, <1>1, <1>2, <2>1, MailSet
<1>8. /\ claimed' \in [Mails -> Senders \cup {None}]
      /\ \A z \in Mails \ {m} : claimed'[z] = claimed[z]
  BY <1>0 DEF TypeOK
<1>9. /\ lock' \in [Tokens -> Processes \cup {None}]
      /\ \A t \in Tokens : lock[t] # s => lock'[t] = lock[t]
  BY <1>0, FreedOnly, ProcessFacts
<1>10. \A t \in Tokens : lock[t] \notin {s, None} =>
          lock'[t] = lock[t] /\ link'[t] = link[t]
  <2>1. lock[n] = None
    BY <1>1 DEF OutboxInv
  <2> QED BY <1>1, <1>6, <1>9, <2>1
<1>11. /\ \A q \in Requests : ConfirmsWhatItHolds(q)'
       /\ \A z \in Senders \ {s} : SendsWhatItHolds(z)'
  BY <1>0, <1>1, <1>5, <1>6, <1>7, <1>8, <1>10, OthersUndisturbed DEF n
<1>12. SendsWhatItHolds(s)'
  BY <1>5, RestTyped DEF SendsWhatItHolds
<1>13. TypeOK'
  BY <1>0, <1>5, <1>6, <1>7, <1>8, <1>9 DEF TypeOK
<1>14. DigestsWereAccepted'
  BY <1>0, <1>1, <1>6 DEF OutboxInv, DigestsWereAccepted
<1>15. \A z \in Tokens : link'[z].state = "none" => lock'[z] = None
  BY <1>0, <1>1, <1>4, <1>6, FreedOnly, ProcessFacts DEF OutboxInv
<1>16. /\ \A z \in Mails : (mail[z].state = "waiting" => mail[z].user \in accounts)'
       /\ UsedOnce'
  BY <1>0, <1>7 DEF OutboxInv, UsedOnce
<1>17. \A t \in Tokens : /\ (link[t].state \in {"none", "fresh"} => uses[t] = 0)'
                        /\ (link[t].state = "none" => link[t].user = None)'
                        /\ (link[t].state = "fresh" => link[t].user \in Users)'
  BY <1>0, <1>1, <1>3, <1>4, <1>6 DEF OutboxInv
<1> QED BY <1>11, <1>12, <1>13, <1>14, <1>15, <1>16, <1>17 DEF OutboxInv

\* A turn that ends without a commit of the mint leaves no trace of it.
LEMMA TurnEnds ==
    ASSUME OutboxInv, NEW s \in Senders,
           lock' = Freed(s), sender' = [sender EXCEPT ![s] = IdleSender],
           origin' = TakenBack(s),
           UNCHANGED <<accounts, verified, link, expired, accepted, inbox, uses, request>>,
           mail' \in [Mails -> MailRow], claimed' \in [Mails -> Senders \cup {None}],
           \A m \in Mails : claimed[m] \notin {s, None} =>
               claimed'[m] = claimed[m] /\ mail'[m] = mail[m],
           \A m \in Mails : mail'[m].state = "waiting" =>
               mail[m].state = "waiting" /\ mail'[m].user = mail[m].user
    PROVE  OutboxInv'
<1>0. TypeOK
  BY DEF OutboxInv
<1>1. /\ sender' \in [Senders -> SenderState] /\ sender'[s] = IdleSender
      /\ \A z \in Senders \ {s} : sender'[z] = sender[z]
  BY <1>0, RestTyped, SenderMoves DEF TypeOK
<1>2. /\ origin' \in [Tokens -> Mails \cup {None}]
      /\ \A t \in Tokens : t # sender[s].token => origin'[t] = origin[t]
  BY <1>0 DEF TypeOK, TakenBack
<1>3. /\ lock' \in [Tokens -> Processes \cup {None}]
      /\ \A t \in Tokens : lock[t] # s => lock'[t] = lock[t]
  BY <1>0, FreedOnly, ProcessFacts
<1>4. \A t \in Tokens : link[t].state # "none" => t # sender[s].token
  <2>1. sender[s].at \in SenderSteps
    BY <1>0 DEF TypeOK, SenderState, SenderSteps
  <2> QED BY <2>1, ProcessFacts DEF OutboxInv, SendsWhatItHolds, SenderSteps
<1>5. /\ \A q \in Requests : ConfirmsWhatItHolds(q)'
      /\ \A z \in Senders \ {s} : SendsWhatItHolds(z)'
  BY <1>1, <1>2, <1>3, OthersUndisturbed
<1>6. SendsWhatItHolds(s)'
  BY <1>1, RestTyped DEF SendsWhatItHolds
<1>7. TypeOK'
  BY <1>0, <1>1, <1>2, <1>3 DEF TypeOK
<1>8. DigestsWereAccepted'
  BY <1>2, <1>4 DEF OutboxInv, DigestsWereAccepted
<1>9. \A z \in Tokens : link'[z].state = "none" => lock'[z] = None
  BY <1>0, FreedOnly, ProcessFacts DEF OutboxInv
<1>10. \A m \in Mails : (mail[m].state = "waiting" => mail[m].user \in accounts)'
  BY DEF OutboxInv
<1> QED BY <1>5, <1>6, <1>7, <1>8, <1>9, <1>10 DEF OutboxInv, UsedOnce

\* The savepoint takes the mint back; the row waits, or is given up on.
LEMMA DeferStep ==
    ASSUME OutboxInv, NEW s \in Senders, Defer(s)
    PROVE  OutboxInv'
<1> USE DEF people, outside
<1> DEFINE m == sender[s].mail
<1>0. /\ TypeOK /\ sender[s].at = "refused"
      /\ mail' = IF ~sender[s].retry \/ mail[m].old
                 THEN [mail EXCEPT ![m].state = "failed"] ELSE [mail EXCEPT ![m].due = FALSE]
      /\ claimed' = [claimed EXCEPT ![m] = None]
      /\ lock' = Freed(s) /\ sender' = [sender EXCEPT ![s] = IdleSender]
      /\ origin' = TakenBack(s)
      /\ UNCHANGED <<accounts, verified, link, expired, accepted, inbox, uses, request>>
  BY DEF OutboxInv, Defer
<1>1. m \in Mails /\ claimed[m] = s /\ mail[m].state = "waiting"
  BY <1>0 DEF OutboxInv, SendsWhatItHolds
<1> HIDE DEF m
<1>2. /\ mail' \in [Mails -> MailRow]
      /\ \A z \in Mails \ {m} : mail'[z] = mail[z]
      /\ mail'[m].user = mail[m].user
  <2>1. CASE mail' = [mail EXCEPT ![m].state = "failed"]
    <3>1. "failed" \in {"none", "waiting", "failed", "gone"}
      OBVIOUS
    <3> QED BY <1>0, <1>1, <2>1, <3>1, MailSet
  <2>2. CASE mail' = [mail EXCEPT ![m].due = FALSE]
    <3>1. mail \in [Mails -> MailRow] /\ FALSE \in BOOLEAN
      BY <1>0 DEF TypeOK
    <3>2. LET row == [mail[m] EXCEPT !.due = FALSE] IN
          row \in MailRow /\ row.user = mail[m].user
      BY <1>1, <3>1, MailAged
    <3> QED BY <1>1, <2>2, <3>1, <3>2
  <2> QED BY <1>0, <2>1, <2>2
<1>3. /\ claimed' \in [Mails -> Senders \cup {None}]
      /\ \A z \in Mails \ {m} : claimed'[z] = claimed[z]
  BY <1>0 DEF TypeOK
<1> QED BY <1>0, <1>1, <1>2, <1>3, TurnEnds

\* A run that dies gives back what it held.
LEMMA DieStep ==
    ASSUME OutboxInv, NEW s \in Senders, Die(s)
    PROVE  OutboxInv'
<1> USE DEF people, outside
<1>0. /\ TypeOK
      /\ claimed' = [m \in Mails |-> IF claimed[m] = s THEN None ELSE claimed[m]]
      /\ lock' = Freed(s) /\ sender' = [sender EXCEPT ![s] = IdleSender]
      /\ origin' = TakenBack(s)
      /\ UNCHANGED <<accounts, verified, mail, link, expired, accepted, inbox, uses, request>>
  BY DEF OutboxInv, Die
<1>1. mail \in [Mails -> MailRow] /\ claimed' \in [Mails -> Senders \cup {None}]
  BY <1>0 DEF TypeOK
<1> QED BY <1>0, <1>1, TurnEnds

-----------------------------------------------------------------------------
(* The clock, the purges and the deletion of an account.                   *)

\* A step of the surroundings touches only rows nobody holds.
LEMMA ProcessesUndisturbed ==
    ASSUME OutboxInv, UNCHANGED <<request, sender, origin, accepted, claimed, lock>>,
           \A m \in Mails : claimed[m] # None => mail'[m].state = mail[m].state,
           \A t \in Tokens : lock[t] # None \/ link[t].state = "none" => link'[t] = link[t]
    PROVE  /\ \A q \in Requests : ConfirmsWhatItHolds(q)'
           /\ \A s \in Senders : SendsWhatItHolds(s)'
<1>0. TypeOK
  BY DEF OutboxInv
<1>1. ASSUME NEW q \in Requests PROVE ConfirmsWhatItHolds(q)'
  BY ProcessFacts, RequestUndisturbed DEF OutboxInv
<1>2. ASSUME NEW s \in Senders PROVE SendsWhatItHolds(s)'
  <2>1. SendsWhatItHolds(s)
    BY DEF OutboxInv
  <2>2. sender[s].at \in {"sending", "taken", "refused"} =>
           LET n == sender[s].token IN
           origin'[n] = origin[n] /\ link'[n].state = link[n].state
    BY <2>1 DEF SendsWhatItHolds
  <2>3. /\ \A m \in Mails : claimed[m] = s =>
              claimed'[m] = s /\ mail'[m].state = mail[m].state
        /\ \A t \in Tokens : lock[t] = s => lock'[t] = s /\ link'[t] = link[t]
        /\ accepted \subseteq accepted' /\ sender'[s] = sender[s]
    BY ProcessFacts
  <2> QED BY <1>0, <2>1, <2>2, <2>3, SenderUndisturbed
<1> QED BY <1>1, <1>2

\* Time passes.
LEMMA TickStep ==
    ASSUME OutboxInv, Tick
    PROVE  OutboxInv'
<1> USE DEF people, outbox, links, outside, history
<1>0. TypeOK
  BY DEF OutboxInv
<1>1. ASSUME NEW m \in Mails, BecomeDue(m) \/ GrowOld(m) PROVE OutboxInv'
  <2>1. /\ mail' = [mail EXCEPT ![m].due = TRUE] \/ mail' = [mail EXCEPT ![m].old = TRUE]
        /\ UNCHANGED <<accounts, verified, claimed, link, expired, lock, accepted, inbox,
                       origin, uses, request, sender>>
    BY <1>1 DEF BecomeDue, GrowOld
  <2>2. /\ mail' \in [Mails -> MailRow]
        /\ \A z \in Mails : mail'[z].state = mail[z].state /\ mail'[z].user = mail[z].user
    <3>1. CASE mail' = [mail EXCEPT ![m].due = TRUE]
      BY <1>0, <3>1, MailAged DEF TypeOK
    <3>2. CASE mail' = [mail EXCEPT ![m].old = TRUE]
      BY <1>0, <3>2, MailAged DEF TypeOK
    <3> QED BY <2>1, <3>1, <3>2
  <2>3. /\ \A q \in Requests : ConfirmsWhatItHolds(q)'
        /\ \A s \in Senders : SendsWhatItHolds(s)'
    BY <2>1, <2>2, ProcessesUndisturbed
  <2>4. TypeOK'
    BY <1>0, <2>1, <2>2 DEF TypeOK
  <2> QED BY <2>1, <2>2, <2>3, <2>4 DEF OutboxInv, UsedOnce, DigestsWereAccepted
<1>2. ASSUME NEW t \in Tokens, ExpireLink(t) PROVE OutboxInv'
  <2>1. UNCHANGED <<accounts, verified, mail, claimed, link, lock, accepted, inbox,
                    origin, uses, request, sender>>
    BY <1>2 DEF ExpireLink
  <2>2. /\ \A q \in Requests : ConfirmsWhatItHolds(q)'
        /\ \A s \in Senders : SendsWhatItHolds(s)'
    BY <2>1, ProcessesUndisturbed
  <2>3. TypeOK'
    BY <1>0, <1>2, <2>1 DEF TypeOK, ExpireLink
  <2> QED BY <2>1, <2>2, <2>3 DEF OutboxInv, UsedOnce, DigestsWereAccepted
<1> QED BY <1>1, <1>2 DEF Tick

\* Rows that leave the table were held by nobody.
LEMMA PurgeLinksStep ==
    ASSUME OutboxInv, PurgeLinks
    PROVE  OutboxInv'
<1> USE DEF people, outbox, outside, history
<1> DEFINE dead == {t \in expired : link[t].state \in {"fresh", "superseded", "spent"}}
<1>0. /\ TypeOK /\ \A t \in dead : lock[t] = None
      /\ link' = [t \in Tokens |-> IF t \in dead THEN [link[t] EXCEPT !.state = "gone"]
                                                ELSE link[t]]
      /\ UNCHANGED <<accounts, verified, mail, claimed, expired, lock, accepted, inbox,
                     origin, uses, request, sender>>
  BY DEF OutboxInv, PurgeLinks
<1>1. \A t \in dead : t \in Tokens /\ link[t].state # "none"
  BY <1>0 DEF TypeOK
<1> HIDE DEF dead
<1>2. /\ link' \in [Tokens -> LinkRow]
      /\ \A t \in dead : link'[t].state = "gone"
      /\ \A t \in Tokens : t \notin dead => link'[t] = link[t]
  BY <1>0, <1>1, LinkMarked DEF TypeOK
<1>3. /\ \A q \in Requests : ConfirmsWhatItHolds(q)'
      /\ \A s \in Senders : SendsWhatItHolds(s)'
  BY <1>0, <1>1, <1>2, ProcessesUndisturbed
<1>4. TypeOK'
  BY <1>0, <1>2 DEF TypeOK
<1>5. DigestsWereAccepted'
  BY <1>0, <1>1, <1>2 DEF OutboxInv, DigestsWereAccepted
<1> QED BY <1>0, <1>2, <1>3, <1>4, <1>5 DEF OutboxInv, UsedOnce

LEMMA PurgeMailsStep ==
    ASSUME OutboxInv, PurgeMails
    PROVE  OutboxInv'
<1> USE DEF people, links, outside, history
<1> DEFINE dead == {m \in Mails : mail[m].state = "failed"}
<1>0. /\ TypeOK
      /\ mail' = [m \in Mails |-> IF m \in dead THEN [mail[m] EXCEPT !.state = "gone"]
                                                ELSE mail[m]]
      /\ UNCHANGED <<accounts, verified, claimed, link, expired, lock, accepted, inbox,
                     origin, uses, request, sender>>
  BY DEF OutboxInv, PurgeMails
<1>2. /\ mail' \in [Mails -> MailRow]
      /\ \A m \in Mails : mail[m].state = "failed" => mail'[m].state = "gone"
      /\ \A m \in Mails : mail[m].state # "failed" => mail'[m] = mail[m]
  BY <1>0, MailGone DEF TypeOK
<1>3. /\ \A q \in Requests : ConfirmsWhatItHolds(q)'
      /\ \A s \in Senders : SendsWhatItHolds(s)'
  <2>1. ASSUME NEW q \in Requests PROVE ConfirmsWhatItHolds(q)'
    BY <1>0 DEF OutboxInv, ConfirmsWhatItHolds
  <2>2. ASSUME NEW s \in Senders PROVE SendsWhatItHolds(s)'
    BY <1>0, <1>2 DEF OutboxInv, SendsWhatItHolds
  <2> QED BY <2>1, <2>2
<1>4. TypeOK'
  BY <1>0, <1>2 DEF TypeOK
<1> QED BY <1>0, <1>2, <1>3, <1>4 DEF OutboxInv, UsedOnce, DigestsWereAccepted

\* The account's rows go with it, none of them held.
LEMMA DeleteAccountStep ==
    ASSUME OutboxInv, NEW u \in Users, DeleteAccount(u)
    PROVE  OutboxInv'
<1> USE DEF outside, history
<1> DEFINE mails == {m \in Mails : mail[m].user = u /\ mail[m].state \in {"waiting", "failed"}}
           tokens == {t \in Tokens : link[t].user = u /\ link[t].state # "gone"}
<1>0. /\ TypeOK
      /\ \A m \in mails : claimed[m] = None
      /\ \A t \in tokens : lock[t] = None
      /\ accounts' = accounts \ {u}
      /\ mail' = [m \in Mails |-> IF m \in mails THEN [mail[m] EXCEPT !.state = "gone"]
                                                 ELSE mail[m]]
      /\ link' = [t \in Tokens |-> IF t \in tokens THEN [link[t] EXCEPT !.state = "gone"]
                                                  ELSE link[t]]
      /\ UNCHANGED <<verified, claimed, expired, lock, accepted, inbox,
                     origin, uses, request, sender>>
  BY DEF OutboxInv, DeleteAccount
<1>1. /\ \A m \in Mails : mail[m].state = "waiting" /\ mail[m].user = u => m \in mails
      /\ \A t \in tokens : t \in Tokens /\ link[t].user = u
      /\ mails \subseteq Mails
  OBVIOUS
<1>2. \A t \in tokens : link[t].state # "none"
  <2>1. \A t \in Tokens : link[t].state = "none" => link[t].user = None
    BY DEF OutboxInv
  <2> QED BY <1>1, <2>1, ProcessFacts
<1> HIDE DEF mails, tokens
<1>3. /\ link' \in [Tokens -> LinkRow]
      /\ \A t \in tokens : link'[t].state = "gone"
      /\ \A t \in Tokens : t \notin tokens => link'[t] = link[t]
  BY <1>0, <1>1, LinkMarked DEF TypeOK
<1>4. /\ mail' \in [Mails -> MailRow]
      /\ \A m \in mails : mail'[m].state = "gone"
      /\ \A m \in Mails : m \notin mails => mail'[m] = mail[m]
  BY <1>0, <1>1, MailGone DEF TypeOK
<1>5. /\ \A q \in Requests : ConfirmsWhatItHolds(q)'
      /\ \A s \in Senders : SendsWhatItHolds(s)'
  BY <1>0, <1>1, <1>2, <1>3, <1>4, ProcessesUndisturbed
<1>6. TypeOK'
  BY <1>0, <1>3, <1>4 DEF TypeOK
<1>7. DigestsWereAccepted'
  BY <1>0, <1>2, <1>1, <1>3 DEF OutboxInv, DigestsWereAccepted
<1>8. \A m \in Mails : (mail[m].state = "waiting" => mail[m].user \in accounts)'
  BY <1>0, <1>1, <1>4 DEF OutboxInv
<1>9. \A t \in Tokens : /\ (link[t].state \in {"none", "fresh"} => uses[t] = 0)'
                       /\ (link[t].state = "none" => lock[t] = None)'
                       /\ (link[t].state = "none" => link[t].user = None)'
                       /\ (link[t].state = "fresh" => link[t].user \in Users)'
  BY <1>0, <1>1, <1>3 DEF OutboxInv
<1> QED BY <1>0, <1>5, <1>6, <1>7, <1>8, <1>9 DEF OutboxInv, UsedOnce

-----------------------------------------------------------------------------
(* The theorems.                                                           *)

\* Every step keeps the invariant.
LEMMA InvStep == OutboxInv /\ [Next]_vars => OutboxInv'
<1> SUFFICES ASSUME OutboxInv, [Next]_vars PROVE OutboxInv'
  OBVIOUS
<1>1. CASE Tick
  BY <1>1, TickStep
<1>2. CASE PurgeLinks \/ PurgeMails
  BY <1>2, PurgeLinksStep, PurgeMailsStep
<1>3. ASSUME NEW u \in Users, DeleteAccount(u) PROVE OutboxInv'
  BY <1>3, DeleteAccountStep
<1>4. ASSUME NEW q \in Requests, Serve(q) PROVE OutboxInv'
  BY <1>4, AskStep, EnqueueStep, LockLinkStep, ConfirmStep, AbandonStep DEF Serve
<1>5. ASSUME NEW s \in Senders, Send(s) \/ Die(s) PROVE OutboxInv'
  BY <1>5, ClaimStep, BeginMintStep, MintStep, AcceptStep, RefuseStep, CommitSentStep,
     DeferStep, DieStep DEF Send
<1>6. CASE UNCHANGED vars
  BY <1>6 DEF OutboxInv, vars, TypeOK, UsedOnce, DigestsWereAccepted,
     ConfirmsWhatItHolds, SendsWhatItHolds
<1> QED BY <1>1, <1>2, <1>3, <1>4, <1>5, <1>6 DEF Next

\* The tables, the locks and the processes agree in every reachable state.
THEOREM Consistency == Spec => []OutboxInv
<1> QED BY InvInit, InvStep, PTL DEF Spec

\* Every variable keeps its type.
THEOREM Typed == Spec => []TypeOK
<1>1. OutboxInv => TypeOK
  BY DEF OutboxInv
<1> QED BY <1>1, Consistency, PTL

\* A link is confirmed at most once, for any number of requests that present it
\* at the same time.
THEOREM LinkWorksOnce == Spec => []UsedOnce
<1>1. OutboxInv => UsedOnce
  BY DEF OutboxInv
<1> QED BY <1>1, Consistency, PTL

\* A digest in the table is that of a message the provider took, whatever died,
\* was refused or was purged in between.
THEOREM NoDigestWithoutMail == Spec => []DigestsWereAccepted
<1>1. OutboxInv => DigestsWereAccepted
  BY DEF OutboxInv
<1> QED BY <1>1, Consistency, PTL

\* No two runs of the command work on the same outbox row.
THEOREM RowsAreApart == Spec => []OneSenderPerRow
<1>1. OutboxInv => OneSenderPerRow
  <2> SUFFICES ASSUME OutboxInv, NEW a \in Senders, NEW b \in Senders,
                      a # b, sender[a].at # "idle"
               PROVE  sender[a].mail # sender[b].mail
    BY DEF OneSenderPerRow
  <2>1. CASE sender[b].at = "idle"
    BY <2>1, ProcessFacts DEF OutboxInv, SendsWhatItHolds
  <2>2. CASE sender[b].at # "idle"
    BY <2>2, SendersApart
  <2> QED BY <2>1, <2>2
<1> QED BY <1>1, Consistency, PTL

\* No message reaches anybody's inbox for an account that is already gone.
THEOREM SilentAfterDeletion == Spec => NothingToTheDeleted
<1> DEFINE Quiet == \A m \in Mails : inbox'[m] # inbox[m] => mail[m].user \in accounts
<1>1. ASSUME OutboxInv, [Next]_vars PROVE Quiet
  <2>1. CASE inbox' = inbox
    BY <2>1
  <2>2. ASSUME NEW s \in Senders, Accept(s) PROVE Quiet
    <3> DEFINE m == sender[s].mail
    <3>1. m \in Mails /\ mail[m].state = "waiting"
      BY <1>1, <2>2 DEF OutboxInv, SendsWhatItHolds, Accept
    <3>2. mail[m].user \in accounts
      BY <1>1, <3>1 DEF OutboxInv
    <3>3. \A z \in Mails \ {m} : inbox'[z] = inbox[z]
      BY <1>1, <2>2 DEF OutboxInv, TypeOK, Accept
    <3> QED BY <3>2, <3>3
  <2>3. inbox' = inbox \/ \E s \in Senders : Accept(s)
    <3> USE DEF outside
    <3>1. CASE Tick \/ PurgeLinks \/ PurgeMails
      BY <3>1 DEF Tick, BecomeDue, GrowOld, ExpireLink, PurgeLinks, PurgeMails
    <3>2. ASSUME NEW u \in Users, DeleteAccount(u) PROVE inbox' = inbox
      BY <3>2 DEF DeleteAccount
    <3>3. ASSUME NEW q \in Requests, Serve(q) PROVE inbox' = inbox
      BY <3>3 DEF Serve, Ask, Enqueue, LockLink, Confirm, Abandon
    <3>4. ASSUME NEW s \in Senders, Send(s) \/ Die(s) PROVE inbox' = inbox \/ Accept(s)
      BY <3>4 DEF Send, Claim, BeginMint, Mint, Refuse, CommitSent, Defer, Die
    <3>5. CASE UNCHANGED vars
      BY <3>5 DEF vars
    <3> QED BY <1>1, <3>1, <3>2, <3>3, <3>4, <3>5 DEF Next
  <2> QED BY <2>1, <2>2, <2>3
<1>2. OutboxInv /\ [Next]_vars => [Quiet]_vars
  BY <1>1
<1> QED BY <1>2, Consistency, PTL DEF Spec, NothingToTheDeleted

-----------------------------------------------------------------------------
(* Which links supersede which.                                            *)

\* What a step may do to a link that is in the table, a commit set apart: its
\* owner stays, and it is fresh or superseded only if it was.
LinksOnlyEnd ==
    \A t \in Tokens :
        /\ link'[t].state \in {"fresh", "superseded"} => link'[t] = link[t]
        /\ link[t].state # "none" => /\ link'[t].state # "none"
                                     /\ link'[t].user = link[t].user
                                     /\ link'[t].kind = link[t].kind

\* A message in the outbox stays that of its person and kind.
MessagesStay ==
    \A m \in Mails : mail[m].state # "none" =>
        mail'[m].user = mail[m].user /\ mail'[m].kind = mail[m].kind

\* A run that is not committing keeps its message, and its older links grow by
\* the snapshot of the mint only.
TurnGoesOn(s) ==
    LET m == sender[s].mail IN
    \/ sender'[s] = sender[s]
    \/ sender'[s].older = {} /\ sender'[s].at \in {"idle", "claimed"}
    \/ /\ sender[s].at # "idle" /\ sender'[s].mail = m
       /\ \/ sender'[s].older = Fresh(mail[m].user, mail[m].kind)
          \/ /\ sender'[s].older = {t \in sender[s].older : link[t].state = "fresh"}
             /\ sender[s].at = "minting"
          \/ /\ sender'[s].older = sender[s].older
             /\ sender[s].at = "sending"

\* A record with another state is the same record otherwise.
LEMMA StateOnly ==
    /\ \A row \in LinkRow, x \in {"superseded", "spent", "gone"} :
          LET new == [row EXCEPT !.state = x] IN
          new.state = x /\ new.user = row.user /\ new.kind = row.kind
    /\ \A row \in MailRow, x \in {"gone", "failed"} :
          LET new == [row EXCEPT !.state = x] IN
          new.user = row.user /\ new.kind = row.kind
    /\ \A row \in MailRow, b \in BOOLEAN :
          /\ [row EXCEPT !.due = b].user = row.user /\ [row EXCEPT !.due = b].kind = row.kind
          /\ [row EXCEPT !.old = b].user = row.user /\ [row EXCEPT !.old = b].kind = row.kind
BY DEF LinkRow, MailRow

\* Links are unchanged by every step but a confirmation, a purge, a deletion and
\* a commit; those other than the commit only end them.
LEMMA LinksEnd ==
    ASSUME OutboxInv, [Next]_vars, \A s \in Senders : ~CommitSent(s)
    PROVE  LinksOnlyEnd
<1> USE DEF people, outbox, links, outside, history, LinksOnlyEnd
<1>0. link \in [Tokens -> LinkRow]
  BY DEF OutboxInv, TypeOK
<1>1. CASE link' = link
  BY <1>1
<1>2. CASE PurgeLinks
  <2> DEFINE dead == {t \in expired : link[t].state \in {"fresh", "superseded", "spent"}}
  <2>1. link' = [t \in Tokens |-> IF t \in dead THEN [link[t] EXCEPT !.state = "gone"]
                                                ELSE link[t]]
    BY <1>2 DEF PurgeLinks
  <2> HIDE DEF dead
  <2> QED BY <1>0, <2>1, StateOnly
<1>3. ASSUME NEW u \in Users, DeleteAccount(u) PROVE LinksOnlyEnd
  <2> DEFINE tokens == {t \in Tokens : link[t].user = u /\ link[t].state # "gone"}
  <2>1. link' = [t \in Tokens |-> IF t \in tokens THEN [link[t] EXCEPT !.state = "gone"]
                                                  ELSE link[t]]
    BY <1>3 DEF DeleteAccount
  <2> HIDE DEF tokens
  <2> QED BY <1>0, <2>1, StateOnly
<1>4. ASSUME NEW q \in Requests, Confirm(q) PROVE LinksOnlyEnd
  <2> DEFINE t == request[q].token
  <2>1. link' = [link EXCEPT ![t].state = "spent"]
    BY <1>4 DEF Confirm
  <2>2. t \in Tokens
    BY <1>4 DEF Confirm, OutboxInv, ConfirmsWhatItHolds
  <2> HIDE DEF t
  <2> QED BY <1>0, <2>1, <2>2, StateOnly
<1>5. \/ link' = link \/ PurgeLinks \/ \E u \in Users : DeleteAccount(u)
      \/ \E q \in Requests : Confirm(q)
  <2>1. CASE Tick \/ PurgeMails
    BY <2>1 DEF Tick, BecomeDue, GrowOld, ExpireLink, PurgeMails
  <2>2. ASSUME NEW q \in Requests, Serve(q) PROVE link' = link \/ Confirm(q)
    BY <2>2 DEF Serve, Ask, Enqueue, LockLink, Abandon
  <2>3. ASSUME NEW s \in Senders, Send(s) \/ Die(s) PROVE link' = link
    BY <2>3 DEF Send, Claim, BeginMint, Mint, Accept, Refuse, Defer, Die
  <2>4. CASE UNCHANGED vars
    BY <2>4 DEF vars
  <2> QED BY <2>1, <2>2, <2>3, <2>4 DEF Next
<1> QED BY <1>1, <1>2, <1>3, <1>4, <1>5

\* Nothing rewrites whom a message is for.
LEMMA MessagesKeep ==
    ASSUME OutboxInv, [Next]_vars
    PROVE  MessagesStay
<1> USE DEF people, outbox, links, outside, history, MessagesStay
<1>0. mail \in [Mails -> MailRow]
  BY DEF OutboxInv, TypeOK
<1>1. ASSUME NEW m \in Mails, NEW x \in {"gone", "failed"},
             mail' = [mail EXCEPT ![m].state = x]
      PROVE  MessagesStay
  BY <1>0, <1>1, StateOnly
<1>2. ASSUME NEW m \in Mails, NEW b \in BOOLEAN,
             mail' = [mail EXCEPT ![m].due = b] \/ mail' = [mail EXCEPT ![m].old = b]
      PROVE  MessagesStay
  <2>1. CASE mail' = [mail EXCEPT ![m].due = b]
    BY <1>0, <2>1, StateOnly
  <2>2. CASE mail' = [mail EXCEPT ![m].old = b]
    BY <1>0, <2>2, StateOnly
  <2> QED BY <1>2, <2>1, <2>2
<1>3. ASSUME NEW dead,
             mail' = [m \in Mails |-> IF m \in dead THEN [mail[m] EXCEPT !.state = "gone"]
                                                    ELSE mail[m]]
      PROVE  MessagesStay
  BY <1>0, <1>3, StateOnly
<1>4. CASE PurgeMails \/ \E u \in Users : DeleteAccount(u)
  BY <1>3, <1>4 DEF PurgeMails, DeleteAccount
<1>5. CASE Tick
  BY <1>2, <1>5 DEF Tick, BecomeDue, GrowOld, ExpireLink
<1>6. ASSUME NEW q \in Requests, Serve(q) PROVE MessagesStay
  <2>1. CASE Enqueue(q)
    BY <1>0, <2>1 DEF Enqueue
  <2>2. CASE mail' = mail
    BY <2>2
  <2> QED BY <1>6, <2>1, <2>2 DEF Serve, Ask, LockLink, Confirm, Abandon
<1>7. ASSUME NEW s \in Senders, Send(s) \/ Die(s) PROVE MessagesStay
  <2>1. CASE mail' = mail
    BY <2>1
  <2>2. CASE CommitSent(s) \/ Defer(s)
    <3>1. sender[s].mail \in Mails
      BY <2>2 DEF OutboxInv, SendsWhatItHolds, CommitSent, Defer
    <3> QED BY <1>1, <1>2, <2>2, <3>1 DEF CommitSent, Defer
  <2> QED BY <1>7, <2>1, <2>2 DEF Send, Claim, BeginMint, Mint, Accept, Refuse, Die
<1>8. CASE PurgeLinks \/ UNCHANGED vars
  BY <1>8 DEF PurgeLinks, vars
<1> QED BY <1>4, <1>5, <1>6, <1>7, <1>8 DEF Next

\* How a run of the command moves on.
LEMMA TurnsGoOn ==
    ASSUME OutboxInv, [Next]_vars, NEW s \in Senders
    PROVE  TurnGoesOn(s)
<1> USE DEF people, outbox, links, outside, history, TurnGoesOn
<1>0. sender \in [Senders -> SenderState]
  BY DEF OutboxInv, TypeOK
<1>1. CASE sender' = sender
  BY <1>1
<1>2. ASSUME NEW z \in Senders, z # s, Send(z) \/ Die(z) PROVE sender'[s] = sender[s]
  BY <1>0, <1>2 DEF Send, Claim, BeginMint, Mint, Accept, Refuse, CommitSent, Defer, Die
<1>3. CASE Claim(s)
  <2>1. PICK m \in Mails : sender' = [sender EXCEPT ![s] = Turn("claimed", m, None, {}, TRUE)]
    BY <1>3 DEF Claim, Claimable
  <2> QED BY <1>0, <2>1 DEF Turn
<1>4. CASE BeginMint(s)
  BY <1>0, <1>4 DEF BeginMint, Turn
<1>5. CASE Mint(s)
  <2>1. PICK n \in Tokens :
           sender' = [sender EXCEPT ![s] = Turn("sending", sender[s].mail, n,
                         {t \in sender[s].older : link[t].state = "fresh"}, TRUE)]
    BY <1>5 DEF Mint
  <2>2. sender[s].at = "minting"
    BY <1>5 DEF Mint
  <2> QED BY <1>0, <2>1, <2>2 DEF Turn
<1>6. CASE Accept(s) \/ Refuse(s)
  BY <1>0, <1>6 DEF Accept, Refuse, Turn
<1>7. CASE CommitSent(s) \/ Defer(s) \/ Die(s)
  BY <1>0, <1>7 DEF CommitSent, Defer, Die, IdleSender, Turn
<1>8. sender' = sender \/ \E z \in Senders : Send(z) \/ Die(z)
  <2>1. CASE Tick \/ PurgeLinks \/ PurgeMails \/ \E u \in Users : DeleteAccount(u)
    BY <2>1 DEF Tick, BecomeDue, GrowOld, ExpireLink, PurgeLinks, PurgeMails, DeleteAccount
  <2>2. ASSUME NEW q \in Requests, Serve(q) PROVE sender' = sender
    BY <2>2 DEF Serve, Ask, Enqueue, LockLink, Confirm, Abandon
  <2>3. CASE UNCHANGED vars
    BY <2>3 DEF vars
  <2> QED BY <2>1, <2>2, <2>3 DEF Next
<1> QED BY <1>1, <1>2, <1>3, <1>4, <1>5, <1>6, <1>7, <1>8 DEF Send

\* What the commit of a message leaves of the links: its own is fresh, the older
\* ones it holds are superseded, the others are as they were.
LEMMA Commits ==
    ASSUME OutboxInv, NEW s \in Senders, CommitSent(s)
    PROVE  LET m == sender[s].mail  n == sender[s].token IN
           /\ m \in Mails /\ mail[m].state = "waiting" /\ sender[s].at = "taken"
           /\ n \in Tokens /\ link[n].state = "none" /\ n \notin sender[s].older
           /\ link'[n].state = "fresh" /\ link'[n].user = mail[m].user
           /\ link'[n].kind = mail[m].kind
           /\ \A t \in Tokens \ {n} :
                 /\ link'[t].user = link[t].user /\ link'[t].kind = link[t].kind
                 /\ t \in sender[s].older => link'[t].state = "superseded"
                 /\ t \notin sender[s].older => link'[t] = link[t]
           /\ sender'[s].at = "idle" /\ sender'[s].older = {}
<1> DEFINE m == sender[s].mail
           n == sender[s].token
           older == sender[s].older
<1>0. link \in [Tokens -> LinkRow] /\ sender \in [Senders -> SenderState]
  BY DEF OutboxInv, TypeOK
<1>1. sender[s].at = "taken"
  BY DEF CommitSent
<1>2. /\ m \in Mails /\ mail[m].state = "waiting"
      /\ n \in Tokens /\ link[n].state = "none"
      /\ \A t \in older : link[t].state = "fresh"
  BY <1>1 DEF OutboxInv, SendsWhatItHolds
<1>3. /\ link' = [t \in Tokens |->
                    IF t = n THEN [state |-> "fresh", user |-> mail[m].user, kind |-> mail[m].kind]
                    ELSE IF t \in older THEN [link[t] EXCEPT !.state = "superseded"]
                    ELSE link[t]]
      /\ sender' = [sender EXCEPT ![s] = IdleSender]
  BY DEF CommitSent
<1>4. sender'[s].at = "idle" /\ sender'[s].older = {}
  BY <1>0, <1>3 DEF IdleSender, Turn
<1>5. n \notin older
  BY <1>2
<1> HIDE DEF m, n, older
<1>6. /\ link'[n].state = "fresh" /\ link'[n].user = mail[m].user
      /\ link'[n].kind = mail[m].kind
  BY <1>2, <1>3
<1>7. \A t \in Tokens \ {n} :
        /\ link'[t].user = link[t].user /\ link'[t].kind = link[t].kind
        /\ t \in older => link'[t].state = "superseded"
        /\ t \notin older => link'[t] = link[t]
  BY <1>0, <1>3, StateOnly
<1> QED BY <1>1, <1>2, <1>4, <1>5, <1>6, <1>7 DEF m, n, older

\* A link in the table keeps its owner.
LEMMA OwnersStay ==
    ASSUME OutboxInv, [Next]_vars, NEW t \in Tokens, link[t].state # "none"
    PROVE  link'[t].state # "none" /\ link'[t].user = link[t].user /\ link'[t].kind = link[t].kind
<1>1. CASE \A s \in Senders : ~CommitSent(s)
  BY <1>1, LinksEnd DEF LinksOnlyEnd
<1>2. ASSUME NEW s \in Senders, CommitSent(s)
      PROVE  link'[t].state # "none" /\ link'[t].user = link[t].user
             /\ link'[t].kind = link[t].kind
  BY <1>2, Commits
<1> QED BY <1>1, <1>2

\* A run's older links stay those of its message's person and kind.
LEMMA ItsOwnStep ==
    ASSUME OutboxInv, [Next]_vars, NEW s \in Senders, SupersedesItsOwn(s)
    PROVE  SupersedesItsOwn(s)'
<1> SUFFICES ASSUME sender'[s].at # "idle", NEW t \in sender'[s].older
             PROVE  /\ link'[t].state # "none"
                    /\ link'[t].user = mail'[sender'[s].mail].user
                    /\ link'[t].kind = mail'[sender'[s].mail].kind
  BY DEF SupersedesItsOwn
<1> DEFINE m == sender[s].mail
<1>1. TurnGoesOn(s) /\ MessagesStay
  BY TurnsGoOn, MessagesKeep
<1>2. /\ sender[s].at # "idle" /\ sender'[s].mail = m
      /\ t \in sender[s].older \/ t \in Fresh(mail[m].user, mail[m].kind)
  BY <1>1 DEF TurnGoesOn
<1>3. /\ t \in Tokens /\ link[t].state # "none"
      /\ link[t].user = mail[m].user /\ link[t].kind = mail[m].kind
  <2>1. CASE t \in sender[s].older
    <3>1. sender[s].older \subseteq Tokens
      BY DEF OutboxInv, TypeOK, SenderState
    <3> QED BY <1>2, <2>1, <3>1 DEF SupersedesItsOwn
  <2>2. CASE t \in Fresh(mail[m].user, mail[m].kind)
    BY <2>2 DEF Fresh
  <2> QED BY <1>2, <2>1, <2>2
<1>4. m \in Mails /\ mail[m].state # "none"
  BY <1>2 DEF OutboxInv, SendsWhatItHolds
<1>5. mail'[m].user = mail[m].user /\ mail'[m].kind = mail[m].kind
  BY <1>1, <1>4 DEF MessagesStay
<1> QED BY <1>2, <1>3, <1>5, OwnersStay

\* Whoever supersedes a link leaves a fresh one of the same person and kind, also
\* for the links whose own successor it supersedes.
LEMMA SupersededStep ==
    ASSUME OutboxInv, OutboxInv', [Next]_vars, SupersedeInv
    PROVE  SupersededByAnother'
<1> SUFFICES ASSUME NEW t \in Tokens, link'[t].state = "superseded"
             PROVE  \E n \in Tokens \ {t} : /\ link'[n].state \in {"fresh", "spent", "gone"}
                                            /\ link'[n].user = link'[t].user
                                            /\ link'[n].kind = link'[t].kind
  BY DEF SupersededByAnother
<1>0. /\ link \in [Tokens -> LinkRow] /\ link' \in [Tokens -> LinkRow]
      /\ \A s \in Senders : SupersedesItsOwn(s)
      /\ \A z \in Tokens : link[z].state = "superseded" =>
            \E n \in Tokens \ {z} : /\ link[n].state \in {"fresh", "spent", "gone"}
                                    /\ link[n].user = link[z].user
                                    /\ link[n].kind = link[z].kind
  BY DEF OutboxInv, TypeOK, SupersedeInv, SupersededByAnother
<1>1. CASE \A s \in Senders : ~CommitSent(s)
  <2>1. LinksOnlyEnd
    BY <1>1, LinksEnd
  <2>2. link'[t] = link[t]
    BY <2>1 DEF LinksOnlyEnd
  <2>3. PICK n \in Tokens \ {t} : /\ link[n].state \in {"fresh", "spent", "gone"}
                                  /\ link[n].user = link[t].user
                                  /\ link[n].kind = link[t].kind
    BY <1>0, <2>2
  <2>4. /\ link'[n].state # "none" /\ link'[n].state # "superseded"
        /\ link'[n].user = link[n].user /\ link'[n].kind = link[n].kind
    BY <2>1, <2>3 DEF LinksOnlyEnd
  <2>5. link'[n].state \in {"none", "fresh", "superseded", "spent", "gone"}
    BY <1>0 DEF LinkRow
  <2> QED BY <2>2, <2>3, <2>4, <2>5
<1>2. ASSUME NEW s \in Senders, CommitSent(s)
      PROVE  \E n \in Tokens \ {t} : /\ link'[n].state \in {"fresh", "spent", "gone"}
                                     /\ link'[n].user = link'[t].user
                                     /\ link'[n].kind = link'[t].kind
  <2> DEFINE m == sender[s].mail
             new == sender[s].token
             older == sender[s].older
  <2>1. /\ sender[s].at = "taken" /\ new \in Tokens
        /\ link'[new].state = "fresh" /\ link'[new].user = mail[m].user
        /\ link'[new].kind = mail[m].kind
        /\ \A z \in Tokens \ {new} :
              /\ link'[z].user = link[z].user /\ link'[z].kind = link[z].kind
              /\ z \notin older => link'[z] = link[z]
    BY <1>2, Commits
  <2>2. \A z \in older : link[z].user = mail[m].user /\ link[z].kind = mail[m].kind
    BY <1>0, <2>1 DEF SupersedesItsOwn
  <2> HIDE DEF m, new, older
  <2>3. t # new
    BY <2>1
  <2>4. CASE t \in older
    BY <2>1, <2>2, <2>3, <2>4
  <2>5. CASE t \notin older
    <3>1. PICK n \in Tokens \ {t} : /\ link[n].state \in {"fresh", "spent", "gone"}
                                    /\ link[n].user = link[t].user
                                    /\ link[n].kind = link[t].kind
      BY <1>0, <2>1, <2>3, <2>5
    <3>2. CASE n = new
      <4>1. link[new].state = "none"
        BY <1>2, Commits DEF new
      <4> QED BY <3>1, <3>2, <4>1
    <3>3. CASE n # new /\ n \in older
      BY <2>1, <2>2, <2>3, <2>5, <3>1, <3>3
    <3>4. CASE n # new /\ n \notin older
      BY <2>1, <2>3, <2>5, <3>1, <3>4
    <3> QED BY <3>2, <3>3, <3>4
  <2> QED BY <2>4, <2>5
<1> QED BY <1>1, <1>2

\* With one run of the command, nothing is fresh behind its back.
LEMMA UsableStep ==
    ASSUME OneCommand, OutboxInv, [Next]_vars, UsableInv
    PROVE  UsableInv'
<1>0. link \in [Tokens -> LinkRow]
  BY DEF OutboxInv, TypeOK
<1>1. CASE \A s \in Senders : ~CommitSent(s)
  <2>1. LinksOnlyEnd
    BY <1>1, LinksEnd
  <2>3. ASSUME NEW s \in Senders PROVE SupersedesAll(s)'
    <3> SUFFICES ASSUME sender'[s].at \in {"minting", "sending", "taken", "refused"},
                        NEW t \in Tokens, link'[t].state = "fresh",
                        link'[t].user = mail'[sender'[s].mail].user,
                        link'[t].kind = mail'[sender'[s].mail].kind
                 PROVE  t \in sender'[s].older
      BY DEF SupersedesAll, Fresh
    <3> DEFINE m == sender[s].mail
    <3>1. TurnGoesOn(s) /\ MessagesStay
      BY TurnsGoOn, MessagesKeep
    <3>2. sender[s].at # "idle" /\ sender'[s].mail = m
      BY <3>1 DEF TurnGoesOn
    <3>3. m \in Mails /\ mail[m].state # "none"
      BY <3>2 DEF OutboxInv, SendsWhatItHolds
    <3>4. t \in Fresh(mail[m].user, mail[m].kind)
      BY <2>1, <3>1, <3>2, <3>3 DEF MessagesStay, LinksOnlyEnd, Fresh
    <3>5. sender[s].at \in {"minting", "sending", "taken", "refused"} => t \in sender[s].older
      BY <3>4 DEF UsableInv, SupersedesAll
    <3>6. link[t].state = "fresh"
      BY <3>4 DEF Fresh
    <3> QED BY <3>1, <3>2, <3>4, <3>5, <3>6 DEF TurnGoesOn
  <2> QED BY <2>1, <2>3 DEF UsableInv, LinksOnlyEnd
<1>2. ASSUME NEW s \in Senders, CommitSent(s) PROVE UsableInv'
  <2> DEFINE m == sender[s].mail
             new == sender[s].token
             older == sender[s].older
  <2>1. /\ sender[s].at = "taken" /\ new \in Tokens /\ sender'[s].at = "idle"
        /\ link'[new].state = "fresh" /\ link'[new].user = mail[m].user
        /\ link'[new].kind = mail[m].kind
        /\ \A z \in Tokens \ {new} :
              /\ z \in older => link'[z].state = "superseded"
              /\ z \notin older => link'[z] = link[z]
    BY <1>2, Commits
  <2>2. Fresh(mail[m].user, mail[m].kind) \subseteq older
    BY <2>1 DEF UsableInv, SupersedesAll
  <2>3. \A z \in Senders : SupersedesAll(z)'
    BY <2>1 DEF OneCommand, SupersedesAll
  <2>4. \A z \in Tokens \ {new} : link'[z].state = "fresh" =>
            link'[z] = link[z] /\ (link[z].user # mail[m].user \/ link[z].kind # mail[m].kind)
    BY <2>1, <2>2 DEF Fresh
  <2> HIDE DEF m, new, older
  <2>5. ASSUME NEW t \in Tokens, NEW n \in Tokens,
               link'[t].state = "fresh", link'[n].state = "fresh",
               link'[t].user = link'[n].user, link'[t].kind = link'[n].kind
        PROVE  t = n
    BY <2>1, <2>4, <2>5 DEF UsableInv
  <2> QED BY <2>3, <2>5 DEF UsableInv
<1> QED BY <1>1, <1>2

\* A link is superseded only by another one of the same person and kind that went
\* out: a mint whose message did not is taken back with what it superseded.
THEOREM SupersededBySent == Spec => []SupersededByAnother
<1>1. Init => SupersedeInv
  BY RestTyped DEF Init, SupersedeInv, SupersedesItsOwn, SupersededByAnother
<1>2. OutboxInv /\ OutboxInv' /\ SupersedeInv /\ [Next]_vars => SupersedeInv'
  BY ItsOwnStep, SupersededStep DEF SupersedeInv
<1>3. SupersedeInv => SupersededByAnother
  BY DEF SupersedeInv
<1> QED BY <1>1, <1>2, <1>3, Consistency, PTL DEF Spec

\* With one run of the command at a time nobody has two links of a kind that
\* work, however many were asked for.
THEOREM OneLinkPerKind ==
    ASSUME OneCommand
    PROVE  Spec => []OneUsableLink
<1>1. Init => UsableInv
  BY RestTyped DEF Init, UsableInv, SupersedesAll
<1>2. OutboxInv /\ UsableInv /\ [Next]_vars => UsableInv'
  BY UsableStep
<1>3. UsableInv => OneUsableLink
  BY DEF UsableInv, OneUsableLink, Fresh
<1> QED BY <1>1, <1>2, <1>3, Consistency, PTL DEF Spec

-----------------------------------------------------------------------------
(* Outbox implements RecoveryContract.                                     *)

\* What the contract speaks of.
Promised == <<accounts, verified, Letters, accepted, link, uses, expired>>

\* A table of which some rows get another state.
LEMMA LettersBecome ==
    ASSUME mail \in [Mails -> MailRow], NEW S \in SUBSET Mails, NEW x,
           \A m \in S : /\ mail'[m].state = x /\ mail'[m].user = mail[m].user
                        /\ mail'[m].kind = mail[m].kind,
           \A m \in Mails \ S : /\ mail'[m].state = mail[m].state
                                /\ mail'[m].user = mail[m].user
                                /\ mail'[m].kind = mail[m].kind
    PROVE  Letters' = Contract!Become(Letters, S, x)
<1>1. ASSUME NEW m \in S
      PROVE  Letters'[m] = [Letters[m] EXCEPT !.state = x]
  <2>1. m \in Mails
    OBVIOUS
  <2>2. Letters'[m] = [state |-> x, user |-> mail[m].user, kind |-> mail[m].kind]
    BY <2>1 DEF Letters
  <2>3. Letters[m] = [state |-> mail[m].state, user |-> mail[m].user, kind |-> mail[m].kind]
    BY <2>1 DEF Letters
  <2> QED BY <2>2, <2>3
<1>2. ASSUME NEW m \in Mails \ S PROVE Letters'[m] = Letters[m]
  BY <1>2 DEF Letters
<1>3. DOMAIN Letters = Mails /\ DOMAIN Letters' = Mails
  BY DEF Letters
<1>4. Letters' = [m \in Mails |-> Letters'[m]]
  BY DEF Letters
<1> HIDE DEF Letters
<1> QED BY <1>1, <1>2, <1>3, <1>4 DEF Contract!Become

\* An outbox in which only the dates moved owes what it owed.
LEMMA LettersSame ==
    ASSUME mail \in [Mails -> MailRow],
           \A m \in Mails : /\ mail'[m].state = mail[m].state
                            /\ mail'[m].user = mail[m].user
                            /\ mail'[m].kind = mail[m].kind
    PROVE  Letters' = Letters
BY DEF Letters

LEMMA LetterReads ==
    \A m \in Mails : /\ Letters[m].state = mail[m].state /\ Letters[m].user = mail[m].user
                     /\ Letters[m].kind = mail[m].kind
BY DEF Letters

\* The empty tables are the contract's beginning.
LEMMA InitMaps == Init => Contract!Init
BY LetterReads DEF Init, Contract!Init

\* A row that is not written yet was not written before.
LEMMA UnwrittenStay ==
    ASSUME OutboxInv, [Next]_vars, NEW m \in Mails, mail'[m].state = "none"
    PROVE  mail'[m] = mail[m]
<1> USE DEF people, outbox, links, outside, history
<1>0. mail \in [Mails -> MailRow]
  BY DEF OutboxInv, TypeOK
<1>1. CASE mail' = mail
  BY <1>1
<1>2. CASE PurgeMails
  BY <1>0, <1>2, MailGone DEF PurgeMails
<1>3. ASSUME NEW u \in Users, DeleteAccount(u) PROVE mail'[m] = mail[m]
  <2> DEFINE mails == {z \in Mails : mail[z].user = u /\ mail[z].state \in {"waiting", "failed"}}
  <2>1. mail' = [z \in Mails |-> IF z \in mails THEN [mail[z] EXCEPT !.state = "gone"]
                                                 ELSE mail[z]]
    BY <1>3 DEF DeleteAccount
  <2> HIDE DEF mails
  <2> QED BY <1>0, <2>1, MailGone
<1>4. ASSUME NEW z \in Mails, BecomeDue(z) \/ GrowOld(z) PROVE mail'[m] = mail[m]
  <2>1. \/ mail' = [mail EXCEPT ![z].due = TRUE] \/ mail' = [mail EXCEPT ![z].old = TRUE]
    BY <1>4 DEF BecomeDue, GrowOld
  <2>2. mail[z].state = "waiting"
    BY <1>4 DEF BecomeDue, GrowOld
  <2>3. CASE mail' = [mail EXCEPT ![z].due = TRUE]
    BY <1>0, <2>2, <2>3, MailAged
  <2>4. CASE mail' = [mail EXCEPT ![z].old = TRUE]
    BY <1>0, <2>2, <2>4, MailAged
  <2> QED BY <2>1, <2>3, <2>4
<1>5. ASSUME NEW q \in Requests, Enqueue(q) PROVE mail'[m] = mail[m]
  BY <1>0, <1>5 DEF Enqueue
<1>6. ASSUME NEW s \in Senders, CommitSent(s) \/ Defer(s) PROVE mail'[m] = mail[m]
  <2> DEFINE z == sender[s].mail
  <2>1. z \in Mails /\ mail[z].state = "waiting"
    BY <1>6 DEF OutboxInv, SendsWhatItHolds, CommitSent, Defer
  <2>2. \/ mail' = [mail EXCEPT ![z].state = "gone"] \/ mail' = [mail EXCEPT ![z].state = "failed"]
        \/ mail' = [mail EXCEPT ![z].due = FALSE]
    BY <1>6 DEF CommitSent, Defer
  <2> HIDE DEF z
  <2>3. CASE mail' = [mail EXCEPT ![z].state = "gone"]
    BY <1>0, <2>1, <2>3 DEF MailRow
  <2>4. CASE mail' = [mail EXCEPT ![z].state = "failed"]
    BY <1>0, <2>1, <2>4 DEF MailRow
  <2>5. CASE mail' = [mail EXCEPT ![z].due = FALSE]
    BY <1>0, <2>1, <2>5, MailAged
  <2> QED BY <2>2, <2>3, <2>4, <2>5
<1>7. ASSUME NEW q \in Requests, Serve(q) PROVE mail' = mail \/ Enqueue(q)
  BY <1>7 DEF Serve, Ask, LockLink, Confirm, Abandon
<1>8. ASSUME NEW s \in Senders, Send(s) \/ Die(s)
      PROVE  mail' = mail \/ CommitSent(s) \/ Defer(s)
  BY <1>8 DEF Send, Claim, BeginMint, Mint, Accept, Refuse, Die
<1>9. CASE PurgeLinks \/ UNCHANGED vars \/ \E t \in Tokens : ExpireLink(t)
  BY <1>1, <1>9 DEF PurgeLinks, ExpireLink, vars
<1> QED BY <1>1, <1>2, <1>3, <1>4, <1>5, <1>6, <1>7, <1>8, <1>9 DEF Next, Tick

\* A request is for a kind in use, and a link works for somebody there.
LEMMA OwnedStep ==
    ASSUME OutboxInv, OutboxInv', [Next]_vars, OwnedInv
    PROVE  OwnedInv'
<1> USE DEF people, outbox, links, outside, history
<1>0. /\ request \in [Requests -> RequestState] /\ link \in [Tokens -> LinkRow]
      /\ accounts \subseteq Users
  BY DEF OutboxInv, TypeOK
<1>1. ASSUME NEW q \in Requests, request'[q].at = "enqueuing"
      PROVE  request'[q].kind \in Kinds
  <2>1. CASE request'[q] = request[q]
    BY <1>1, <2>1 DEF OwnedInv
  <2>2. ASSUME NEW z \in Requests, NEW u \in Users, NEW k \in Kinds, Ask(z, u, k)
        PROVE  request'[q].kind \in Kinds
    BY <1>0, <1>1, <2>2 DEF Ask, OwnedInv
  <2>3. ASSUME NEW z \in Requests, NEW t \in Tokens, LockLink(z, t)
        PROVE  request'[q].kind \in Kinds
    BY <1>0, <1>1, <2>3 DEF LockLink, OwnedInv
  <2>4. ASSUME NEW z \in Requests, Enqueue(z) \/ Confirm(z) \/ Abandon(z)
        PROVE  request'[q].kind \in Kinds
    BY <1>0, <1>1, <2>4, RestTyped DEF Enqueue, Confirm, Abandon, OwnedInv
  <2>5. request' = request \/ \E z \in Requests : Serve(z)
    <3>1. CASE Tick \/ PurgeLinks \/ PurgeMails \/ \E u \in Users : DeleteAccount(u)
      BY <3>1 DEF Tick, BecomeDue, GrowOld, ExpireLink, PurgeLinks, PurgeMails, DeleteAccount
    <3>2. ASSUME NEW s \in Senders, Send(s) \/ Die(s) PROVE request' = request
      BY <3>2 DEF Send, Claim, BeginMint, Mint, Accept, Refuse, CommitSent, Defer, Die
    <3>3. CASE UNCHANGED vars
      BY <3>3 DEF vars
    <3> QED BY <3>1, <3>2, <3>3 DEF Next
  <2> QED BY <2>1, <2>2, <2>3, <2>4, <2>5 DEF Serve
<1>2. ASSUME NEW t \in Tokens, link'[t].state = "fresh" PROVE link'[t].user \in accounts'
  <2>1. CASE \E s \in Senders : CommitSent(s)
    <3>1. PICK s \in Senders : CommitSent(s)
      BY <2>1
    <3>2. /\ sender[s].mail \in Mails /\ mail[sender[s].mail].state = "waiting"
          /\ link'[sender[s].token].user = mail[sender[s].mail].user
          /\ \A z \in Tokens \ {sender[s].token} : link'[z].state = "fresh" => link'[z] = link[z]
      BY <3>1, Commits
    <3>3. mail[sender[s].mail].user \in accounts
      BY <3>2 DEF OutboxInv
    <3>4. accounts' = accounts
      BY <3>1 DEF CommitSent
    <3> QED BY <1>2, <3>2, <3>3, <3>4 DEF OwnedInv
  <2>2. CASE \A s \in Senders : ~CommitSent(s)
    <3>1. link'[t] = link[t] /\ link[t].user \in accounts
      BY <1>2, <2>2, LinksEnd DEF LinksOnlyEnd, OwnedInv
    <3>2. ASSUME NEW u \in Users, DeleteAccount(u) PROVE link[t].user \in accounts'
      <4> DEFINE tokens == {z \in Tokens : link[z].user = u /\ link[z].state # "gone"}
      <4>1. /\ link' = [z \in Tokens |-> IF z \in tokens THEN [link[z] EXCEPT !.state = "gone"]
                                                        ELSE link[z]]
            /\ accounts' = accounts \ {u}
        BY <3>2 DEF DeleteAccount
      <4>2. t \notin tokens
        <5>1. SUFFICES ASSUME t \in tokens PROVE FALSE
          OBVIOUS
        <5>2. link'[t] = [link[t] EXCEPT !.state = "gone"]
          BY <4>1, <5>1
        <5> QED BY <1>0, <1>2, <5>2, StateOnly
      <4>3. link[t].user # u
        BY <1>2, <3>1, <4>2
      <4> QED BY <3>1, <4>1, <4>3
    <3>3. accounts' = accounts \/ \E u \in Users : DeleteAccount(u)
      <4>1. CASE Tick \/ PurgeLinks \/ PurgeMails
        BY <4>1 DEF Tick, BecomeDue, GrowOld, ExpireLink, PurgeLinks, PurgeMails
      <4>2. ASSUME NEW q \in Requests, Serve(q) PROVE accounts' = accounts
        BY <4>2 DEF Serve, Ask, Enqueue, LockLink, Confirm, Abandon
      <4>3. ASSUME NEW s \in Senders, Send(s) \/ Die(s) PROVE accounts' = accounts
        BY <4>3 DEF Send, Claim, BeginMint, Mint, Accept, Refuse, CommitSent, Defer, Die
      <4>4. CASE UNCHANGED vars
        BY <4>4 DEF vars
      <4> QED BY <4>1, <4>2, <4>3, <4>4 DEF Next
    <3> QED BY <3>1, <3>2, <3>3
  <2> QED BY <2>1, <2>2
<1>3. ASSUME NEW m \in Mails, mail'[m].state = "none" PROVE mail'[m].user = None
  BY <1>3, UnwrittenStay DEF OwnedInv
<1> QED BY <1>1, <1>2, <1>3 DEF OwnedInv
\* A row of the outbox is written for a request whose account is there.
LEMMA OrderMaps ==
    ASSUME OutboxInv, OwnedInv, NEW q \in Requests, Enqueue(q)
    PROVE  Contract!Next \/ UNCHANGED Promised
<1> USE DEF people, links, outside, history
<1>0. /\ mail \in [Mails -> MailRow] /\ accounts \subseteq Users
      /\ request[q].kind \in Kinds /\ request[q].at = "enqueuing"
      /\ UNCHANGED <<accounts, verified, accepted, link, uses, expired>>
  BY DEF OutboxInv, TypeOK, OwnedInv, Enqueue
<1>1. CASE mail' = mail
  BY <1>0, <1>1 DEF Promised, Letters
<1>2. ASSUME NEW m \in Mails, mail[m].state = "none", request[q].user \in accounts,
             mail' = [mail EXCEPT ![m] =
                         [state |-> "waiting", user |-> request[q].user,
                          kind |-> request[q].kind, due |-> TRUE, old |-> FALSE]]
      PROVE  Contract!Next
  <2> DEFINE u == request[q].user
             k == request[q].kind
             row == [state |-> "waiting", user |-> u, kind |-> k]
  <2>1. /\ mail'[m].state = "waiting" /\ mail'[m].user = u /\ mail'[m].kind = k
        /\ \A z \in Mails \ {m} : mail'[z] = mail[z]
    BY <1>0, <1>2
  <2> HIDE DEF u, k
  <2>2. Letters' = [Letters EXCEPT ![m] = row]
    BY <2>1 DEF Letters
  <2>3. Contract!Order(m, u, k)
    BY <1>0, <1>2, <2>2, LetterReads DEF Contract!Order, u
  <2>4. u \in Users /\ k \in Kinds
    BY <1>0, <1>2 DEF u, k
  <2> QED BY <2>3, <2>4 DEF Contract!Next
<1> QED BY <1>1, <1>2 DEF Enqueue

\* The provider is handed what is owed.
LEMMA TakeMaps ==
    ASSUME OutboxInv, NEW s \in Senders, Accept(s)
    PROVE  Contract!Next
<1> DEFINE m == sender[s].mail
<1>1. /\ m \in Mails /\ mail[m].state = "waiting" /\ mail[m].user \in accounts
  BY DEF OutboxInv, SendsWhatItHolds, Accept
<1>2. /\ accepted' = accepted \cup {m}
      /\ UNCHANGED <<accounts, verified, mail, link, uses, expired>>
  BY DEF Accept, people, outbox, links, history
<1> HIDE DEF m
<1>3. Letters' = Letters
  BY <1>2 DEF Letters
<1>4. Contract!Take(m)
  BY <1>1, <1>2, <1>3, LetterReads DEF Contract!Take
<1> QED BY <1>1, <1>4 DEF Contract!Next

\* The commit of a message: its row goes, its link works in the place of others.
LEMMA DeliverMaps ==
    ASSUME OutboxInv, NEW s \in Senders, SupersedesItsOwn(s), CommitSent(s)
    PROVE  Contract!Next
<1> DEFINE m == sender[s].mail
           n == sender[s].token
           S == sender[s].older
           row == [state |-> "fresh", user |-> mail[m].user, kind |-> mail[m].kind]
<1>0. /\ TypeOK /\ mail \in [Mails -> MailRow] /\ link \in [Tokens -> LinkRow]
      /\ sender[s].at = "taken" /\ mail' = [mail EXCEPT ![m].state = "gone"]
      /\ link' = [t \in Tokens |-> IF t = n THEN row
                    ELSE IF t \in S THEN [link[t] EXCEPT !.state = "superseded"] ELSE link[t]]
      /\ UNCHANGED <<accounts, verified, accepted, uses, expired>>
  BY DEF OutboxInv, TypeOK, CommitSent, people, outside, history
<1>1. /\ m \in Mails /\ mail[m].state = "waiting" /\ mail[m].user \in accounts /\ m \in accepted
      /\ n \in Tokens /\ link[n].state = "none"
      /\ \A t \in S : link[t].state = "fresh"
  BY <1>0 DEF OutboxInv, SendsWhatItHolds
<1>2. S \in SUBSET Tokens
  BY <1>0 DEF TypeOK, SenderState
<1>3. \A t \in S : link[t].user = mail[m].user /\ link[t].kind = mail[m].kind
  BY <1>0 DEF SupersedesItsOwn
<1> HIDE DEF m, n, S
<1>4. Letters' = Contract!Become(Letters, {m}, "gone")
  <2>1. "gone" \in {"none", "waiting", "failed", "gone"}
    OBVIOUS
  <2>2. /\ mail'[m].state = "gone" /\ mail'[m].user = mail[m].user
        /\ mail'[m].kind = mail[m].kind
        /\ \A z \in Mails \ {m} : mail'[z] = mail[z]
    BY <1>0, <1>1, <2>1, MailSet, StateOnly
  <2> QED BY <1>0, <1>1, <2>2, LettersBecome
<1>5. link' = [Contract!Become(link, S, "superseded") EXCEPT ![n] = row]
  BY <1>0, <1>1, <1>2 DEF Contract!Become
<1>6. row = [state |-> "fresh", user |-> Letters[m].user, kind |-> Letters[m].kind]
  BY <1>1, LetterReads
<1> HIDE DEF row
<1>7. Contract!Deliver(m, n, S)
  BY <1>0, <1>1, <1>3, <1>4, <1>5, <1>6, LetterReads DEF Contract!Deliver
<1> QED BY <1>1, <1>2, <1>7 DEF Contract!Next

\* A failed send is seen only when it is given up on.
LEMMA DeferMaps ==
    ASSUME OutboxInv, NEW s \in Senders, Defer(s)
    PROVE  Contract!Next \/ UNCHANGED Promised
<1> DEFINE m == sender[s].mail
<1>0. /\ TypeOK /\ mail \in [Mails -> MailRow] /\ m \in Mails /\ mail[m].state = "waiting"
      /\ UNCHANGED <<accounts, verified, accepted, link, uses, expired>>
      /\ \/ mail' = [mail EXCEPT ![m].state = "failed"]
         \/ mail' = [mail EXCEPT ![m].due = FALSE]
  BY DEF OutboxInv, TypeOK, SendsWhatItHolds, Defer, people, outside
<1> HIDE DEF m
<1>1. CASE mail' = [mail EXCEPT ![m].state = "failed"]
  <2>1. "failed" \in {"none", "waiting", "failed", "gone"}
    OBVIOUS
  <2>2. /\ mail'[m].state = "failed" /\ mail'[m].user = mail[m].user
        /\ mail'[m].kind = mail[m].kind
        /\ \A z \in Mails \ {m} : mail'[z] = mail[z]
    BY <1>0, <1>1, <2>1, MailSet, StateOnly
  <2>3. Letters' = Contract!Become(Letters, {m}, "failed")
    BY <1>0, <2>2, LettersBecome
  <2>4. Contract!GiveUp(m)
    BY <1>0, <2>3, LetterReads DEF Contract!GiveUp
  <2> QED BY <1>0, <2>4 DEF Contract!Next
<1>2. CASE mail' = [mail EXCEPT ![m].due = FALSE]
  <2>1. \A z \in Mails : /\ mail'[z].state = mail[z].state /\ mail'[z].user = mail[z].user
                         /\ mail'[z].kind = mail[z].kind
    BY <1>0, <1>2, MailAged, StateOnly
  <2>2. Letters' = Letters
    BY <1>0, <2>1, LettersSame
  <2> QED BY <1>0, <2>2 DEF Promised
<1> QED BY <1>0, <1>1, <1>2

\* A confirmation uses a link that works, for an account that is there.
LEMMA UseMaps ==
    ASSUME OutboxInv, OwnedInv, NEW q \in Requests, Confirm(q)
    PROVE  Contract!Next
<1> DEFINE t == request[q].token
<1>0. /\ link \in [Tokens -> LinkRow] /\ t \in Tokens /\ link[t].state = "fresh"
      /\ verified' = verified \cup {link[t].user}
      /\ link' = [link EXCEPT ![t].state = "spent"]
      /\ uses' = [uses EXCEPT ![t] = uses[t] + 1]
      /\ UNCHANGED <<accounts, mail, accepted, expired>>
  BY DEF OutboxInv, TypeOK, ConfirmsWhatItHolds, Confirm, outbox, outside
<1>1. link[t].user \in accounts
  BY <1>0 DEF OwnedInv
<1> HIDE DEF t
<1>2. link' = Contract!Become(link, {t}, "spent")
  BY <1>0 DEF Contract!Become
<1>3. Letters' = Letters
  BY <1>0 DEF Letters
<1>4. Contract!Use(t)
  BY <1>0, <1>1, <1>2, <1>3 DEF Contract!Use
<1> QED BY <1>0, <1>4 DEF Contract!Next

\* Time that passes is seen only in the links.
LEMMA TickMaps ==
    ASSUME OutboxInv, Tick
    PROVE  Contract!Next \/ UNCHANGED Promised
<1>0. mail \in [Mails -> MailRow]
  BY DEF OutboxInv, TypeOK
<1>1. ASSUME NEW m \in Mails, BecomeDue(m) \/ GrowOld(m) PROVE UNCHANGED Promised
  <2>1. /\ mail' = [mail EXCEPT ![m].due = TRUE] \/ mail' = [mail EXCEPT ![m].old = TRUE]
        /\ UNCHANGED <<accounts, verified, accepted, link, uses, expired>>
    BY <1>1 DEF BecomeDue, GrowOld, people, links, outside, history
  <2>2. \A z \in Mails : /\ mail'[z].state = mail[z].state /\ mail'[z].user = mail[z].user
                         /\ mail'[z].kind = mail[z].kind
    <3>1. CASE mail' = [mail EXCEPT ![m].due = TRUE]
      BY <1>0, <3>1, MailAged, StateOnly
    <3>2. CASE mail' = [mail EXCEPT ![m].old = TRUE]
      BY <1>0, <3>2, MailAged, StateOnly
    <3> QED BY <2>1, <3>1, <3>2
  <2>3. Letters' = Letters
    BY <1>0, <2>2, LettersSame
  <2> QED BY <2>1, <2>3 DEF Promised
<1>2. ASSUME NEW t \in Tokens, ExpireLink(t) PROVE Contract!Next
  <2>1. /\ link[t].state # "none" /\ expired' = expired \cup {t}
        /\ UNCHANGED <<accounts, verified, mail, accepted, link, uses>>
    BY <1>2 DEF ExpireLink, people, outbox, outside, history
  <2>2. Letters' = Letters
    BY <2>1 DEF Letters
  <2>3. Contract!Pass(t)
    BY <2>1, <2>2 DEF Contract!Pass
  <2> QED BY <2>3 DEF Contract!Next
<1> QED BY <1>1, <1>2 DEF Tick

\* The purges forget what is past its expiry, and what was given up on.
LEMMA PurgeMaps ==
    ASSUME OutboxInv, PurgeLinks \/ PurgeMails
    PROVE  Contract!Next
<1>0. mail \in [Mails -> MailRow] /\ link \in [Tokens -> LinkRow] /\ expired \subseteq Tokens
  BY DEF OutboxInv, TypeOK
<1>1. CASE PurgeLinks
  <2> DEFINE dead == {t \in expired : link[t].state \in {"fresh", "superseded", "spent"}}
  <2>1. /\ link' = [t \in Tokens |-> IF t \in dead THEN [link[t] EXCEPT !.state = "gone"]
                                                   ELSE link[t]]
        /\ dead \subseteq expired /\ dead \in SUBSET Tokens
        /\ UNCHANGED <<accounts, verified, mail, accepted, uses, expired>>
    BY <1>0, <1>1 DEF PurgeLinks, people, outbox, outside, history
  <2> HIDE DEF dead
  <2>2. link' = Contract!Become(link, dead, "gone")
    BY <1>0, <2>1 DEF Contract!Become
  <2>3. Letters' = Letters
    BY <2>1 DEF Letters
  <2>4. Contract!ForgetLinks(dead)
    BY <2>1, <2>2, <2>3 DEF Contract!ForgetLinks
  <2> QED BY <2>1, <2>4 DEF Contract!Next
<1>2. CASE PurgeMails
  <2> DEFINE dead == {m \in Mails : mail[m].state = "failed"}
  <2>1. /\ mail' = [m \in Mails |-> IF m \in dead THEN [mail[m] EXCEPT !.state = "gone"]
                                                  ELSE mail[m]]
        /\ dead \in SUBSET Mails /\ \A m \in dead : mail[m].state = "failed"
        /\ UNCHANGED <<accounts, verified, accepted, link, uses, expired>>
    BY <1>2 DEF PurgeMails, people, links, outside, history
  <2> HIDE DEF dead
  <2>2. /\ \A m \in dead : /\ mail'[m].state = "gone" /\ mail'[m].user = mail[m].user
                           /\ mail'[m].kind = mail[m].kind
        /\ \A m \in Mails \ dead : mail'[m] = mail[m]
    BY <1>0, <2>1, MailGone, StateOnly
  <2>3. Letters' = Contract!Become(Letters, dead, "gone")
    BY <1>0, <2>1, <2>2, LettersBecome
  <2>4. Contract!ForgetMails(dead)
    BY <2>1, <2>3, LetterReads DEF Contract!ForgetMails
  <2> QED BY <2>1, <2>4 DEF Contract!Next
<1> QED BY <1>1, <1>2

\* An account goes with all that is its own.
LEMMA CloseMaps ==
    ASSUME OutboxInv, OwnedInv, NEW u \in Users, DeleteAccount(u)
    PROVE  Contract!Next
<1> DEFINE mails == {m \in Mails : mail[m].user = u /\ mail[m].state \in {"waiting", "failed"}}
           tokens == {t \in Tokens : link[t].user = u /\ link[t].state # "gone"}
           own == {m \in Mails : mail[m].user = u}
           theirs == {t \in Tokens : link[t].user = u}
<1>0. /\ mail \in [Mails -> MailRow] /\ link \in [Tokens -> LinkRow]
      /\ accounts' = accounts \ {u}
      /\ mail' = [m \in Mails |-> IF m \in mails THEN [mail[m] EXCEPT !.state = "gone"]
                                                 ELSE mail[m]]
      /\ link' = [t \in Tokens |-> IF t \in tokens THEN [link[t] EXCEPT !.state = "gone"]
                                                  ELSE link[t]]
      /\ UNCHANGED <<verified, accepted, uses, expired>>
  BY DEF OutboxInv, TypeOK, DeleteAccount, outside, history
<1>1. \A m \in own \ mails : mail[m].state = "gone"
  <2>1. \A m \in own : mail[m].state # "none"
    BY ProcessFacts DEF OwnedInv
  <2>2. \A m \in Mails : mail[m].state \in {"none", "waiting", "failed", "gone"}
    BY <1>0 DEF MailRow
  <2> QED BY <2>1, <2>2
<1>2. /\ \A t \in theirs \ tokens : link[t].state = "gone"
      /\ mails \subseteq own /\ own \in SUBSET Mails
      /\ tokens \subseteq theirs /\ theirs \subseteq Tokens
  OBVIOUS
<1>3. own = {m \in Mails : Letters[m].user = u}
  BY LetterReads
<1>4. \A t \in theirs : [link[t] EXCEPT !.state = "gone"] =
          IF t \in tokens THEN [link[t] EXCEPT !.state = "gone"] ELSE link[t]
  BY <1>0, <1>2 DEF LinkRow
<1> HIDE DEF mails, tokens, own
<1>5. /\ \A m \in own : /\ mail'[m].state = "gone" /\ mail'[m].user = mail[m].user
                        /\ mail'[m].kind = mail[m].kind
      /\ \A m \in Mails \ own : mail'[m] = mail[m]
  BY <1>0, <1>1, <1>2, MailGone, StateOnly
<1>6. Letters' = Contract!Become(Letters, own, "gone")
  BY <1>0, <1>2, <1>5, LettersBecome
<1>7. link' = Contract!Become(link, theirs, "gone")
  BY <1>0, <1>2, <1>4 DEF Contract!Become
<1>8. Contract!Close(u)
  BY <1>0, <1>3, <1>6, <1>7 DEF Contract!Close
<1> QED BY <1>8 DEF Contract!Next

\* Every step is a step of the contract, or none.
LEMMA StepMaps ==
    OutboxInv /\ OwnedInv /\ SupersedeInv /\ [Next]_vars => [Contract!Next]_Promised
<1> SUFFICES ASSUME OutboxInv, OwnedInv, SupersedeInv, [Next]_vars
             PROVE  Contract!Next \/ UNCHANGED Promised
  OBVIOUS
<1> USE DEF people, outbox, links, outside, history
<1>1. ASSUME NEW q \in Requests, Serve(q) PROVE Contract!Next \/ UNCHANGED Promised
  <2>1. CASE Enqueue(q) \/ Confirm(q)
    BY <2>1, OrderMaps, UseMaps
  <2>2. ASSUME NEW u \in Users, NEW k \in Kinds, Ask(q, u, k) PROVE UNCHANGED Promised
    BY <2>2 DEF Ask, Promised, Letters
  <2>3. ASSUME NEW t \in Tokens, LockLink(q, t) PROVE UNCHANGED Promised
    BY <2>3 DEF LockLink, Promised, Letters
  <2>4. CASE Abandon(q)
    BY <2>4 DEF Abandon, Promised, Letters
  <2> QED BY <1>1, <2>1, <2>2, <2>3, <2>4 DEF Serve
<1>2. ASSUME NEW s \in Senders, Send(s) \/ Die(s) PROVE Contract!Next \/ UNCHANGED Promised
  <2>1. CASE Accept(s) \/ CommitSent(s) \/ Defer(s)
    BY <2>1, TakeMaps, DeliverMaps, DeferMaps DEF SupersedeInv
  <2>2. CASE Claim(s) \/ BeginMint(s) \/ Mint(s) \/ Refuse(s) \/ Die(s)
    BY <2>2 DEF Claim, BeginMint, Mint, Refuse, Die, Promised, Letters
  <2> QED BY <1>2, <2>1, <2>2 DEF Send
<1>3. CASE UNCHANGED vars
  BY <1>3 DEF vars, Promised, Letters
<1> QED BY <1>1, <1>2, <1>3, TickMaps, PurgeMaps, CloseMaps DEF Next

\* Every request, every message and every run of the command takes effect as one
\* step of the contract, however many there are of each and whatever dies.
THEOREM Refinement == Spec => ImplementsContract
<1>1. Init => SupersedeInv /\ OwnedInv
  BY RestTyped DEF Init, SupersedeInv, SupersedesItsOwn, SupersededByAnother, OwnedInv
<1>2. OutboxInv /\ OutboxInv' /\ SupersedeInv /\ OwnedInv /\ [Next]_vars
         => (SupersedeInv /\ OwnedInv)'
  BY ItsOwnStep, SupersededStep, OwnedStep DEF SupersedeInv
<1>3. OutboxInv /\ OwnedInv /\ SupersedeInv /\ [Next]_vars
         => [Contract!Next]_<<accounts, verified, Letters, accepted, link, uses, expired>>
  BY StepMaps DEF Promised
<1> QED BY <1>1, <1>2, <1>3, InitMaps, Consistency, PTL DEF Spec, ImplementsContract, Contract!Spec
=============================================================================
