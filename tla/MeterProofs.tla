----------------------------- MODULE MeterProofs -----------------------------
(* Proofs about Meter for any number of requests, pushes, links and          *)
(* quarters, and one run of the fold at a time.                              *)
EXTENDS Meter, TLAPS

\* A request that moves on changes itself and nobody else.
LEMMA RequestMoves ==
    ASSUME request \in [Requests -> RequestState], NEW q \in Requests, NEW r \in RequestState,
           request' = [request EXCEPT ![q] = r]
    PROVE  /\ request' \in [Requests -> RequestState]
           /\ request'[q] = r
           /\ \A z \in Requests \ {q} : request'[z] = request[z]
OBVIOUS

\* The same for a run of the fold.
LEMMA FoldMoves ==
    ASSUME fold \in [Folds -> FoldState], NEW f \in Folds, NEW r \in FoldState,
           fold' = [fold EXCEPT ![f] = r]
    PROVE  /\ fold' \in [Folds -> FoldState]
           /\ fold'[f] = r
           /\ \A g \in Folds \ {f} : fold'[g] = fold[g]
OBVIOUS

LEMMA NoneTyped == None \in [Moments -> Nat] /\ \A m \in Moments : None[m] = 0
BY DEF None

LEMMA IdleTyped ==
    /\ IdleRequest \in RequestState /\ IdleRequest.at = "idle"
    /\ IdleRequest.held = {} /\ IdleRequest.revokes = {}
    /\ IdleRequest.quarters = {} /\ IdleRequest.spans = {}
    /\ IdleFold \in FoldState /\ IdleFold.at = "idle" /\ IdleFold.wrote = {}
<1>1. IdleRequest \in RequestState
  BY DEF IdleRequest, RequestState
<1>2. IdleFold \in FoldState
  BY NoneTyped DEF IdleFold, FoldState
<1> QED BY <1>1, <1>2 DEF IdleRequest, IdleFold

\* A quarter's hour is among the hours of any set it is in, and the quarters of
\* one hour come and go together.
LEMMA HoursOfSets ==
    ASSUME NEW S \in SUBSET Moments
    PROVE  /\ InHoursOf(S) \subseteq Moments /\ S \subseteq InHoursOf(S)
           /\ \A m \in InHoursOf(S), n \in Moments :
                  HourOf(n) = HourOf(m) => n \in InHoursOf(S)
BY DEF InHoursOf

\* An idle request holds nothing.
LEMMA IdleHoldsNothing ==
    ASSUME NEW q \in Requests, request'[q] = IdleRequest
    PROVE  HoldsWorkingLinks(q)'
BY IdleTyped DEF HoldsWorkingLinks

\* A request is as well off as before while the links it has a hand on work.
LEMMA RequestUndisturbed ==
    ASSUME NEW q \in Requests, HoldsWorkingLinks(q),
           request'[q].at = request[q].at, request'[q].seen = request[q].seen,
           request'[q].held = request[q].held, request'[q].revokes = request[q].revokes,
           request'[q].quarters = request[q].quarters, request'[q].spans = request[q].spans,
           \A l \in request[q].held \cup request[q].revokes : link'[l] = link[l]
    PROVE  HoldsWorkingLinks(q)'
BY DEF HoldsWorkingLinks, Active

\* A run of the fold is, while the rows of its working link stay.
LEMMA FoldUndisturbed ==
    ASSUME NEW f \in Folds, FoldsWhatIsThere(f), fold'[f] = fold[f],
           fold[f].at # "idle" =>
               LET l == fold[f].link IN
               /\ link'[l] # "none"
               /\ link'[l] = "active" =>
                      /\ link[l] = "active" /\ hours'[l] = hours[l]
                      /\ \A m \in Moments : reading[l][m] > 0 => reading'[l][m] = reading[l][m],
           fold \in [Folds -> FoldState]
    PROVE  FoldsWhatIsThere(f)'
<1> DEFINE l == fold[f].link
<1>1. fold[f].at = "idle" \/ fold[f].at # "idle"
  OBVIOUS
<1>2. CASE fold[f].at = "idle"
  BY <1>2 DEF FoldsWhatIsThere
<1>3. CASE fold[f].at # "idle"
  <2>1. /\ Folding(f)' = Folding(f) /\ InHoursOf(Folding(f))' = InHoursOf(Folding(f))
        /\ \A m \in Folding(f) : fold[f].rows[m] > 0 /\ m \in Moments
    BY DEF Folding, InHoursOf
  <2>2. l \in Links /\ link'[l] # "none"
    BY <1>3 DEF FoldsWhatIsThere
  <2>3. ASSUME link'[l] = "active"
        PROVE  \A m \in Folding(f) : reading'[l][m] = fold[f].rows[m]
    <3>1. \A m \in Folding(f) : reading[l][m] = fold[f].rows[m]
      BY <1>3, <2>3 DEF FoldsWhatIsThere
    <3> HIDE DEF Folding
    <3> QED BY <1>3, <2>1, <2>3, <3>1
  <2>4. ASSUME link'[l] = "active", fold[f].at \in {"looked", "written", "deleted"}
        PROVE  \A m \in InHoursOf(Folding(f)) : fold[f].base[m] = hours'[l][m]
    <3>1. \A m \in InHoursOf(Folding(f)) : fold[f].base[m] = hours[l][m]
      BY <1>3, <2>4 DEF FoldsWhatIsThere
    <3> QED BY <1>3, <2>4, <3>1
  <2>5. ASSUME link'[l] = "active", fold[f].at \in {"written", "deleted"}
        PROVE  fold[f].wrote = InHoursOf(Folding(f))
    BY <1>3, <2>5 DEF FoldsWhatIsThere
  <2>6. fold[f].at \notin {"written", "deleted"} => fold[f].wrote = {}
    BY DEF FoldsWhatIsThere
  <2> QED BY <2>1, <2>2, <2>3, <2>4, <2>5, <2>6 DEF FoldsWhatIsThere
<1> QED BY <1>1, <1>2, <1>3

-----------------------------------------------------------------------------

\* The invariant holds of the empty tables.
LEMMA InvInit == Init => MeterInv
<1> SUFFICES ASSUME Init PROVE MeterInv
  OBVIOUS
<1>1. TypeOK
  <2>1. reading \in [Links -> [Moments -> Nat]] /\ hours \in [Links -> [Moments -> Nat]]
          /\ stored \in [Links -> [Moments -> Nat]]
    BY NoneTyped DEF Init
  <2>2. horizon \in 0..MaxMoments
    BY SizesAreNat DEF Init
  <2>3. request \in [Requests -> RequestState] /\ fold \in [Folds -> FoldState]
    BY IdleTyped DEF Init
  <2> QED BY <2>1, <2>2, <2>3 DEF Init, TypeOK
<1>2. \A q \in Requests : HoldsWorkingLinks(q)
  BY IdleTyped DEF Init, HoldsWorkingLinks
<1>3. LocksApart
  BY IdleTyped DEF Init, LocksApart
<1>4. \A f \in Folds : FoldsWhatIsThere(f)
  BY IdleTyped DEF Init, FoldsWhatIsThere
<1> QED BY <1>1, <1>2, <1>3, <1>4 DEF MeterInv, Init, FoldsConserve, Active

-----------------------------------------------------------------------------
(* Steps that write no table.                                                *)

\* A request that moves on, with locks nobody else has.
LEMMA RequestStep ==
    ASSUME MeterInv, NEW q \in Requests, NEW r \in RequestState,
           request' = [request EXCEPT ![q] = r],
           UNCHANGED <<consent, tables, horizon, device, fold>>,
           HoldsWorkingLinks(q)',
           \A z \in Requests \ {q} :
               (r.held \cup r.revokes) \cap (request[z].held \cup request[z].revokes) = {}
    PROVE  MeterInv'
<1>1. TypeOK'
  BY RequestMoves DEF MeterInv, TypeOK, tables
<1>2. request'[q] = r /\ \A z \in Requests \ {q} : request'[z] = request[z]
  BY RequestMoves DEF MeterInv, TypeOK
<1>3. \A z \in Requests : HoldsWorkingLinks(z)'
  <2> TAKE z \in Requests
  <2>1. CASE z = q
    BY <2>1
  <2>2. CASE z # q
    BY <1>2, <2>2, RequestUndisturbed DEF MeterInv, tables
  <2> QED BY <2>1, <2>2
<1>4. LocksApart'
  BY <1>2 DEF LocksApart, MeterInv
<1>5. \A f \in Folds : FoldsWhatIsThere(f)'
  BY DEF MeterInv, FoldsWhatIsThere, Folding, InHoursOf, tables
<1>6. FoldsConserve'
  BY DEF MeterInv, FoldsConserve, Active, tables
<1> QED BY <1>1, <1>3, <1>4, <1>5, <1>6 DEF MeterInv, tables

\* A run of the fold that moves on.
LEMMA FoldStep ==
    ASSUME MeterInv, NEW f \in Folds, NEW r \in FoldState,
           fold' = [fold EXCEPT ![f] = r],
           UNCHANGED <<consent, tables, horizon, request, device>>,
           FoldsWhatIsThere(f)'
    PROVE  MeterInv'
<1>1. TypeOK'
  BY FoldMoves DEF MeterInv, TypeOK, tables
<1>2. \A g \in Folds \ {f} : fold'[g] = fold[g]
  BY FoldMoves DEF MeterInv, TypeOK
<1>3. \A g \in Folds : FoldsWhatIsThere(g)'
  <2> TAKE g \in Folds
  <2>1. CASE g = f
    BY <2>1
  <2>2. CASE g # f
    BY <1>2, <2>2 DEF MeterInv, FoldsWhatIsThere, Folding, InHoursOf, tables
  <2> QED BY <2>1, <2>2
<1>4. \A q \in Requests : HoldsWorkingLinks(q)'
  BY DEF MeterInv, HoldsWorkingLinks, Active, tables
<1>5. LocksApart' /\ FoldsConserve'
  BY DEF MeterInv, LocksApart, FoldsConserve, Active, tables
<1> QED BY <1>1, <1>3, <1>4, <1>5 DEF MeterInv, tables

\* What a request may do next to its record keeps the record's shape.
LEMMA RecordMoves ==
    ASSUME NEW r \in RequestState,
           NEW a \in {"idle", "checked", "looking", "holding", "erasing", "erased",
                      "superseding", "creating"},
           NEW o \in {"link", "unlink", "withdraw"}, NEW S \in SUBSET Links,
           NEW P \in SUBSET (Links \X Moments)
    PROVE  /\ [r EXCEPT !.at = a, !.op = o] \in RequestState
           /\ [r EXCEPT !.at = a, !.op = o, !.seen = S] \in RequestState
           /\ [r EXCEPT !.at = a, !.held = S] \in RequestState
           /\ [r EXCEPT !.at = a, !.quarters = P] \in RequestState
           /\ [r EXCEPT !.at = a, !.spans = P] \in RequestState
           /\ [r EXCEPT !.at = a, !.seen = S] \in RequestState
           /\ [r EXCEPT !.at = a, !.revokes = S] \in RequestState
           /\ [r EXCEPT !.later = TRUE] \in RequestState
<1>1. [r EXCEPT !.at = a, !.op = o] \in RequestState
  BY DEF RequestState
<1>2. [r EXCEPT !.at = a, !.op = o, !.seen = S] \in RequestState
  BY DEF RequestState
<1>3. [r EXCEPT !.at = a, !.held = S] \in RequestState
  BY DEF RequestState
<1>4. [r EXCEPT !.at = a, !.quarters = P] \in RequestState
  BY DEF RequestState
<1>5. [r EXCEPT !.at = a, !.spans = P] \in RequestState
  BY DEF RequestState
<1>6. [r EXCEPT !.at = a, !.seen = S] \in RequestState
  BY DEF RequestState
<1>7. [r EXCEPT !.at = a, !.revokes = S] \in RequestState
  BY DEF RequestState
<1>8. [r EXCEPT !.later = TRUE] \in RequestState
  BY DEF RequestState
<1> QED BY <1>1, <1>2, <1>3, <1>4, <1>5, <1>6, <1>7, <1>8

LEMMA MayLinkStep ==
    ASSUME MeterInv, NEW q \in Requests, MayLink(q)
    PROVE  MeterInv'
<1> DEFINE r == request[q]
           n == [r EXCEPT !.at = "checked", !.op = "link"]
<1>1. r \in RequestState /\ n \in RequestState
  <2>1. r \in RequestState
    BY DEF MeterInv, TypeOK
  <2> HIDE DEF r
  <2> QED BY <2>1, RecordMoves
<1>2. /\ r.held = {} /\ r.revokes = {} /\ r.quarters = {} /\ r.spans = {}
  BY DEF MeterInv, HoldsWorkingLinks, MayLink
<1>3. n.at = "checked" /\ n.held = {} /\ n.revokes = {} /\ n.quarters = {} /\ n.spans = {}
  BY <1>1, <1>2 DEF RequestState
<1>4. request' = [request EXCEPT ![q] = n] /\ request'[q] = n
  BY DEF MayLink, MeterInv, TypeOK
<1> HIDE DEF r, n
<1>5. HoldsWorkingLinks(q)'
  BY <1>3, <1>4 DEF HoldsWorkingLinks
<1> QED BY <1>1, <1>3, <1>4, <1>5, RequestStep DEF MayLink

LEMMA LookStep ==
    ASSUME MeterInv, NEW q \in Requests, NEW op \in {"link", "unlink", "withdraw"}, Look(q, op)
    PROVE  MeterInv'
<1> DEFINE r == request[q]
           n == [r EXCEPT !.at = "looking", !.op = op, !.seen = Active]
<1>1. r \in RequestState /\ n \in RequestState
  <2>1. r \in RequestState /\ Active \subseteq Links
    BY DEF MeterInv, TypeOK, Active
  <2> HIDE DEF r
  <2> QED BY <2>1, RecordMoves
<1>2. r.at \in {"checked", "idle"}
  BY DEF Look
<1>3. /\ r.held = {} /\ r.revokes = {} /\ r.quarters = {} /\ r.spans = {}
  BY <1>2 DEF MeterInv, HoldsWorkingLinks
<1>4. n.at = "looking" /\ n.held = {} /\ n.revokes = {} /\ n.quarters = {} /\ n.spans = {}
  BY <1>1, <1>3 DEF RequestState
<1>5. request' = [request EXCEPT ![q] = n] /\ request'[q] = n
  BY DEF Look, MeterInv, TypeOK
<1> HIDE DEF r, n
<1>6. HoldsWorkingLinks(q)'
  BY <1>4, <1>5 DEF HoldsWorkingLinks
<1> QED BY <1>1, <1>4, <1>5, <1>6, RequestStep DEF Look

LEMMA HoldStep ==
    ASSUME MeterInv, NEW q \in Requests, Hold(q)
    PROVE  MeterInv'
<1> DEFINE r == request[q]
           still == r.seen \cap Active
           wanted == IF r.op = "link" THEN still ELSE Newest(still)
           n == [r EXCEPT !.at = "holding", !.held = wanted]
<1>1. wanted \subseteq still /\ wanted \subseteq Links
  BY DEF Newest, Active
<1>2. r \in RequestState
  BY DEF MeterInv, TypeOK
<1>3. /\ r.held = {} /\ r.revokes = {} /\ r.quarters = {} /\ r.spans = {}
  BY DEF MeterInv, HoldsWorkingLinks, Hold
<1>4. \A l \in wanted : ~HeldByOther(q, l) /\ ~RevokedByOther(q, l)
  BY DEF Hold
<1>5. request' = [request EXCEPT ![q] = n]
  BY DEF Hold
<1> HIDE DEF wanted
<1>6. n \in RequestState
  BY <1>1, <1>2, RecordMoves
<1>7. /\ n.at = "holding" /\ n.held = wanted /\ n.revokes = {} /\ n.quarters = {} /\ n.spans = {}
  BY <1>2, <1>3 DEF RequestState
<1>8. request'[q] = n /\ Active' = Active
  BY <1>5 DEF Hold, MeterInv, TypeOK, Active, tables
<1> HIDE DEF r, n
<1>9. HoldsWorkingLinks(q)'
  BY <1>1, <1>7, <1>8 DEF HoldsWorkingLinks
<1>10. \A z \in Requests \ {q} :
           (n.held \cup n.revokes) \cap (request[z].held \cup request[z].revokes) = {}
  BY <1>1, <1>4, <1>7 DEF HeldByOther, RevokedByOther
<1> QED BY <1>5, <1>6, <1>9, <1>10, RequestStep DEF Hold

LEMMA EraseQuartersStep ==
    ASSUME MeterInv, NEW q \in Requests, EraseQuarters(q)
    PROVE  MeterInv'
<1> DEFINE r == request[q]
           gone == {p \in r.held \X Moments : reading[p[1]][p[2]] > 0}
           n == [r EXCEPT !.at = "erasing", !.quarters = gone]
<1>1. r \in RequestState /\ HoldsWorkingLinks(q) /\ r.held \subseteq Links
  BY DEF MeterInv, TypeOK, HoldsWorkingLinks, Active
<1>2. gone \subseteq r.held \X Moments /\ gone \subseteq Links \X Moments
  BY <1>1
<1>3. request' = [request EXCEPT ![q] = n]
  BY DEF EraseQuarters
<1> HIDE DEF gone
<1>4. n \in RequestState
  BY <1>1, <1>2, RecordMoves
<1>5. /\ n.at = "erasing" /\ n.held = r.held /\ n.revokes = r.revokes
      /\ n.quarters = gone /\ n.spans = r.spans
  BY <1>1 DEF RequestState
<1>6. request'[q] = n /\ Active' = Active
  BY <1>3 DEF EraseQuarters, MeterInv, TypeOK, Active, tables
<1>7. r.at = "holding"
  BY DEF EraseQuarters
<1> HIDE DEF n
<1>8. HoldsWorkingLinks(q)'
  BY <1>1, <1>2, <1>5, <1>6, <1>7 DEF HoldsWorkingLinks
<1>9. \A z \in Requests \ {q} :
           (n.held \cup n.revokes) \cap (request[z].held \cup request[z].revokes) = {}
  BY <1>5 DEF MeterInv, LocksApart
<1> QED BY <1>3, <1>4, <1>8, <1>9, RequestStep DEF EraseQuarters

LEMMA EraseHoursStep ==
    ASSUME MeterInv, NEW q \in Requests, EraseHours(q)
    PROVE  MeterInv'
<1> DEFINE r == request[q]
           gone == {p \in r.held \X Moments : hours[p[1]][p[2]] > 0}
           n == [r EXCEPT !.at = "erased", !.spans = gone]
<1>1. r \in RequestState /\ HoldsWorkingLinks(q) /\ r.held \subseteq Links
  BY DEF MeterInv, TypeOK, HoldsWorkingLinks, Active
<1>2. gone \subseteq r.held \X Moments /\ gone \subseteq Links \X Moments
  BY <1>1
<1>3. request' = [request EXCEPT ![q] = n]
  BY DEF EraseHours
<1> HIDE DEF gone
<1>4. n \in RequestState
  BY <1>1, <1>2, RecordMoves
<1>5. /\ n.at = "erased" /\ n.held = r.held /\ n.revokes = r.revokes
      /\ n.quarters = r.quarters /\ n.spans = gone
  BY <1>1 DEF RequestState
<1>6. request'[q] = n /\ Active' = Active
  BY <1>3 DEF EraseHours, MeterInv, TypeOK, Active, tables
<1>7. r.at = "erasing"
  BY DEF EraseHours
<1> HIDE DEF n
<1>8. HoldsWorkingLinks(q)'
  BY <1>1, <1>2, <1>5, <1>6, <1>7 DEF HoldsWorkingLinks
<1>9. \A z \in Requests \ {q} :
           (n.held \cup n.revokes) \cap (request[z].held \cup request[z].revokes) = {}
  BY <1>5 DEF MeterInv, LocksApart
<1> QED BY <1>3, <1>4, <1>8, <1>9, RequestStep DEF EraseHours

LEMMA LookAgainStep ==
    ASSUME MeterInv, NEW q \in Requests, LookAgain(q)
    PROVE  MeterInv'
<1> DEFINE r == request[q]
           n == [r EXCEPT !.at = "superseding", !.seen = Active]
<1>1. r \in RequestState /\ HoldsWorkingLinks(q) /\ Active \subseteq Links
  BY DEF MeterInv, TypeOK, Active
<1>2. n \in RequestState
  BY <1>1, RecordMoves
<1>3. /\ n.at = "superseding" /\ n.seen = Active /\ n.held = r.held /\ n.revokes = r.revokes
      /\ n.quarters = r.quarters /\ n.spans = r.spans
  BY <1>1 DEF RequestState
<1>4. request' = [request EXCEPT ![q] = n] /\ request'[q] = n /\ Active' = Active
  BY DEF LookAgain, MeterInv, TypeOK, Active, tables
<1>5. r.at \in {"erased", "holding"}
  BY DEF LookAgain, Erased
<1> HIDE DEF n
<1>6. HoldsWorkingLinks(q)'
  BY <1>1, <1>3, <1>4, <1>5 DEF HoldsWorkingLinks
<1>7. \A z \in Requests \ {q} :
           (n.held \cup n.revokes) \cap (request[z].held \cup request[z].revokes) = {}
  BY <1>3 DEF MeterInv, LocksApart
<1> QED BY <1>2, <1>4, <1>6, <1>7, RequestStep DEF LookAgain

LEMMA SupersedeStep ==
    ASSUME MeterInv, NEW q \in Requests, Supersede(q)
    PROVE  MeterInv'
<1> DEFINE r == request[q]
           still == r.seen \cap Active
           n == [r EXCEPT !.at = "creating", !.revokes = still]
<1>1. r \in RequestState /\ HoldsWorkingLinks(q) /\ still \subseteq Links
  BY DEF MeterInv, TypeOK, Active
<1>2. request' = [request EXCEPT ![q] = n] /\ r.at = "superseding"
  BY DEF Supersede
<1>3. \A l \in still : ~HeldByOther(q, l) /\ ~RevokedByOther(q, l)
  BY DEF Supersede
<1>4. r.held \subseteq still
  BY <1>1, <1>2 DEF HoldsWorkingLinks
<1>5. still \subseteq Active
  OBVIOUS
<1> HIDE DEF still
<1>6. n \in RequestState
  BY <1>1, RecordMoves
<1>7. /\ n.at = "creating" /\ n.held = r.held /\ n.revokes = still
      /\ n.quarters = r.quarters /\ n.spans = r.spans
  BY <1>1 DEF RequestState
<1>8. request'[q] = n /\ Active' = Active
  BY <1>2 DEF Supersede, MeterInv, TypeOK, Active, tables
<1> HIDE DEF n
<1>9. HoldsWorkingLinks(q)'
  BY <1>1, <1>4, <1>5, <1>7, <1>8 DEF HoldsWorkingLinks
<1>10. \A z \in Requests \ {q} :
           (n.held \cup n.revokes) \cap (request[z].held \cup request[z].revokes) = {}
  BY <1>3, <1>4, <1>7 DEF HeldByOther, RevokedByOther
<1> QED BY <1>2, <1>6, <1>9, <1>10, RequestStep DEF Supersede

LEMMA AbortStep ==
    ASSUME MeterInv, NEW q \in Requests, Abort(q)
    PROVE  MeterInv'
<1>1. request' = [request EXCEPT ![q] = IdleRequest] /\ request'[q] = IdleRequest
  BY DEF Abort, MeterInv, TypeOK
<1> QED BY <1>1, IdleTyped, IdleHoldsNothing, RequestStep DEF Abort

LEMMA GrantStep ==
    ASSUME MeterInv, Grant
    PROVE  MeterInv'
<1> DEFINE n(q) == IF request[q].at # "idle" /\ request[q].op = "withdraw"
                   THEN [request[q] EXCEPT !.later = TRUE] ELSE request[q]
<1>1. \A q \in Requests : request[q] \in RequestState /\ n(q) \in RequestState
  <2> TAKE q \in Requests
  <2>1. request[q] \in RequestState
    BY DEF MeterInv, TypeOK
  <2>2. [request[q] EXCEPT !.later = TRUE] \in RequestState
    BY <2>1 DEF RequestState
  <2> QED BY <2>1, <2>2
<1>2. \A q \in Requests :
          /\ n(q).at = request[q].at /\ n(q).seen = request[q].seen
          /\ n(q).held = request[q].held /\ n(q).revokes = request[q].revokes
          /\ n(q).quarters = request[q].quarters /\ n(q).spans = request[q].spans
  BY <1>1 DEF RequestState
<1>3. request' = [q \in Requests |-> n(q)]
  BY DEF Grant
<1> HIDE DEF n
<1>4. TypeOK'
  <2>1. request' \in [Requests -> RequestState]
    BY <1>1, <1>3
  <2> QED BY <2>1 DEF Grant, MeterInv, TypeOK, tables
<1>5. \A q \in Requests : HoldsWorkingLinks(q)'
  BY <1>2, <1>3, RequestUndisturbed DEF Grant, MeterInv, tables
<1>6. LocksApart'
  BY <1>2, <1>3 DEF LocksApart, MeterInv
<1>7. \A f \in Folds : FoldsWhatIsThere(f)'
  BY DEF Grant, MeterInv, FoldsWhatIsThere, Folding, InHoursOf, tables
<1>8. FoldsConserve'
  BY DEF Grant, MeterInv, FoldsConserve, Active, tables
<1> QED BY <1>4, <1>5, <1>6, <1>7, <1>8 DEF Grant, MeterInv, tables

\* Time, and pushes that come and go, touch nothing the invariant speaks of.
LEMMA AgeStep ==
    ASSUME MeterInv, Age
    PROVE  MeterInv'
<1>1. TypeOK'
  BY SizesAreNat DEF Age, MeterInv, TypeOK, tables
<1>2. \A q \in Requests : HoldsWorkingLinks(q)'
  BY DEF Age, MeterInv, HoldsWorkingLinks, Active, tables
<1>3. \A f \in Folds : FoldsWhatIsThere(f)'
  BY DEF Age, MeterInv, FoldsWhatIsThere, Folding, InHoursOf, tables
<1>4. FoldsConserve' /\ LocksApart'
  BY DEF Age, MeterInv, FoldsConserve, LocksApart, Active, tables
<1> QED BY <1>1, <1>2, <1>3, <1>4 DEF Age, MeterInv, tables

LEMMA DeviceStep ==
    ASSUME MeterInv, NEW d \in Devices,
           Refuse(d) \/ \E l \in Links : Authenticate(d, l)
    PROVE  MeterInv'
<1>1. PICK n \in Links \cup {0} :
          /\ device' = [device EXCEPT ![d] = n]
          /\ n # 0 => link[n] # "none"
  BY DEF Refuse, Authenticate
<1>2. UNCHANGED <<consent, tables, horizon, request, fold>>
  BY DEF Refuse, Authenticate
<1>3. TypeOK'
  BY <1>1, <1>2 DEF MeterInv, TypeOK, tables
<1>4. \A q \in Requests : HoldsWorkingLinks(q)'
  BY <1>2 DEF MeterInv, HoldsWorkingLinks, Active, tables
<1>5. \A f \in Folds : FoldsWhatIsThere(f)'
  BY <1>2 DEF MeterInv, FoldsWhatIsThere, Folding, InHoursOf, tables
<1>6. FoldsConserve' /\ LocksApart'
  BY <1>2 DEF MeterInv, FoldsConserve, LocksApart, Active, tables
<1>7. \A e \in Devices : device'[e] # 0 => link'[device'[e]] # "none"
  BY <1>1, <1>2 DEF MeterInv, TypeOK, tables
<1> QED BY <1>2, <1>3, <1>4, <1>5, <1>6, <1>7 DEF MeterInv, tables

-----------------------------------------------------------------------------
(* Steps that write the tables.                                              *)

\* A push adds a quarter where there was none, under a link that was made.
LEMMA StoreStep ==
    ASSUME MeterInv, NEW d \in Devices, NEW batch \in SUBSET Moments, Store(d, batch)
    PROVE  MeterInv'
<1> DEFINE l == device[d]
           new == {m \in batch : reading[l][m] = 0}
           s == [m \in Moments |-> IF m \in new THEN stored[l][m] + 1 ELSE stored[l][m]]
           t == [m \in Moments |-> IF m \in new THEN stored[l][m] + 1 ELSE reading[l][m]]
<1>1. /\ l \in Links /\ link[l] # "none" /\ new \subseteq Moments
      /\ reading[l] \in [Moments -> Nat] /\ stored[l] \in [Moments -> Nat]
      /\ hours[l] \in [Moments -> Nat]
  BY DEF Store, MeterInv, TypeOK
<1>2. /\ stored' = [stored EXCEPT ![l] = s] /\ reading' = [reading EXCEPT ![l] = t]
  BY DEF Store
<1>3. /\ UNCHANGED <<consent, link, hours, horizon, request, fold>>
      /\ device' = [device EXCEPT ![d] = 0]
  BY DEF Store
<1>4. /\ s \in [Moments -> Nat] /\ t \in [Moments -> Nat]
      /\ \A m \in Moments : reading[l][m] > 0 => t[m] = reading[l][m]
  BY <1>1
<1>5. \A m \in Moments :
          s[m] - stored[l][m] = (IF t[m] > 0 THEN 1 ELSE 0) - (IF reading[l][m] > 0 THEN 1 ELSE 0)
  BY <1>1
<1> HIDE DEF l, s, t
<1>6. /\ stored'[l] = s /\ reading'[l] = t
      /\ \A k \in Links \ {l} : stored'[k] = stored[k] /\ reading'[k] = reading[k]
  BY <1>1, <1>2 DEF MeterInv, TypeOK
<1>7. TypeOK'
  BY <1>2, <1>3, <1>4 DEF MeterInv, TypeOK
<1>8. \A q \in Requests : HoldsWorkingLinks(q)'
  BY <1>3 DEF MeterInv, HoldsWorkingLinks, Active
<1>9. \A f \in Folds : FoldsWhatIsThere(f)'
  <2> TAKE f \in Folds
  <2>1. \A k \in Links, m \in Moments : reading[k][m] > 0 => reading'[k][m] = reading[k][m]
    BY <1>4, <1>6
  <2>2. fold[f].at # "idle" => fold[f].link \in Links /\ link[fold[f].link] # "none"
    BY DEF MeterInv, FoldsWhatIsThere
  <2> QED BY <1>3, <2>1, <2>2, FoldUndisturbed DEF MeterInv, TypeOK
<1>10. FoldsConserve'
  <2> SUFFICES ASSUME NEW k \in Active, NEW m \in Moments
               PROVE  stored'[k][m] = hours[k][m] + (IF reading'[k][m] > 0 THEN 1 ELSE 0)
    BY <1>3 DEF FoldsConserve, Active
  <2>1. stored[k][m] = hours[k][m] + (IF reading[k][m] > 0 THEN 1 ELSE 0)
    BY DEF MeterInv, FoldsConserve
  <2>2. CASE k = l
    BY <1>1, <1>4, <1>5, <1>6, <2>1, <2>2
  <2>3. CASE k # l
    BY <1>6, <2>1, <2>3 DEF Active
  <2> QED BY <2>2, <2>3
<1>11. /\ LocksApart'
       /\ \A e \in Devices : device'[e] # 0 => link'[device'[e]] # "none"
  BY <1>3 DEF MeterInv, LocksApart, TypeOK
<1>12. \A k \in Links : link'[k] = "none" =>
           reading'[k] = None /\ hours'[k] = None /\ stored'[k] = None
  BY <1>1, <1>3, <1>6 DEF MeterInv, None
<1> QED BY <1>7, <1>8, <1>9, <1>10, <1>11, <1>12 DEF MeterInv

\* The commit of a request revokes links it holds and nobody else has a hand
\* on, and empties those it held; a link it makes had no rows.
LEMMA LinksCommit ==
    ASSUME MeterInv, NEW q \in Requests, NEW n \in Links \cup {0},
           n # 0 => link[n] = "none",
           link' = [l \in Links |->
                       IF l = n THEN "active"
                       ELSE IF l \in request[q].held \cup request[q].revokes THEN "revoked"
                       ELSE link[l]],
           reading' = QuartersLeft(q), hours' = HoursLeft(q),
           request' = [request EXCEPT ![q] = IdleRequest],
           consent' \in BOOLEAN,
           UNCHANGED <<stored, horizon, device, fold>>
    PROVE  MeterInv'
<1> DEFINE K == request[q].held \cup request[q].revokes
<1>0. \A l \in Links : l = n => link[l] = "none"
  BY DEF Links
<1>1. /\ K \subseteq Active /\ n \notin K
      /\ request[q].quarters \subseteq K \X Moments /\ request[q].spans \subseteq K \X Moments
  <2>1. HoldsWorkingLinks(q)
    BY DEF MeterInv
  <2>2. K \subseteq Active
    BY <2>1 DEF HoldsWorkingLinks
  <2>3. n \notin K
    BY <1>0, <2>2 DEF Active
  <2>4. /\ request[q].quarters \subseteq request[q].held \X Moments
        /\ request[q].spans \subseteq request[q].held \X Moments
    BY <2>1 DEF HoldsWorkingLinks
  <2> QED BY <2>2, <2>3, <2>4
<1>2. \A l \in Links :
          /\ link'[l] = "active" => l \notin K /\ reading'[l] = reading[l] /\ hours'[l] = hours[l]
          /\ l \notin K => reading'[l] = reading[l] /\ hours'[l] = hours[l]
  <2> TAKE l \in Links
  <2>1. link'[l] = "active" => l \notin K
    BY <1>1
  <2>2. ASSUME l \notin K PROVE reading'[l] = reading[l] /\ hours'[l] = hours[l]
    <3>1. \A m \in Moments : <<l, m>> \notin request[q].quarters /\ <<l, m>> \notin request[q].spans
      BY <1>1, <2>2
    <3>2. reading[l] \in [Moments -> Nat] /\ hours[l] \in [Moments -> Nat]
      BY DEF MeterInv, TypeOK
    <3> QED BY <3>1, <3>2 DEF QuartersLeft, HoursLeft
  <2> QED BY <2>1, <2>2
<1>3. \A l \in Links : link[l] # "none" => link'[l] # "none" /\ (link'[l] = "active" => link[l] = "active")
  BY <1>0
<1>4. \A l \in Links \ (K \cup {n}) : link'[l] = link[l]
  OBVIOUS
<1>5. TypeOK'
  <2>1. link' \in [Links -> {"none", "active", "revoked"}]
    BY DEF MeterInv, TypeOK
  <2>2. reading' \in [Links -> [Moments -> Nat]] /\ hours' \in [Links -> [Moments -> Nat]]
    BY DEF MeterInv, TypeOK, QuartersLeft, HoursLeft
  <2>3. request' \in [Requests -> RequestState]
    BY IdleTyped DEF MeterInv, TypeOK
  <2> QED BY <2>1, <2>2, <2>3 DEF MeterInv, TypeOK
<1>6. request'[q] = IdleRequest /\ \A z \in Requests \ {q} : request'[z] = request[z]
  BY DEF MeterInv, TypeOK
<1>7. \A z \in Requests : HoldsWorkingLinks(z)'
  <2> TAKE z \in Requests
  <2>1. CASE z = q
    BY <1>6, <2>1, IdleHoldsNothing
  <2>2. CASE z # q
    <3>1. HoldsWorkingLinks(z) /\ request'[z] = request[z]
      BY <1>6, <2>2 DEF MeterInv
    <3>2. ASSUME NEW l \in request[z].held \cup request[z].revokes PROVE link'[l] = link[l]
      <4>1. l \in Links /\ link[l] = "active" /\ l \notin K
        BY <2>2, <3>1 DEF MeterInv, LocksApart, HoldsWorkingLinks, Active
      <4>2. l # n
        BY <1>0, <4>1
      <4> QED BY <1>4, <4>1, <4>2
    <3> QED BY <3>1, <3>2, RequestUndisturbed
  <2> QED BY <2>1, <2>2
<1>8. LocksApart'
  BY <1>6, IdleTyped DEF MeterInv, LocksApart
<1> HIDE DEF K
<1>9. \A f \in Folds : FoldsWhatIsThere(f)'
  <2> TAKE f \in Folds
  <2>1. fold[f].at # "idle" => fold[f].link \in Links /\ link[fold[f].link] # "none"
    BY DEF MeterInv, FoldsWhatIsThere
  <2> QED BY <1>2, <1>3, <2>1, FoldUndisturbed DEF MeterInv, TypeOK
<1>10. FoldsConserve'
  <2> SUFFICES ASSUME NEW l \in Links, link'[l] = "active", NEW m \in Moments
               PROVE  stored[l][m] = hours'[l][m] + (IF reading'[l][m] > 0 THEN 1 ELSE 0)
    BY DEF FoldsConserve, Active
  <2>1. reading'[l] = reading[l] /\ hours'[l] = hours[l]
    BY <1>2
  <2>2. CASE l = n
    <3>1. reading[l] = None /\ hours[l] = None /\ stored[l] = None
      BY <1>0, <2>2 DEF MeterInv
    <3> QED BY <2>1, <3>1, NoneTyped
  <2>3. CASE l # n
    <3>1. link[l] = "active"
      BY <2>3
    <3> QED BY <2>1, <3>1 DEF MeterInv, FoldsConserve, Active
  <2> QED BY <2>2, <2>3
<1>11. \A d \in Devices : device'[d] # 0 => link'[device'[d]] # "none"
  BY <1>3 DEF MeterInv, TypeOK
<1>12. \A l \in Links : link'[l] = "none" =>
           reading'[l] = None /\ hours'[l] = None /\ stored'[l] = None
  <2> SUFFICES ASSUME NEW l \in Links, link'[l] = "none"
               PROVE  reading'[l] = None /\ hours'[l] = None /\ stored[l] = None
    OBVIOUS
  <2>1. link[l] = "none"
    BY <1>3
  <2>2. l \notin K
    BY <1>1, <2>1 DEF Active
  <2> QED BY <1>2, <2>1, <2>2 DEF MeterInv
<1> QED BY <1>5, <1>7, <1>8, <1>9, <1>10, <1>11, <1>12 DEF MeterInv

LEMMA UnlinkedStep ==
    ASSUME MeterInv, NEW q \in Requests, Unlinked(q)
    PROVE  MeterInv'
<1>1. request[q].revokes = {}
  BY DEF MeterInv, HoldsWorkingLinks, Unlinked, Erased
<1>2. 0 \notin Links
  BY DEF Links
<1>3. link' = [l \in Links |->
                  IF l = 0 THEN "active"
                  ELSE IF l \in request[q].held \cup request[q].revokes THEN "revoked"
                  ELSE link[l]]
  BY <1>1, <1>2 DEF Unlinked
<1>4. consent' \in BOOLEAN
  BY DEF Unlinked
<1> QED BY <1>3, <1>4, LinksCommit DEF Unlinked

LEMMA LinkedStep ==
    ASSUME MeterInv, NEW q \in Requests, Linked(q)
    PROVE  MeterInv'
<1>1. PICK n \in Links :
          /\ link[n] = "none"
          /\ link' = [l \in Links |-> IF l = n THEN "active"
                                      ELSE IF l \in request[q].revokes THEN "revoked"
                                      ELSE link[l]]
  BY DEF Linked
<1>2. request[q].held \subseteq request[q].revokes
  BY DEF MeterInv, HoldsWorkingLinks, Linked
<1>3. link' = [l \in Links |->
                  IF l = n THEN "active"
                  ELSE IF l \in request[q].held \cup request[q].revokes THEN "revoked"
                  ELSE link[l]]
  BY <1>1, <1>2
<1>4. consent' \in BOOLEAN
  BY DEF Linked, MeterInv, TypeOK
<1>5. /\ reading' = QuartersLeft(q) /\ hours' = HoursLeft(q)
      /\ request' = [request EXCEPT ![q] = IdleRequest]
      /\ UNCHANGED <<stored, horizon, device, fold>>
  BY DEF Linked
<1>6. n \in Links \cup {0} /\ (n # 0 => link[n] = "none")
  BY <1>1
<1> QED BY <1>3, <1>4, <1>5, <1>6, LinksCommit

-----------------------------------------------------------------------------
(* The fold.                                                                 *)

LEMMA ReadQuartersStep ==
    ASSUME MeterInv, NEW f \in Folds, NEW l \in Links, NEW cutoff \in 0..MaxMoments,
           ReadQuarters(f, l, cutoff)
    PROVE  MeterInv'
<1> DEFINE rows == [m \in Moments |-> IF m <= cutoff THEN reading[l][m] ELSE 0]
           n == [fold[f] EXCEPT !.at = "read", !.link = l, !.rows = rows]
<1>1. /\ fold' = [fold EXCEPT ![f] = n] /\ rows # None
      /\ UNCHANGED <<consent, tables, horizon, request, device>>
  BY DEF ReadQuarters
<1>2. /\ reading[l] \in [Moments -> Nat] /\ fold[f] \in FoldState
      /\ fold[f].wrote = {}
  BY DEF MeterInv, TypeOK, FoldsWhatIsThere, ReadQuarters
<1>3. rows \in [Moments -> Nat] /\ \A m \in Moments : rows[m] > 0 => reading[l][m] = rows[m]
  BY <1>2
<1>4. link[l] # "none"
  <2>1. reading[l] = None => rows = None
    BY <1>3 DEF None
  <2> QED BY <1>1, <2>1 DEF MeterInv
<1> HIDE DEF rows
<1>5. n \in FoldState /\ n.at = "read" /\ n.link = l /\ n.rows = rows /\ n.wrote = {}
  BY <1>2, <1>3 DEF FoldState
<1>6. fold'[f] = n
  BY <1>1 DEF MeterInv, TypeOK
<1> HIDE DEF n
<1>7. FoldsWhatIsThere(f)'
  BY <1>1, <1>3, <1>4, <1>5, <1>6 DEF FoldsWhatIsThere, Folding, tables
<1> QED BY <1>1, <1>5, <1>7, FoldStep

LEMMA ReadHoursStep ==
    ASSUME MeterInv, NEW f \in Folds, ReadHours(f)
    PROVE  MeterInv'
<1> DEFINE l == fold[f].link
           touched == InHoursOf(Folding(f))
           base == [m \in Moments |-> IF m \in touched THEN hours[l][m] ELSE 0]
           n == [fold[f] EXCEPT !.at = "looked", !.base = base]
<1>1. /\ fold' = [fold EXCEPT ![f] = n] /\ fold[f].at = "read"
      /\ UNCHANGED <<consent, tables, horizon, request, device>>
  BY DEF ReadHours
<1>2. /\ FoldsWhatIsThere(f) /\ fold[f] \in FoldState /\ hours \in [Links -> [Moments -> Nat]]
  BY DEF MeterInv, TypeOK
<1>3. l \in Links /\ link[l] # "none" /\ touched \subseteq Moments
  BY <1>1, <1>2 DEF FoldsWhatIsThere, InHoursOf
<1> HIDE DEF touched, l
<1>4. base \in [Moments -> Nat] /\ \A m \in touched : base[m] = hours[l][m]
  BY <1>2, <1>3
<1> HIDE DEF base
<1>5. /\ n \in FoldState /\ n.at = "looked" /\ n.link = l /\ n.rows = fold[f].rows
      /\ n.base = base /\ n.wrote = {}
  <2>1. fold[f].wrote = {}
    BY <1>1, <1>2 DEF FoldsWhatIsThere
  <2> QED BY <1>2, <1>4, <2>1 DEF FoldState, l
<1>6. fold'[f] = n
  BY <1>1 DEF MeterInv, TypeOK
<1> HIDE DEF n
<1>7. Folding(f)' = Folding(f) /\ InHoursOf(Folding(f))' = touched
  BY <1>5, <1>6 DEF Folding, InHoursOf, touched
<1>8. link[l] = "active" => \A m \in Folding(f) : reading[l][m] = fold[f].rows[m]
  BY <1>1, <1>2 DEF FoldsWhatIsThere, l
<1>9. FoldsWhatIsThere(f)'
  BY <1>1, <1>3, <1>4, <1>5, <1>6, <1>7, <1>8 DEF FoldsWhatIsThere, tables
<1> QED BY <1>1, <1>5, <1>9, FoldStep

\* Every hour it has touched is written: one it found is still there.
LEMMA WriteHoursStep ==
    ASSUME MeterInv, NEW f \in Folds, WriteHours(f)
    PROVE  MeterInv'
<1> DEFINE l == fold[f].link
           touched == InHoursOf(Folding(f))
           wrote == (touched \ Found(f)) \cup (InHoursOf(Counted(l)) \cap touched \cap Found(f))
           n == [fold[f] EXCEPT !.at = "written", !.wrote = wrote]
<1>1. /\ fold' = [fold EXCEPT ![f] = n] /\ fold[f].at = "looked"
      /\ UNCHANGED <<consent, tables, horizon, request, device>>
  BY DEF WriteHours
<1>2. /\ FoldsWhatIsThere(f) /\ fold[f] \in FoldState /\ hours \in [Links -> [Moments -> Nat]]
  BY DEF MeterInv, TypeOK
<1>3. /\ l \in Links /\ link[l] # "none" /\ touched \subseteq Moments /\ wrote \subseteq Moments
      /\ link[l] = "active" => \A m \in touched : fold[f].base[m] = hours[l][m]
      /\ link[l] = "active" => \A m \in Folding(f) : reading[l][m] = fold[f].rows[m]
  BY <1>1, <1>2 DEF FoldsWhatIsThere, InHoursOf
<1>4. ASSUME link[l] = "active" PROVE wrote = touched
  <2> SUFFICES ASSUME NEW m \in touched, m \in Found(f)
               PROVE  m \in InHoursOf(Counted(l))
    BY DEF wrote
  <2>1. PICK k \in Moments : fold[f].base[k] > 0 /\ HourOf(k) = HourOf(m)
    BY DEF Found, InHoursOf
  <2>2. Folding(f) \in SUBSET Moments
    BY DEF Folding
  <2>3. k \in touched
    BY <2>1, <2>2, HoursOfSets
  <2>4. k \in Counted(l)
    BY <1>3, <1>4, <2>1, <2>3 DEF Counted
  <2> QED BY <1>3, <2>1, <2>4 DEF InHoursOf
<1> HIDE DEF touched, l, wrote
<1>5. n \in FoldState
  BY <1>2, <1>3 DEF FoldState
<1>6. /\ n.at = "written" /\ n.link = l /\ n.rows = fold[f].rows /\ n.base = fold[f].base
      /\ n.wrote = wrote
  BY <1>2 DEF FoldState, l
<1>7. fold'[f] = n
  BY <1>1 DEF MeterInv, TypeOK
<1> HIDE DEF n
<1>8. Folding(f)' = Folding(f) /\ InHoursOf(Folding(f))' = touched
  BY <1>6, <1>7 DEF Folding, InHoursOf, touched
<1>9. FoldsWhatIsThere(f)'
  BY <1>1, <1>3, <1>4, <1>6, <1>7, <1>8 DEF FoldsWhatIsThere, tables
<1> QED BY <1>1, <1>5, <1>9, FoldStep

\* Deleting the quarters writes nothing that shows before the commit.
LEMMA DeleteQuartersStep ==
    ASSUME MeterInv, NEW f \in Folds, DeleteQuarters(f)
    PROVE  MeterInv'
<1> DEFINE l == fold[f].link
           n == [fold[f] EXCEPT !.at = "deleted"]
<1>1. /\ fold' = [fold EXCEPT ![f] = n] /\ fold[f].at = "written"
      /\ UNCHANGED <<consent, tables, horizon, request, device>>
  BY DEF DeleteQuarters
<1>2. FoldsWhatIsThere(f) /\ fold[f] \in FoldState
  BY DEF MeterInv, TypeOK
<1>3. /\ n \in FoldState /\ n.at = "deleted" /\ n.link = l /\ n.rows = fold[f].rows
      /\ n.base = fold[f].base /\ n.wrote = fold[f].wrote
  BY <1>2 DEF FoldState
<1>4. fold'[f] = n
  BY <1>1 DEF MeterInv, TypeOK
<1> HIDE DEF n
<1>5. Folding(f)' = Folding(f) /\ InHoursOf(Folding(f))' = InHoursOf(Folding(f))
  BY <1>3, <1>4 DEF Folding, InHoursOf
<1>6. /\ l \in Links /\ link[l] # "none"
      /\ link[l] = "active" =>
            /\ \A m \in Folding(f) : reading[l][m] = fold[f].rows[m]
            /\ \A m \in InHoursOf(Folding(f)) : fold[f].base[m] = hours[l][m]
            /\ fold[f].wrote = InHoursOf(Folding(f))
  BY <1>1, <1>2 DEF FoldsWhatIsThere
<1>7. FoldsWhatIsThere(f)'
  BY <1>1, <1>3, <1>4, <1>5, <1>6 DEF FoldsWhatIsThere, tables
<1> QED BY <1>1, <1>3, <1>7, FoldStep

\* A run of the fold that ends has nothing left to see.
LEMMA DieStep ==
    ASSUME MeterInv, NEW f \in Folds, Die(f)
    PROVE  MeterInv'
<1>1. fold' = [fold EXCEPT ![f] = IdleFold] /\ fold'[f] = IdleFold
  BY DEF Die, MeterInv, TypeOK
<1>2. FoldsWhatIsThere(f)'
  BY <1>1, IdleTyped DEF FoldsWhatIsThere
<1> QED BY <1>1, <1>2, IdleTyped, FoldStep DEF Die

\* What the commit leaves of the quarters, in the fold's own terms.
LEMMA CommitWrites ==
    ASSUME NEW f \in Folds, Folded(f)
    PROVE  LET l == fold[f].link IN
           /\ reading' = [reading EXCEPT ![l] = [m \in Moments |->
                  IF m \in Folding(f) /\ reading[l][m] = fold[f].rows[m]
                  THEN 0 ELSE reading[l][m]]]
           /\ hours' = [hours EXCEPT ![l] = [m \in Moments |->
                  IF m \in fold[f].wrote
                  THEN fold[f].base[m] + (IF m \in Folding(f) THEN 1 ELSE 0)
                  ELSE hours[l][m]]]
<1> DEFINE l == fold[f].link
<1>1. Deleted(f) = {m \in Folding(f) : reading[l][m] = fold[f].rows[m]}
  BY DEF Folded, Deleted, ToDelete
<1>2. /\ reading' = [reading EXCEPT ![l] = [m \in Moments |->
             IF m \in Deleted(f) THEN 0 ELSE reading[l][m]]]
      /\ hours' = [hours EXCEPT ![l] = [m \in Moments |->
             IF m \in fold[f].wrote
             THEN fold[f].base[m] + (IF m \in Folding(f) THEN 1 ELSE 0)
             ELSE hours[l][m]]]
  BY DEF Folded
<1>3. \A m \in Moments : m \in Deleted(f) <=>
          m \in Folding(f) /\ reading[l][m] = fold[f].rows[m]
  BY <1>1
<1> QED BY <1>2, <1>3

\* The commit of a run that is alone: what leaves the table is in the sums.
LEMMA FoldedStep ==
    ASSUME MeterInv, OneFold, NEW f \in Folds, Folded(f)
    PROVE  MeterInv'
<1> DEFINE l == fold[f].link
           old == Folding(f)
           t == [m \in Moments |-> IF m \in old /\ reading[l][m] = fold[f].rows[m]
                                   THEN 0 ELSE reading[l][m]]
           h == [m \in Moments |-> IF m \in fold[f].wrote
                                   THEN fold[f].base[m] + (IF m \in old THEN 1 ELSE 0)
                                   ELSE hours[l][m]]
<1>1. /\ reading' = [reading EXCEPT ![l] = t] /\ hours' = [hours EXCEPT ![l] = h]
      /\ fold' = [fold EXCEPT ![f] = IdleFold] /\ fold[f].at = "deleted"
      /\ UNCHANGED <<consent, link, stored, horizon, request, device>>
  BY CommitWrites DEF Folded
<1>2. /\ FoldsWhatIsThere(f) /\ fold[f].base \in [Moments -> Nat]
      /\ hours \in [Links -> [Moments -> Nat]] /\ reading \in [Links -> [Moments -> Nat]]
  BY DEF MeterInv, TypeOK, FoldState
<1>3. l \in Links /\ link[l] # "none"
  BY <1>1, <1>2 DEF FoldsWhatIsThere
<1>4. /\ \A m \in old : m \in Moments /\ fold[f].rows[m] > 0
      /\ old \subseteq InHoursOf(old)
  BY HoursOfSets DEF Folding
<1>5. link[l] = "active" =>
          /\ \A m \in old : reading[l][m] = fold[f].rows[m]
          /\ \A m \in InHoursOf(old) : fold[f].base[m] = hours[l][m]
          /\ fold[f].wrote = InHoursOf(old)
  BY <1>1, <1>2, <1>3 DEF FoldsWhatIsThere
<1> HIDE DEF old
<1>6. reading[l] \in [Moments -> Nat] /\ hours[l] \in [Moments -> Nat]
  BY <1>2, <1>3
<1> HIDE DEF l
<1>7. t \in [Moments -> Nat] /\ h \in [Moments -> Nat]
  BY <1>2, <1>6
<1>8. ASSUME link[l] = "active", NEW m \in Moments
      PROVE  h[m] + (IF t[m] > 0 THEN 1 ELSE 0)
                 = hours[l][m] + (IF reading[l][m] > 0 THEN 1 ELSE 0)
  <2>1. CASE m \in old
    <3>1. reading[l][m] > 0 /\ t[m] = 0
      BY <1>4, <1>5, <1>8, <2>1
    <3>2. h[m] = hours[l][m] + 1
      BY <1>4, <1>5, <1>8, <2>1
    <3> QED BY <1>6, <3>1, <3>2
  <2>2. CASE m \notin old
    <3>1. t[m] = reading[l][m]
      BY <2>2
    <3>2. h[m] = hours[l][m]
      BY <1>5, <1>6, <1>8, <2>2
    <3> QED BY <1>6, <3>1, <3>2
  <2> QED BY <2>1, <2>2
<1> HIDE DEF t, h
<1>9. /\ reading'[l] = t /\ hours'[l] = h
      /\ \A k \in Links \ {l} : reading'[k] = reading[k] /\ hours'[k] = hours[k]
  BY <1>1, <1>2, <1>3
<1>10. TypeOK'
  BY <1>1, <1>7, IdleTyped DEF MeterInv, TypeOK
<1>11. \A q \in Requests : HoldsWorkingLinks(q)'
  BY <1>1 DEF MeterInv, HoldsWorkingLinks, Active
<1>12. \A g \in Folds : FoldsWhatIsThere(g)'
  <2> TAKE g \in Folds
  <2>1. fold'[g] = IdleFold
    BY <1>1 DEF OneFold, MeterInv, TypeOK
  <2> QED BY <2>1, IdleTyped DEF FoldsWhatIsThere
<1>13. FoldsConserve'
  <2> SUFFICES ASSUME NEW k \in Links, link[k] = "active", NEW m \in Moments
               PROVE  stored[k][m] = hours'[k][m] + (IF reading'[k][m] > 0 THEN 1 ELSE 0)
    BY <1>1 DEF FoldsConserve, Active
  <2>1. stored[k][m] = hours[k][m] + (IF reading[k][m] > 0 THEN 1 ELSE 0)
    BY DEF MeterInv, FoldsConserve, Active
  <2>2. CASE k = l
    BY <1>8, <1>9, <2>1, <2>2
  <2>3. CASE k # l
    BY <1>9, <2>1, <2>3
  <2> QED BY <2>2, <2>3
<1>14. LocksApart' /\ \A d \in Devices : device'[d] # 0 => link'[device'[d]] # "none"
  BY <1>1 DEF MeterInv, LocksApart
<1>15. \A k \in Links : link'[k] = "none" =>
           reading'[k] = None /\ hours'[k] = None /\ stored'[k] = None
  BY <1>1, <1>3, <1>9 DEF MeterInv
<1> QED BY <1>10, <1>11, <1>12, <1>13, <1>14, <1>15 DEF MeterInv

-----------------------------------------------------------------------------

\* Every step keeps the invariant, with one run of the fold at a time.
LEMMA InvStep == MeterInv /\ OneFold /\ [Next]_vars => MeterInv'
<1> SUFFICES ASSUME MeterInv, OneFold, [Next]_vars
             PROVE  MeterInv'
  OBVIOUS
<1>1. CASE Grant
  BY <1>1, GrantStep
<1>2. CASE Age
  BY <1>2, AgeStep
<1>3. ASSUME NEW q \in Requests, Serve(q)
      PROVE  MeterInv'
  BY <1>3, MayLinkStep, LookStep, HoldStep, EraseQuartersStep, EraseHoursStep, UnlinkedStep,
     LookAgainStep, SupersedeStep, LinkedStep DEF Serve
<1>4. ASSUME NEW q \in Requests, Abort(q)
      PROVE  MeterInv'
  BY <1>4, AbortStep
<1>5. ASSUME NEW d \in Devices, Push(d)
      PROVE  MeterInv'
  <2>1. CASE Refuse(d) \/ \E l \in Links : Authenticate(d, l)
    BY <2>1, DeviceStep
  <2>2. ASSUME NEW batch \in SUBSET Moments, Store(d, batch)
        PROVE  MeterInv'
    BY <2>2, StoreStep
  <2> QED BY <1>5, <2>1, <2>2 DEF Push
<1>6. ASSUME NEW f \in Folds, Fold(f)
      PROVE  MeterInv'
  BY <1>6, ReadQuartersStep, ReadHoursStep, WriteHoursStep, DeleteQuartersStep,
     FoldedStep DEF Fold
<1>7. ASSUME NEW f \in Folds, Die(f)
      PROVE  MeterInv'
  BY <1>7, DieStep
<1>8. CASE UNCHANGED vars
  <2>1. TypeOK' /\ LocksApart' /\ FoldsConserve'
    BY <1>8 DEF MeterInv, TypeOK, LocksApart, FoldsConserve, Active, vars
  <2>2. \A q \in Requests : HoldsWorkingLinks(q)'
    BY <1>8 DEF MeterInv, HoldsWorkingLinks, Active, vars
  <2>3. \A f \in Folds : FoldsWhatIsThere(f)'
    BY <1>8 DEF MeterInv, FoldsWhatIsThere, Folding, InHoursOf, vars
  <2> QED BY <1>8, <2>1, <2>2, <2>3 DEF MeterInv, vars
<1> QED BY <1>1, <1>2, <1>3, <1>4, <1>5, <1>6, <1>7, <1>8 DEF Next

\* Locks, tables and processes of the meter agree in every reachable state, as
\* long as the timer runs one fold at a time.
THEOREM Agreement ==
    ASSUME OneFold
    PROVE  Spec => []MeterInv
<1>1. Init => MeterInv
  BY InvInit
<1>2. MeterInv /\ [Next]_vars => MeterInv'
  BY InvStep
<1> QED BY <1>1, <1>2, PTL DEF Spec

\* A fold that is alone neither loses nor repeats a quarter of a working link,
\* whatever is pushed, unlinked, linked again or killed meanwhile.
THEOREM NothingLostInTheFold ==
    ASSUME OneFold
    PROVE  Spec => []FoldsConserve
<1>1. MeterInv => FoldsConserve
  BY DEF MeterInv
<1> QED BY <1>1, Agreement, PTL

\* Every variable of Meter keeps its type.
THEOREM MeterTyped ==
    ASSUME OneFold
    PROVE  Spec => []TypeOK
<1>1. MeterInv => TypeOK
  BY DEF MeterInv
<1> QED BY <1>1, Agreement, PTL
-----------------------------------------------------------------------------
(* One request of the household at a time.                                   *)

\* What link_meter is about to revoke is every link that works.
LEMMA SeesStep ==
    TypeOK /\ SeesEveryLink /\ OneRequest /\ [Next]_vars => SeesEveryLink'
<1> SUFFICES ASSUME TypeOK, SeesEveryLink, OneRequest, [Next]_vars
             PROVE  SeesEveryLink'
  OBVIOUS
<1> USE DEF SeesEveryLink, OneActiveLink
<1>1. ASSUME NEW q \in Requests, NEW n \in RequestState,
             request' = [request EXCEPT ![q] = n], link' = link,
             n.at = "superseding" => n.seen = Active,
             n.at = "creating" => Active \subseteq n.revokes
      PROVE  SeesEveryLink'
  <2>1. Active' = Active /\ request'[q] = n
    BY <1>1 DEF Active, TypeOK
  <2> QED BY <1>1, <2>1 DEF OneRequest
<1>2. ASSUME NEW q \in Requests, request' = [request EXCEPT ![q] = IdleRequest],
             \A a, b \in Active' : a = b
      PROVE  SeesEveryLink'
  <2>1. request'[q].at = "idle"
    BY <1>2, IdleTyped DEF TypeOK
  <2> QED BY <1>2, <2>1 DEF OneRequest
<1>3. ASSUME UNCHANGED <<link, request>> PROVE SeesEveryLink'
  BY <1>3 DEF Active
<1>4. CASE Grant
  <2>1. \A q \in Requests : /\ request'[q].at = request[q].at
                            /\ request'[q].seen = request[q].seen
                            /\ request'[q].revokes = request[q].revokes
    <3> TAKE q \in Requests
    <3>1. request[q] \in RequestState
      BY DEF TypeOK
    <3>2. \/ request'[q] = request[q]
          \/ request'[q] = [request[q] EXCEPT !.later = TRUE]
      BY <1>4 DEF Grant
    <3> QED BY <3>1, <3>2 DEF RequestState
  <2> QED BY <1>4, <2>1 DEF Grant, Active, tables
<1>5. CASE Age
  BY <1>3, <1>5 DEF Age, tables
<1>6. ASSUME NEW q \in Requests, Serve(q) PROVE SeesEveryLink'
  <2>1. request[q] \in RequestState /\ Active \subseteq Links
    BY DEF TypeOK, Active
  <2>2. CASE MayLink(q)
    <3> DEFINE n == [request[q] EXCEPT !.at = "checked", !.op = "link"]
    <3>1. request' = [request EXCEPT ![q] = n] /\ link' = link
      BY <2>2 DEF MayLink, tables
    <3>2. n \in RequestState /\ n.at = "checked"
      BY <2>1 DEF RequestState
    <3> HIDE DEF n
    <3> QED BY <1>1, <3>1, <3>2
  <2>3. ASSUME NEW op \in {"link", "unlink", "withdraw"}, Look(q, op)
        PROVE  SeesEveryLink'
    <3> DEFINE n == [request[q] EXCEPT !.at = "looking", !.op = op, !.seen = Active]
    <3>1. request' = [request EXCEPT ![q] = n] /\ link' = link
      BY <2>3 DEF Look, tables
    <3>2. n \in RequestState /\ n.at = "looking"
      BY <2>1 DEF RequestState
    <3> HIDE DEF n
    <3> QED BY <1>1, <3>1, <3>2
  <2>4. CASE Hold(q)
    <3>1. PICK S \in SUBSET Links :
              request' = [request EXCEPT ![q] = [@ EXCEPT !.at = "holding", !.held = S]]
      BY <2>1, <2>4 DEF Hold, Newest
    <3> DEFINE n == [request[q] EXCEPT !.at = "holding", !.held = S]
    <3>2. n \in RequestState /\ n.at = "holding"
      BY <2>1 DEF RequestState
    <3>3. request' = [request EXCEPT ![q] = n] /\ link' = link
      BY <2>4, <3>1 DEF Hold, tables
    <3> HIDE DEF n
    <3> QED BY <1>1, <3>2, <3>3
  <2>5. CASE EraseQuarters(q) \/ EraseHours(q)
    <3>1. /\ link' = link
          /\ \E n \in RequestState : /\ request' = [request EXCEPT ![q] = n]
                                     /\ n.at \in {"erasing", "erased"}
      <4>1. request[q].held \X Moments \subseteq Links \X Moments
        BY <2>1 DEF RequestState
      <4>2. CASE EraseQuarters(q)
        <5> DEFINE n == [request[q] EXCEPT !.at = "erasing", !.quarters =
                           {p \in request[q].held \X Moments : reading[p[1]][p[2]] > 0}]
        <5>1. n \in RequestState /\ n.at = "erasing"
          BY <2>1, <4>1 DEF RequestState
        <5>2. request' = [request EXCEPT ![q] = n] /\ link' = link
          BY <4>2 DEF EraseQuarters, tables
        <5> HIDE DEF n
        <5> QED BY <5>1, <5>2
      <4>3. CASE EraseHours(q)
        <5> DEFINE n == [request[q] EXCEPT !.at = "erased", !.spans =
                           {p \in request[q].held \X Moments : hours[p[1]][p[2]] > 0}]
        <5>1. n \in RequestState /\ n.at = "erased"
          BY <2>1, <4>1 DEF RequestState
        <5>2. request' = [request EXCEPT ![q] = n] /\ link' = link
          BY <4>3 DEF EraseHours, tables
        <5> HIDE DEF n
        <5> QED BY <5>1, <5>2
      <4> QED BY <2>5, <4>2, <4>3
    <3> QED BY <1>1, <3>1
  <2>6. CASE Unlinked(q)
    <3>1. Active' \subseteq Active
      BY <2>6 DEF Unlinked, Active, TypeOK
    <3>2. request' = [request EXCEPT ![q] = IdleRequest]
      BY <2>6 DEF Unlinked
    <3> QED BY <1>2, <3>1, <3>2
  <2>7. CASE LookAgain(q)
    <3> DEFINE n == [request[q] EXCEPT !.at = "superseding", !.seen = Active]
    <3>1. request' = [request EXCEPT ![q] = n] /\ link' = link
      BY <2>7 DEF LookAgain, tables
    <3>2. n \in RequestState /\ n.at = "superseding" /\ n.seen = Active
      BY <2>1 DEF RequestState
    <3> HIDE DEF n
    <3> QED BY <1>1, <3>1, <3>2
  <2>8. CASE Supersede(q)
    <3> DEFINE still == request[q].seen \cap Active
               n == [request[q] EXCEPT !.at = "creating", !.revokes = still]
    <3>1. request' = [request EXCEPT ![q] = n] /\ link' = link
      BY <2>8 DEF Supersede, tables
    <3>2. Active \subseteq still /\ still \subseteq Links
      BY <2>1, <2>8 DEF Supersede
    <3> HIDE DEF still
    <3>3. n \in RequestState /\ n.at = "creating" /\ n.revokes = still
      BY <2>1, <3>2 DEF RequestState
    <3> HIDE DEF n
    <3> QED BY <1>1, <3>1, <3>2, <3>3
  <2>9. CASE Linked(q)
    <3>1. PICK n \in Links :
              link' = [l \in Links |-> IF l = n THEN "active"
                                       ELSE IF l \in request[q].revokes THEN "revoked"
                                       ELSE link[l]]
      BY <2>9 DEF Linked
    <3>2. Active \subseteq request[q].revokes
      BY <2>9 DEF Linked
    <3>3. Active' \subseteq {n}
      BY <3>1, <3>2 DEF Active
    <3>4. request' = [request EXCEPT ![q] = IdleRequest]
      BY <2>9 DEF Linked
    <3> QED BY <1>2, <3>3, <3>4
  <2> QED BY <1>6, <2>2, <2>3, <2>4, <2>5, <2>6, <2>7, <2>8, <2>9 DEF Serve
<1>7. ASSUME NEW q \in Requests, Abort(q) PROVE SeesEveryLink'
  <2>1. Active' = Active /\ request' = [request EXCEPT ![q] = IdleRequest]
    BY <1>7 DEF Abort, Active, tables
  <2> QED BY <1>2, <2>1
<1>8. ASSUME NEW d \in Devices, Push(d) PROVE SeesEveryLink'
  BY <1>3, <1>8 DEF Push, Authenticate, Store, Refuse, tables
<1>9. ASSUME NEW f \in Folds, Fold(f) \/ Die(f) PROVE SeesEveryLink'
  BY <1>3, <1>9 DEF Fold, ReadQuarters, ReadHours, WriteHours, DeleteQuarters, Folded,
                    Die, tables
<1>10. CASE UNCHANGED vars
  BY <1>3, <1>10 DEF vars
<1> QED BY <1>4, <1>5, <1>6, <1>7, <1>8, <1>9, <1>10 DEF Next

\* A household that does one thing at a time has one link that works at most:
\* what link_meter and unlink_meter rely on when they take the first one.
THEOREM OneLinkAtATime ==
    ASSUME OneFold, OneRequest
    PROVE  Spec => []OneActiveLink
<1>1. Init => SeesEveryLink
  BY IdleTyped DEF Init, SeesEveryLink, OneActiveLink, Active
<1>2. TypeOK /\ SeesEveryLink /\ [Next]_vars => SeesEveryLink'
  BY SeesStep
<1>3. SeesEveryLink => OneActiveLink
  BY DEF SeesEveryLink
<1> QED BY <1>1, <1>2, <1>3, MeterTyped, PTL DEF Spec
-----------------------------------------------------------------------------
(* What a link that stops working leaves behind.                             *)

\* A run of the fold that has read the quarters, or the hours, keeps its
\* record's shape.
LEMMA FoldReadsQuarters ==
    ASSUME NEW r \in FoldState, NEW l \in Links, NEW rows \in [Moments -> Nat]
    PROVE  /\ [r EXCEPT !.at = "read", !.link = l, !.rows = rows] \in FoldState
           /\ [r EXCEPT !.at = "read", !.link = l, !.rows = rows].wrote = r.wrote
BY DEF FoldState

LEMMA FoldReadsHours ==
    ASSUME NEW r \in FoldState, NEW base \in [Moments -> Nat]
    PROVE  /\ [r EXCEPT !.at = "looked", !.base = base] \in FoldState
           /\ [r EXCEPT !.at = "looked", !.base = base].wrote = r.wrote
BY DEF FoldState

\* A request keeps what it has erased while nothing is added under its links.
LEMMA ErasureUndisturbed ==
    ASSUME NEW q \in Requests, ErasesItsLinks(q),
           request'[q].at = request[q].at \/ request[q].held = {},
           request'[q].held = request[q].held,
           request'[q].quarters = request[q].quarters, request'[q].spans = request[q].spans,
           \A l \in request[q].held, m \in Moments : reading'[l][m] > 0 => reading[l][m] > 0,
           request[q].at \in {"erased", "superseding", "creating"} =>
               \A l \in request[q].held :
                  /\ \A m \in Moments : hours'[l][m] > 0 => hours[l][m] > 0
                  /\ \A f \in Folds : fold'[f].link = l => Updated(f)' = {}
    PROVE  ErasesItsLinks(q)'
<1>1. CASE request[q].held = {}
  BY <1>1 DEF ErasesItsLinks
<1>2. CASE request'[q].at = request[q].at
  BY <1>2 DEF ErasesItsLinks
<1> QED BY <1>1, <1>2

\* What a run of the fold has updated is in its own record.
LEMMA UpdatedUndisturbed ==
    ASSUME NEW f \in Folds, fold'[f] = fold[f]
    PROVE  Updated(f)' = Updated(f)
BY DEF Updated, Found, InHoursOf

\* A run of the fold updates no hour of a link whose hours a request has deleted:
\* it would wait for the hour's own row.
LEMMA FoldUpdatesNothing ==
    ASSUME MeterInv, NEW q \in Requests, ErasesItsLinks(q), NEW f \in Folds, WriteHours(f),
           request[q].at \in {"erased", "superseding", "creating"},
           fold[f].link \in request[q].held
    PROVE  Updated(f)' = {}
<1> DEFINE l == fold[f].link
           touched == InHoursOf(Folding(f))
           fresh == touched \ Found(f)
           kept == InHoursOf(Counted(l)) \cap touched \cap Found(f)
<1>1. /\ \A z \in Requests, m \in touched : <<l, m>> \notin request[z].spans
      /\ fold' = [fold EXCEPT ![f] = [fold[f] EXCEPT !.at = "written",
                                                      !.wrote = fresh \cup kept]]
  BY DEF WriteHours
<1>2. ASSUME NEW m \in kept PROVE FALSE
  <2>1. PICK n \in Moments : hours[l][n] > 0 /\ HourOf(n) = HourOf(m)
    BY <1>2 DEF InHoursOf, Counted
  <2>2. Folding(f) \in SUBSET Moments
    BY DEF Folding
  <2>3. n \in touched
    BY <1>2, <2>1, <2>2, HoursOfSets
  <2>4. <<l, n>> \in request[q].spans
    BY <2>1 DEF ErasesItsLinks
  <2> QED BY <1>1, <2>3, <2>4
<1>3. (fresh \cup kept) \cap Found(f) = {}
  BY <1>2
<1>4. fold[f] \in FoldState /\ fold \in [Folds -> FoldState]
  BY DEF MeterInv, TypeOK
<1> HIDE DEF fresh, kept
<1>5. fold'[f].wrote = fresh \cup kept /\ fold'[f].base = fold[f].base
  BY <1>1, <1>4 DEF FoldState
<1>6. Found(f)' = Found(f)
  BY <1>5 DEF Found, InHoursOf
<1> QED BY <1>3, <1>5, <1>6 DEF Updated

\* Nothing but the request itself changes what it has erased.
LEMMA ErasureStays ==
    ASSUME MeterInv, NEW q \in Requests, ErasesItsLinks(q), [Next]_vars,
           request'[q].at = request[q].at \/ request[q].held = {},
           request'[q].held = request[q].held,
           request'[q].quarters = request[q].quarters, request'[q].spans = request[q].spans
    PROVE  ErasesItsLinks(q)'
<1>1. /\ request \in [Requests -> RequestState] /\ fold \in [Folds -> FoldState]
      /\ reading \in [Links -> [Moments -> Nat]] /\ hours \in [Links -> [Moments -> Nat]]
      /\ request[q].held \subseteq Links
  BY DEF MeterInv, TypeOK, RequestState
<1>2. ASSUME UNCHANGED <<reading, hours, fold>> PROVE ErasesItsLinks(q)'
  <2>1. \A f \in Folds : fold'[f].link = fold[f].link /\ Updated(f)' = Updated(f)
    BY <1>2, UpdatedUndisturbed
  <2> QED BY <1>2, <2>1, ErasureUndisturbed DEF ErasesItsLinks
<1>3. ASSUME NEW z \in Requests, reading' = QuartersLeft(z), hours' = HoursLeft(z), fold' = fold
      PROVE  ErasesItsLinks(q)'
  <2>1. \A l \in request[q].held, m \in Moments :
            /\ reading'[l][m] > 0 => reading[l][m] > 0
            /\ hours'[l][m] > 0 => hours[l][m] > 0
    <3> TAKE l \in request[q].held, m \in Moments
    <3>1. l \in Links
      BY <1>1
    <3>2. reading'[l][m] = (IF <<l, m>> \in request[z].quarters THEN 0 ELSE reading[l][m])
      BY <1>3, <3>1 DEF QuartersLeft
    <3>3. hours'[l][m] = (IF <<l, m>> \in request[z].spans THEN 0 ELSE hours[l][m])
      BY <1>3, <3>1 DEF HoursLeft
    <3> QED BY <3>2, <3>3
  <2>2. \A f \in Folds : fold'[f].link = fold[f].link /\ Updated(f)' = Updated(f)
    BY <1>3, UpdatedUndisturbed
  <2> QED BY <2>1, <2>2, ErasureUndisturbed DEF ErasesItsLinks
<1>4. CASE \E z \in Requests : Unlinked(z) \/ Linked(z)
  BY <1>3, <1>4 DEF Unlinked, Linked
<1>5. ASSUME NEW d \in Devices, NEW batch \in SUBSET Moments, Store(d, batch)
      PROVE  ErasesItsLinks(q)'
  <2>1. device[d] \notin request[q].held /\ hours' = hours /\ fold' = fold
    BY <1>5 DEF Store
  <2>2. \A l \in request[q].held : reading'[l] = reading[l]
    BY <1>1, <1>5, <2>1 DEF Store
  <2>3. \A f \in Folds : fold'[f].link = fold[f].link /\ Updated(f)' = Updated(f)
    BY <2>1, UpdatedUndisturbed
  <2> QED BY <2>1, <2>2, <2>3, ErasureUndisturbed DEF ErasesItsLinks
<1>6. ASSUME NEW f \in Folds, NEW r \in FoldState, r.wrote = {} \/ Updated(f)' = Updated(f),
             r.wrote = {} \/ r.link = fold[f].link,
             fold' = [fold EXCEPT ![f] = r], UNCHANGED <<reading, hours>>
      PROVE  ErasesItsLinks(q)'
  <2>1. fold'[f] = r /\ \A g \in Folds \ {f} : fold'[g] = fold[g]
    BY <1>1, <1>6, FoldMoves
  <2>2. \A g \in Folds \ {f} : fold'[g].link = fold[g].link /\ Updated(g)' = Updated(g)
    BY <2>1, UpdatedUndisturbed
  <2>3. r.wrote = {} => Updated(f)' = {}
    BY <2>1 DEF Updated
  <2>4. Updated(f)' = {} \/ (Updated(f)' = Updated(f) /\ fold'[f].link = fold[f].link)
    BY <1>6, <2>1, <2>3
  <2> QED BY <1>6, <2>2, <2>4, ErasureUndisturbed DEF ErasesItsLinks
<1>7. ASSUME NEW f \in Folds, WriteHours(f) PROVE ErasesItsLinks(q)'
  <2>1. UNCHANGED <<reading, hours>> /\ \A g \in Folds \ {f} : fold'[g] = fold[g]
    BY <1>1, <1>7 DEF WriteHours, tables
  <2>2. fold'[f].link = fold[f].link
    BY <1>1, <1>7 DEF WriteHours, FoldState
  <2>3. request[q].at \in {"erased", "superseding", "creating"}
            /\ fold'[f].link \in request[q].held => Updated(f)' = {}
    BY <1>7, <2>2, FoldUpdatesNothing
  <2>4. \A g \in Folds \ {f} : fold'[g].link = fold[g].link /\ Updated(g)' = Updated(g)
    BY <2>1, UpdatedUndisturbed
  <2> QED BY <2>1, <2>3, <2>4, ErasureUndisturbed DEF ErasesItsLinks
<1>8. ASSUME NEW f \in Folds, Folded(f) PROVE ErasesItsLinks(q)'
  <2> DEFINE l == fold[f].link
             L == request[q].held
  <2>1. /\ fold[f].at = "deleted" /\ fold' = [fold EXCEPT ![f] = IdleFold]
        /\ Inserted(f) # {} => l \notin L
    BY <1>8 DEF Folded
  <2>2. /\ fold'[f] = IdleFold
        /\ \A g \in Folds \ {f} : fold'[g] = fold[g]
    BY <1>1, <2>1, IdleTyped
  <2>10. /\ reading' = [reading EXCEPT ![l] = [m \in Moments |->
                IF m \in Folding(f) /\ reading[l][m] = fold[f].rows[m]
                THEN 0 ELSE reading[l][m]]]
         /\ hours' = [hours EXCEPT ![l] = [m \in Moments |->
                IF m \in fold[f].wrote
                THEN fold[f].base[m] + (IF m \in Folding(f) THEN 1 ELSE 0)
                ELSE hours[l][m]]]
    BY <1>8, CommitWrites
  <2>3. \A k \in Links, m \in Moments : reading'[k][m] > 0 => reading[k][m] > 0
    BY <1>1, <2>10
  <2>4. \A k \in Links, m \in Moments : k # l \/ fold[f].wrote = {} => hours'[k][m] = hours[k][m]
    BY <1>1, <2>10
  <2>5. request[q].at \in {"erased", "superseding", "creating"} /\ l \in L => fold[f].wrote = {}
    <3>1. fold[f].wrote = Inserted(f) \cup Updated(f)
      BY DEF Inserted, Updated
    <3>2. request[q].at \in {"erased", "superseding", "creating"} /\ l \in L => Updated(f) = {}
      BY DEF ErasesItsLinks
    <3> QED BY <2>1, <3>1, <3>2
  <2>6. Updated(f)' = {}
    BY <2>2, IdleTyped DEF Updated
  <2>7. \A g \in Folds \ {f} : fold'[g].link = fold[g].link /\ Updated(g)' = Updated(g)
    BY <2>2, UpdatedUndisturbed
  <2> HIDE DEF l, L
  <2>8. request[q].at \in {"erased", "superseding", "creating"} =>
            \A k \in L : \A m \in Moments : hours'[k][m] > 0 => hours[k][m] > 0
    BY <1>1, <2>4, <2>5 DEF L
  <2>9. request[q].at \in {"erased", "superseding", "creating"} =>
            \A k \in L : \A g \in Folds : fold'[g].link = k => Updated(g)' = {}
    BY <2>6, <2>7 DEF ErasesItsLinks, L
  <2> QED BY <1>1, <2>3, <2>8, <2>9, ErasureUndisturbed DEF L
<1>9. ASSUME NEW f \in Folds, Fold(f) \/ Die(f) PROVE ErasesItsLinks(q)'
  <2>1. CASE WriteHours(f) \/ Folded(f)
    BY <1>7, <1>8, <2>1
  <2>2. CASE Die(f)
    BY <1>6, <2>2, IdleTyped DEF Die, tables
  <2>5. CASE DeleteQuarters(f)
    <3> DEFINE r == [fold[f] EXCEPT !.at = "deleted"]
    <3>1. fold' = [fold EXCEPT ![f] = r] /\ UNCHANGED <<reading, hours>>
      BY <2>5 DEF DeleteQuarters, tables
    <3>2. /\ r \in FoldState /\ r.wrote = fold[f].wrote /\ r.base = fold[f].base
          /\ r.link = fold[f].link
      BY <1>1 DEF FoldState
    <3> HIDE DEF r
    <3>3. fold'[f] = r
      BY <1>1, <3>1
    <3>4. Updated(f)' = Updated(f)
      BY <3>2, <3>3 DEF Updated, Found, InHoursOf
    <3> QED BY <1>6, <3>1, <3>2, <3>4
  <2>3. ASSUME NEW l \in Links, NEW cutoff \in 0..MaxMoments, ReadQuarters(f, l, cutoff)
        PROVE  ErasesItsLinks(q)'
    <3> DEFINE rows == [m \in Moments |-> IF m <= cutoff THEN reading[l][m] ELSE 0]
               r == [fold[f] EXCEPT !.at = "read", !.link = l, !.rows = rows]
    <3>1. rows \in [Moments -> Nat]
      BY <1>1
    <3>2. fold' = [fold EXCEPT ![f] = r] /\ UNCHANGED <<reading, hours>>
      BY <2>3 DEF ReadQuarters, tables
    <3> HIDE DEF rows
    <3>3. fold[f] \in FoldState
      BY <1>1
    <3>4. r \in FoldState /\ r.wrote = fold[f].wrote
      BY <3>1, <3>3, FoldReadsQuarters, Zenon
    <3>5. fold[f].wrote = {}
      BY <2>3 DEF ReadQuarters, MeterInv, FoldsWhatIsThere
    <3> HIDE DEF r
    <3> QED BY <1>6, <3>2, <3>4, <3>5
  <2>4. CASE ReadHours(f)
    <3> DEFINE base == [m \in Moments |-> IF m \in InHoursOf(Folding(f))
                                          THEN hours[fold[f].link][m] ELSE 0]
               r == [fold[f] EXCEPT !.at = "looked", !.base = base]
    <3>1. fold[f].link \in Links
      BY <2>4 DEF ReadHours, MeterInv, FoldsWhatIsThere
    <3>2. base \in [Moments -> Nat]
      BY <1>1, <3>1
    <3>3. fold' = [fold EXCEPT ![f] = r] /\ UNCHANGED <<reading, hours>>
      BY <2>4 DEF ReadHours, tables
    <3> HIDE DEF base
    <3>4. fold[f] \in FoldState
      BY <1>1
    <3>5. r \in FoldState /\ r.wrote = fold[f].wrote
      BY <3>2, <3>4, FoldReadsHours
    <3>6. fold[f].wrote = {}
      BY <2>4 DEF ReadHours, MeterInv, FoldsWhatIsThere
    <3> HIDE DEF r
    <3> QED BY <1>6, <3>3, <3>5, <3>6
  <2> QED BY <1>9, <2>1, <2>2, <2>3, <2>4, <2>5 DEF Fold
<1>10. ASSUME NEW z \in Requests, Serve(z) \/ Abort(z) PROVE ErasesItsLinks(q)'
  <2>1. CASE Unlinked(z) \/ Linked(z)
    BY <1>4, <2>1
  <2>2. CASE UNCHANGED <<reading, hours, fold>>
    BY <1>2, <2>2
  <2> QED BY <1>10, <2>1, <2>2 DEF Serve, MayLink, Look, Hold, EraseQuarters, EraseHours,
                                   LookAgain, Supersede, Abort, tables
<1>11. ASSUME NEW d \in Devices, Push(d) PROVE ErasesItsLinks(q)'
  <2>1. CASE Refuse(d) \/ \E l \in Links : Authenticate(d, l)
    BY <1>2, <2>1 DEF Refuse, Authenticate, tables
  <2> QED BY <1>5, <1>11, <2>1 DEF Push
<1>12. CASE Grant \/ Age \/ UNCHANGED vars
  BY <1>2, <1>12 DEF Grant, Age, vars, tables
<1> QED BY <1>9, <1>10, <1>11, <1>12 DEF Next

\* A request keeps what it has erased, whatever the others do, and takes the next
\* step of the erasure over all its links.
LEMMA ErasesStep ==
    ASSUME MeterInv, NEW q \in Requests, ErasesItsLinks(q), [Next]_vars
    PROVE  ErasesItsLinks(q)'
<1>0. request \in [Requests -> RequestState] /\ request[q] \in RequestState
  BY DEF MeterInv, TypeOK
<1>1. CASE request'[q] = request[q]
  BY <1>1, ErasureStays
<1>2. CASE request'[q].at \in {"idle", "checked", "looking", "holding"}
  BY <1>2 DEF ErasesItsLinks
<1>3. CASE Grant
  <2>1. \/ request'[q] = request[q]
        \/ request'[q] = [request[q] EXCEPT !.later = TRUE]
    BY <1>3 DEF Grant
  <2>2. /\ request'[q].at = request[q].at /\ request'[q].held = request[q].held
        /\ request'[q].quarters = request[q].quarters /\ request'[q].spans = request[q].spans
    BY <1>0, <2>1 DEF RequestState
  <2> QED BY <2>2, ErasureStays
<1>4. CASE EraseQuarters(q)
  <2> DEFINE gone == {p \in request[q].held \X Moments : reading[p[1]][p[2]] > 0}
  <2>1. /\ request'[q] = [request[q] EXCEPT !.at = "erasing", !.quarters = gone]
        /\ reading' = reading
    BY <1>0, <1>4 DEF EraseQuarters, tables
  <2>2. \A l \in request[q].held, m \in Moments : reading[l][m] > 0 => <<l, m>> \in gone
    OBVIOUS
  <2> HIDE DEF gone
  <2>3. /\ request'[q].at = "erasing" /\ request'[q].held = request[q].held
        /\ request'[q].quarters = gone
    BY <1>0, <2>1 DEF RequestState
  <2> QED BY <2>1, <2>2, <2>3 DEF ErasesItsLinks
<1>5. CASE EraseHours(q)
  <2> DEFINE gone == {p \in request[q].held \X Moments : hours[p[1]][p[2]] > 0}
  <2>1. /\ request'[q] = [request[q] EXCEPT !.at = "erased", !.spans = gone]
        /\ UNCHANGED <<reading, hours, fold>> /\ request[q].at = "erasing"
        /\ \A f \in Folds : fold[f].link \in request[q].held => Updated(f) = {}
    BY <1>0, <1>5 DEF EraseHours, tables
  <2>2. \A l \in request[q].held, m \in Moments : hours[l][m] > 0 => <<l, m>> \in gone
    OBVIOUS
  <2> HIDE DEF gone
  <2>3. /\ request'[q].at = "erased" /\ request'[q].held = request[q].held
        /\ request'[q].quarters = request[q].quarters /\ request'[q].spans = gone
    BY <1>0, <2>1 DEF RequestState
  <2>4. \A f \in Folds : fold'[f].link = fold[f].link /\ Updated(f)' = Updated(f)
    BY <2>1, UpdatedUndisturbed
  <2> QED BY <2>1, <2>2, <2>3, <2>4 DEF ErasesItsLinks
<1>6. CASE LookAgain(q) \/ Supersede(q)
  <2>1. /\ request'[q].at \in {"superseding", "creating"}
        /\ request'[q].held = request[q].held
        /\ request'[q].quarters = request[q].quarters /\ request'[q].spans = request[q].spans
    <3>1. CASE LookAgain(q)
      BY <1>0, <3>1 DEF LookAgain, RequestState
    <3>2. CASE Supersede(q)
      <4> DEFINE still == request[q].seen \cap Active
      <4>1. request'[q] = [request[q] EXCEPT !.at = "creating", !.revokes = still]
        BY <1>0, <3>2 DEF Supersede
      <4> HIDE DEF still
      <4> QED BY <1>0, <4>1 DEF RequestState
    <3> QED BY <1>6, <3>1, <3>2
  <2>2. /\ request[q].at \in {"erased", "superseding"} \/ request[q].held = {}
        /\ UNCHANGED <<reading, hours, fold>>
    BY <1>6 DEF LookAgain, Supersede, Erased, tables
  <2>3. CASE request[q].held = {}
    BY <2>1, <2>3 DEF ErasesItsLinks
  <2>5. \A f \in Folds : fold'[f].link = fold[f].link /\ Updated(f)' = Updated(f)
    BY <2>2, UpdatedUndisturbed
  <2>4. CASE request[q].at \in {"erased", "superseding"}
    BY <2>1, <2>2, <2>4, <2>5 DEF ErasesItsLinks
  <2> QED BY <2>2, <2>3, <2>4
<1>7. CASE MayLink(q) \/ Hold(q) \/ \E op \in {"link", "unlink", "withdraw"} : Look(q, op)
  <2>1. request'[q].at \in {"checked", "holding", "looking"}
    <3>1. CASE MayLink(q)
      BY <1>0, <3>1 DEF MayLink, RequestState
    <3>2. CASE \E op \in {"link", "unlink", "withdraw"} : Look(q, op)
      BY <1>0, <3>2 DEF Look, RequestState
    <3>3. CASE Hold(q)
      <4> DEFINE still == request[q].seen \cap Active
                 wanted == IF request[q].op = "link" THEN still ELSE Newest(still)
      <4>1. request'[q] = [request[q] EXCEPT !.at = "holding", !.held = wanted]
        BY <1>0, <3>3 DEF Hold
      <4> HIDE DEF wanted
      <4> QED BY <1>0, <4>1 DEF RequestState
    <3> QED BY <1>7, <3>1, <3>2, <3>3
  <2> QED BY <1>2, <2>1
<1>8. CASE Unlinked(q) \/ Linked(q) \/ Abort(q)
  <2>1. request'[q] = IdleRequest
    BY <1>0, <1>8 DEF Unlinked, Linked, Abort
  <2> QED BY <1>2, <2>1, IdleTyped
<1>9. ASSUME NEW z \in Requests \ {q}, Serve(z) \/ Abort(z)
      PROVE  request'[q] = request[q]
  BY <1>0, <1>9 DEF Serve, MayLink, Look, Hold, EraseQuarters, EraseHours, Unlinked,
                    LookAgain, Supersede, Linked, Abort
<1>10. CASE UNCHANGED request
  BY <1>1, <1>10
<1>11. Age \/ (\E d \in Devices : Push(d)) \/ (\E f \in Folds : Fold(f) \/ Die(f))
           \/ UNCHANGED vars => UNCHANGED request
  BY DEF Age, Push, Authenticate, Store, Refuse, Fold, ReadQuarters, ReadHours, WriteHours,
         DeleteQuarters, Folded, Die, vars
<1> QED BY <1>1, <1>3, <1>4, <1>5, <1>6, <1>7, <1>8, <1>9, <1>10, <1>11 DEF Next, Serve

\* With one request at a time, no link is made behind the back of one that is
\* about to make another.
LEMMA HoldsStep ==
    ASSUME TypeOK, OneRequest, NEW q \in Requests, HoldsEveryLink(q), [Next]_vars
    PROVE  HoldsEveryLink(q)'
<1>0. request \in [Requests -> RequestState] /\ request[q] \in RequestState
  BY DEF TypeOK
<1>1. ASSUME request'[q].at \in {"idle", "checked"} PROVE HoldsEveryLink(q)'
  BY <1>1 DEF HoldsEveryLink
<1>2. ASSUME request'[q].at = request[q].at, request'[q].op = request[q].op,
             request'[q].seen = request[q].seen, request'[q].held = request[q].held,
             link' = link
      PROVE  HoldsEveryLink(q)'
  BY <1>2 DEF HoldsEveryLink, Active
<1>3. CASE Grant
  <2>1. \/ request'[q] = request[q]
        \/ request'[q] = [request[q] EXCEPT !.later = TRUE]
    BY <1>3 DEF Grant
  <2>2. /\ request'[q].at = request[q].at /\ request'[q].op = request[q].op
        /\ request'[q].seen = request[q].seen /\ request'[q].held = request[q].held
    BY <1>0, <2>1 DEF RequestState
  <2> QED BY <1>2, <1>3, <2>2 DEF Grant, tables
<1>4. CASE Age \/ (\E d \in Devices : Push(d)) \/ (\E f \in Folds : Fold(f) \/ Die(f))
           \/ UNCHANGED vars
  BY <1>2, <1>4 DEF Age, Push, Authenticate, Store, Refuse, Fold, ReadQuarters, ReadHours,
                    WriteHours, DeleteQuarters, Folded, Die, vars, tables
<1>5. CASE MayLink(q)
  BY <1>0, <1>1, <1>5 DEF MayLink, RequestState
<1>6. ASSUME NEW op \in {"link", "unlink", "withdraw"}, Look(q, op)
      PROVE  HoldsEveryLink(q)'
  <2>1. request'[q].at = "looking" /\ request'[q].seen = Active /\ Active' = Active
    BY <1>0, <1>6 DEF Look, RequestState, Active, tables
  <2> QED BY <2>1 DEF HoldsEveryLink
<1>7. CASE Hold(q)
  <2> DEFINE wanted == IF request[q].op = "link" THEN request[q].seen \cap Active
                                                 ELSE Newest(request[q].seen \cap Active)
  <2>1. /\ request'[q] = [request[q] EXCEPT !.at = "holding", !.held = wanted]
        /\ request[q].at = "looking" /\ Active' = Active
    BY <1>0, <1>7 DEF Hold, Active, tables
  <2>2. request[q].op = "link" => Active \subseteq wanted
    BY <2>1 DEF HoldsEveryLink
  <2> HIDE DEF wanted
  <2>3. /\ request'[q].at = "holding" /\ request'[q].op = request[q].op
        /\ request'[q].held = wanted
    BY <1>0, <2>1 DEF RequestState
  <2> QED BY <2>1, <2>2, <2>3 DEF HoldsEveryLink
<1>8. CASE EraseQuarters(q) \/ EraseHours(q)
  <2>1. /\ request'[q].at \in {"erasing", "erased"} /\ request'[q].op = request[q].op
        /\ request'[q].held = request[q].held
    <3>1. CASE EraseQuarters(q)
      <4> DEFINE gone == {p \in request[q].held \X Moments : reading[p[1]][p[2]] > 0}
      <4>1. request'[q] = [request[q] EXCEPT !.at = "erasing", !.quarters = gone]
        BY <1>0, <3>1 DEF EraseQuarters
      <4> HIDE DEF gone
      <4> QED BY <1>0, <4>1 DEF RequestState
    <3>2. CASE EraseHours(q)
      <4> DEFINE gone == {p \in request[q].held \X Moments : hours[p[1]][p[2]] > 0}
      <4>1. request'[q] = [request[q] EXCEPT !.at = "erased", !.spans = gone]
        BY <1>0, <3>2 DEF EraseHours
      <4> HIDE DEF gone
      <4> QED BY <1>0, <4>1 DEF RequestState
    <3> QED BY <1>8, <3>1, <3>2
  <2>2. request[q].at \in {"holding", "erasing"} /\ Active' = Active
    BY <1>8 DEF EraseQuarters, EraseHours, Active, tables
  <2> QED BY <2>1, <2>2 DEF HoldsEveryLink
<1>9. CASE LookAgain(q)
  <2>1. /\ request'[q].at = "superseding" /\ request'[q].op = request[q].op
        /\ request'[q].held = request[q].held
    BY <1>0, <1>9 DEF LookAgain, RequestState
  <2>2. /\ request[q].at \in {"erased", "holding"} /\ request[q].op = "link"
        /\ Active' = Active
    BY <1>9 DEF LookAgain, Erased, Active, tables
  <2> QED BY <2>1, <2>2 DEF HoldsEveryLink
<1>10. CASE Supersede(q)
  <2> DEFINE still == request[q].seen \cap Active
  <2>1. request'[q] = [request[q] EXCEPT !.at = "creating", !.revokes = still]
    BY <1>0, <1>10 DEF Supersede
  <2> HIDE DEF still
  <2>2. /\ request'[q].at = "creating" /\ request'[q].op = request[q].op
        /\ request'[q].held = request[q].held
    BY <1>0, <2>1 DEF RequestState
  <2>3. request[q].at = "superseding" /\ Active' = Active
    BY <1>10 DEF Supersede, Active, tables
  <2> QED BY <2>2, <2>3 DEF HoldsEveryLink
<1>11. CASE Unlinked(q) \/ Linked(q) \/ Abort(q)
  <2>1. request'[q] = IdleRequest
    BY <1>0, <1>11 DEF Unlinked, Linked, Abort
  <2> QED BY <1>1, <2>1, IdleTyped
<1> QED
  BY <1>3, <1>4, <1>5, <1>6, <1>7, <1>8, <1>9, <1>10, <1>11 DEF Next, Serve, OneRequest

\* At the commit nothing is left of a link that was erased.
LEMMA NothingLeft ==
    ASSUME MeterInv, NEW q \in Requests, ErasesItsLinks(q),
           request[q].at \in {"erased", "superseding", "creating"},
           NEW l \in request[q].held, reading' = QuartersLeft(q), hours' = HoursLeft(q)
    PROVE  IsEmpty(l)'
<1>1. /\ l \in Links
      /\ reading \in [Links -> [Moments -> Nat]] /\ hours \in [Links -> [Moments -> Nat]]
  BY DEF MeterInv, TypeOK, RequestState
<1>2. \A m \in Moments : (reading[l][m] > 0 => <<l, m>> \in request[q].quarters)
                         /\ (hours[l][m] > 0 => <<l, m>> \in request[q].spans)
  BY DEF ErasesItsLinks
<1>3. /\ reading'[l] = [m \in Moments |-> IF <<l, m>> \in request[q].quarters
                                          THEN 0 ELSE reading[l][m]]
      /\ hours'[l] = [m \in Moments |-> IF <<l, m>> \in request[q].spans
                                        THEN 0 ELSE hours[l][m]]
  BY <1>1 DEF QuartersLeft, HoursLeft
<1>4. \A m \in Moments : /\ (IF <<l, m>> \in request[q].quarters THEN 0 ELSE reading[l][m]) = 0
                         /\ (IF <<l, m>> \in request[q].spans THEN 0 ELSE hours[l][m]) = 0
  BY <1>1, <1>2
<1>5. reading'[l] = None /\ hours'[l] = None
  BY <1>3, <1>4 DEF None
<1> QED BY <1>5 DEF IsEmpty

\* Only the commits of link_meter and unlink_meter revoke a link.
LEMMA WhoRevokes ==
    ASSUME MeterInv, [Next]_vars, NEW l \in Links, link[l] = "active", link'[l] = "revoked"
    PROVE  \E q \in Requests : \/ Unlinked(q) /\ l \in request[q].held
                               \/ Linked(q) /\ l \in request[q].revokes
<1>1. \E q \in Requests : Unlinked(q) \/ Linked(q)
  BY DEF Next, Grant, Age, Serve, MayLink, Look, Hold, EraseQuarters, EraseHours, LookAgain,
         Supersede, Abort, Push, Authenticate, Store, Refuse, Fold, ReadQuarters, ReadHours,
         WriteHours, DeleteQuarters, Folded, Die, vars, tables
<1>2. PICK q \in Requests : Unlinked(q) \/ Linked(q)
  BY <1>1
<1>3. CASE Unlinked(q)
  BY <1>3 DEF Unlinked
<1>4. CASE Linked(q)
  BY <1>4 DEF Linked
<1> QED BY <1>2, <1>3, <1>4

\* With one fold at a time, unlinking leaves nothing of a link in the tables,
\* however many other requests link and unlink meanwhile.
UnlinkedIsEmpty ==
    [][\A q \in Requests : Unlinked(q) => \A l \in request[q].held : IsEmpty(l)']_vars

THEOREM UnlinkingEmpties ==
    ASSUME OneFold
    PROVE  Spec => UnlinkedIsEmpty
<1> DEFINE Erases == \A q \in Requests : ErasesItsLinks(q)
<1>1. Init => Erases
  BY IdleTyped DEF Init, ErasesItsLinks
<1>2. MeterInv /\ Erases /\ [Next]_vars => Erases'
  BY ErasesStep
<1>3. MeterInv /\ Erases =>
          \A q \in Requests : Unlinked(q) => \A l \in request[q].held : IsEmpty(l)'
  <2> SUFFICES ASSUME MeterInv, Erases, NEW q \in Requests, Unlinked(q),
                      NEW l \in request[q].held
               PROVE  IsEmpty(l)'
    OBVIOUS
  <2>1. /\ request[q].at = "erased" /\ reading' = QuartersLeft(q)
        /\ hours' = HoursLeft(q)
    BY DEF Unlinked, Erased
  <2> QED BY <2>1, NothingLeft
<1>4. MeterInv /\ Erases /\ [Next]_vars =>
          [\A q \in Requests : Unlinked(q) => \A l \in request[q].held : IsEmpty(l)']_vars
  BY <1>3
<1> HIDE DEF Erases
<1> QED BY <1>1, <1>2, <1>4, Agreement, PTL DEF Spec, UnlinkedIsEmpty

\* A household that does one thing at a time leaves nothing behind under a link
\* that stops working, whether it unlinked its meter or linked it again.
THEOREM RevokingEmpties ==
    ASSUME OneFold, OneRequest
    PROVE  Spec => EmptiedWhenRevoked
<1>1. Init => ErasureInv
  BY IdleTyped DEF Init, ErasureInv, ErasesItsLinks, HoldsEveryLink
<1>2. MeterInv /\ ErasureInv /\ [Next]_vars => ErasureInv'
  BY ErasesStep, HoldsStep DEF ErasureInv, MeterInv
<1>3. MeterInv /\ ErasureInv /\ [Next]_vars =>
          \A l \in Links : link[l] = "active" /\ link'[l] = "revoked" => IsEmpty(l)'
  <2> SUFFICES ASSUME MeterInv, ErasureInv, [Next]_vars,
                      NEW l \in Links, link[l] = "active", link'[l] = "revoked"
               PROVE  IsEmpty(l)'
    OBVIOUS
  <2>1. PICK q \in Requests : \/ Unlinked(q) /\ l \in request[q].held
                              \/ Linked(q) /\ l \in request[q].revokes
    BY WhoRevokes
  <2>2. ErasesItsLinks(q) /\ HoldsEveryLink(q) /\ HoldsWorkingLinks(q)
    BY DEF ErasureInv, MeterInv
  <2>3. /\ l \in request[q].held /\ request[q].at \in {"erased", "creating"}
        /\ reading' = QuartersLeft(q) /\ hours' = HoursLeft(q)
    <3>1. CASE Unlinked(q) /\ l \in request[q].held
      BY <3>1 DEF Unlinked, Erased
    <3>2. CASE Linked(q) /\ l \in request[q].revokes
      <4>1. request[q].at = "creating" /\ l \in Active
        BY <3>2 DEF Linked, Active
      <4> QED BY <2>2, <3>2, <4>1 DEF Linked, HoldsEveryLink
    <3> QED BY <2>1, <3>1, <3>2
  <2> QED BY <2>2, <2>3, NothingLeft
<1>4. MeterInv /\ ErasureInv /\ [Next]_vars =>
          [\A l \in Links : link[l] = "active" /\ link'[l] = "revoked" => IsEmpty(l)']_vars
  BY <1>3
<1> QED BY <1>1, <1>2, <1>4, Agreement, PTL DEF Spec, EmptiedWhenRevoked

-----------------------------------------------------------------------------
(* The refinement of MeterContract.                                          *)

\* With one request at a time, none unlinks a link behind the back of one that
\* is about to unlink, and one link is all there is to lock.
LEMMA UnlinksStep ==
    ASSUME TypeOK, OneRequest, OneActiveLink, NEW q \in Requests, UnlinksEveryLink(q),
           [Next]_vars
    PROVE  UnlinksEveryLink(q)'
<1>0. request \in [Requests -> RequestState] /\ request[q] \in RequestState
  BY DEF TypeOK
<1>1. ASSUME request'[q].at \in {"idle", "checked"} \/ request'[q].op = "link"
      PROVE  UnlinksEveryLink(q)'
  BY <1>1 DEF UnlinksEveryLink
<1>2. ASSUME request'[q].at = request[q].at, request'[q].op = request[q].op,
             request'[q].seen = request[q].seen, request'[q].held = request[q].held,
             link' = link
      PROVE  UnlinksEveryLink(q)'
  BY <1>2 DEF UnlinksEveryLink, Active
<1>3. CASE Grant
  <2>1. \/ request'[q] = request[q]
        \/ request'[q] = [request[q] EXCEPT !.later = TRUE]
    BY <1>3 DEF Grant
  <2>2. /\ request'[q].at = request[q].at /\ request'[q].op = request[q].op
        /\ request'[q].seen = request[q].seen /\ request'[q].held = request[q].held
    BY <1>0, <2>1 DEF RequestState
  <2> QED BY <1>2, <1>3, <2>2 DEF Grant, tables
<1>4. CASE Age \/ (\E d \in Devices : Push(d)) \/ (\E f \in Folds : Fold(f) \/ Die(f))
           \/ UNCHANGED vars
  BY <1>2, <1>4 DEF Age, Push, Authenticate, Store, Refuse, Fold, ReadQuarters, ReadHours,
                    WriteHours, DeleteQuarters, Folded, Die, vars, tables
<1>5. CASE MayLink(q)
  BY <1>0, <1>1, <1>5 DEF MayLink, RequestState
<1>6. ASSUME NEW op \in {"link", "unlink", "withdraw"}, Look(q, op)
      PROVE  UnlinksEveryLink(q)'
  <2>1. request'[q].at = "looking" /\ request'[q].seen = Active /\ Active' = Active
    BY <1>0, <1>6 DEF Look, RequestState, Active, tables
  <2> QED BY <2>1 DEF UnlinksEveryLink
<1>7. CASE Hold(q)
  <2> DEFINE still == request[q].seen \cap Active
             wanted == IF request[q].op = "link" THEN still ELSE Newest(still)
  <2>1. /\ request'[q] = [request[q] EXCEPT !.at = "holding", !.held = wanted]
        /\ request[q].at = "looking" /\ Active' = Active
    BY <1>0, <1>7 DEF Hold, Active, tables
  <2>2. request[q].op # "link" => Active \subseteq wanted
    <3> SUFFICES ASSUME request[q].op # "link", NEW l \in Active PROVE l \in Newest(still)
      OBVIOUS
    <3>1. l \in still /\ \A k \in still : k = l
      BY <2>1 DEF UnlinksEveryLink, OneActiveLink
    <3>2. l <= l
      BY DEF Active, Links
    <3> QED BY <3>1, <3>2 DEF Newest
  <2> HIDE DEF wanted
  <2>3. /\ request'[q].at = "holding" /\ request'[q].op = request[q].op
        /\ request'[q].held = wanted
    BY <1>0, <2>1 DEF RequestState
  <2> QED BY <2>1, <2>2, <2>3 DEF UnlinksEveryLink
<1>8. CASE EraseQuarters(q) \/ EraseHours(q)
  <2>1. /\ request'[q].at \in {"erasing", "erased"} /\ request'[q].op = request[q].op
        /\ request'[q].held = request[q].held
    <3>1. CASE EraseQuarters(q)
      <4> DEFINE gone == {p \in request[q].held \X Moments : reading[p[1]][p[2]] > 0}
      <4>1. request'[q] = [request[q] EXCEPT !.at = "erasing", !.quarters = gone]
        BY <1>0, <3>1 DEF EraseQuarters
      <4> HIDE DEF gone
      <4> QED BY <1>0, <4>1 DEF RequestState
    <3>2. CASE EraseHours(q)
      <4> DEFINE gone == {p \in request[q].held \X Moments : hours[p[1]][p[2]] > 0}
      <4>1. request'[q] = [request[q] EXCEPT !.at = "erased", !.spans = gone]
        BY <1>0, <3>2 DEF EraseHours
      <4> HIDE DEF gone
      <4> QED BY <1>0, <4>1 DEF RequestState
    <3> QED BY <1>8, <3>1, <3>2
  <2>2. request[q].at \in {"holding", "erasing"} /\ Active' = Active
    BY <1>8 DEF EraseQuarters, EraseHours, Active, tables
  <2> QED BY <2>1, <2>2 DEF UnlinksEveryLink
<1>9. CASE LookAgain(q)
  BY <1>0, <1>1, <1>9 DEF LookAgain, RequestState
<1>10. CASE Supersede(q)
  <2> DEFINE still == request[q].seen \cap Active
  <2>1. request'[q] = [request[q] EXCEPT !.at = "creating", !.revokes = still]
        /\ request[q].at = "superseding" /\ Active' = Active
    BY <1>0, <1>10 DEF Supersede, Active, tables
  <2> HIDE DEF still
  <2>2. /\ request'[q].at = "creating" /\ request'[q].op = request[q].op
        /\ request'[q].held = request[q].held
    BY <1>0, <2>1 DEF RequestState
  <2> QED BY <2>1, <2>2 DEF UnlinksEveryLink
<1>11. CASE Unlinked(q) \/ Linked(q) \/ Abort(q)
  <2>1. request'[q] = IdleRequest
    BY <1>0, <1>11 DEF Unlinked, Linked, Abort
  <2> QED BY <1>1, <2>1, IdleTyped
<1> QED
  BY <1>3, <1>4, <1>5, <1>6, <1>7, <1>8, <1>9, <1>10, <1>11 DEF Next, Serve, OneRequest

\* The cutoff of a run lies in the past, and stays there.
LEMMA OldQuartersStep ==
    ASSUME TypeOK, NEW f \in Folds, FoldsOldQuarters(f), [Next]_vars
    PROVE  FoldsOldQuarters(f)'
<1>0. /\ fold \in [Folds -> FoldState] /\ fold[f] \in FoldState
      /\ horizon \in Nat /\ horizon' \in Nat /\ horizon' >= horizon
  <2>1. horizon \in Nat
    BY SizesAreNat DEF TypeOK
  <2>2. horizon' = horizon \/ horizon' = horizon + 1
    BY DEF Next, Grant, Age, Serve, MayLink, Look, Hold, EraseQuarters, EraseHours, Unlinked,
           LookAgain, Supersede, Linked, Abort, Push, Authenticate, Store, Refuse, Fold,
           ReadQuarters, ReadHours, WriteHours, DeleteQuarters, Folded, Die, vars
  <2> QED BY <2>1, <2>2 DEF TypeOK
<1>1. ASSUME fold'[f].rows = fold[f].rows PROVE FoldsOldQuarters(f)'
  <2> SUFFICES ASSUME NEW m \in Moments, fold[f].rows[m] > 0 PROVE m <= horizon'
    BY <1>1 DEF FoldsOldQuarters, Folding
  <2>1. m <= horizon /\ m \in Nat
    BY DEF FoldsOldQuarters, Folding, Moments
  <2> QED BY <1>0, <2>1
<1>2. ASSUME fold'[f] = IdleFold PROVE FoldsOldQuarters(f)'
  BY <1>2 DEF FoldsOldQuarters, Folding, IdleFold, None
<1>3. ASSUME NEW l \in Links, NEW cutoff \in 0..MaxMoments, ReadQuarters(f, l, cutoff)
      PROVE  FoldsOldQuarters(f)'
  <2> DEFINE rows == [m \in Moments |-> IF m <= cutoff THEN reading[l][m] ELSE 0]
  <2>1. fold'[f] = [fold[f] EXCEPT !.at = "read", !.link = l, !.rows = rows]
        /\ cutoff <= horizon /\ horizon' = horizon
    BY <1>0, <1>3 DEF ReadQuarters
  <2>2. \A m \in Moments : rows[m] > 0 => m <= horizon
    BY <1>0, <2>1, SizesAreNat DEF Moments
  <2> HIDE DEF rows
  <2>3. fold'[f].rows = rows
    BY <1>0, <2>1 DEF FoldState
  <2> QED BY <2>1, <2>2, <2>3 DEF FoldsOldQuarters, Folding
<1>4. CASE ReadHours(f)
  <2> DEFINE base == [m \in Moments |-> IF m \in InHoursOf(Folding(f))
                                        THEN hours[fold[f].link][m] ELSE 0]
  <2>1. fold'[f] = [fold[f] EXCEPT !.at = "looked", !.base = base]
    BY <1>0, <1>4 DEF ReadHours
  <2> HIDE DEF base
  <2> QED BY <1>0, <1>1, <2>1 DEF FoldState
<1>5. CASE WriteHours(f)
  <2>1. \E w : fold'[f] = [fold[f] EXCEPT !.at = "written", !.wrote = w]
    BY <1>0, <1>5 DEF WriteHours
  <2> QED BY <1>0, <1>1, <2>1 DEF FoldState
<1>10. CASE DeleteQuarters(f)
  BY <1>0, <1>1, <1>10 DEF DeleteQuarters, FoldState
<1>6. CASE Folded(f) \/ Die(f)
  BY <1>0, <1>2, <1>6 DEF Folded, Die
<1>7. ASSUME NEW g \in Folds \ {f}, Fold(g) \/ Die(g) PROVE FoldsOldQuarters(f)'
  BY <1>0, <1>1, <1>7 DEF Fold, ReadQuarters, ReadHours, WriteHours, DeleteQuarters,
                         Folded, Die
<1>8. CASE UNCHANGED fold
  BY <1>1, <1>8
<1>9. Grant \/ Age \/ (\E q \in Requests : Serve(q) \/ Abort(q)) \/ (\E d \in Devices : Push(d))
          \/ UNCHANGED vars => UNCHANGED fold
  BY DEF Grant, Age, Serve, MayLink, Look, Hold, EraseQuarters, EraseHours, Unlinked,
         LookAgain, Supersede, Linked, Abort, Push, Authenticate, Store, Refuse, vars
<1> QED BY <1>3, <1>4, <1>5, <1>6, <1>7, <1>8, <1>9, <1>10 DEF Next, Fold

\* What the contract is about.
Household == <<consent, link, reading, hours, stored, horizon>>

\* What the deletions of a request leave is what the contract leaves, when the
\* request has erased every link that works.
LEMMA EmptiedTables ==
    ASSUME MeterInv, NEW q \in Requests, ErasesItsLinks(q), Erased(q) \/ request[q].at = "creating",
           request[q].held = Active
    PROVE  /\ QuartersLeft(q) = Contract!Emptied(reading)
           /\ HoursLeft(q) = Contract!Emptied(hours)
<1>1. /\ reading \in [Links -> [Moments -> Nat]] /\ hours \in [Links -> [Moments -> Nat]]
      /\ Contract!Working = Active /\ Active \subseteq Links
  BY DEF MeterInv, TypeOK, Contract!Working, Active
<1>2. \A l \in Active, m \in Moments :
          /\ reading[l][m] > 0 => <<l, m>> \in request[q].quarters
          /\ hours[l][m] > 0 => <<l, m>> \in request[q].spans
  BY DEF ErasesItsLinks, Erased
<1>3. \A l \in Links \ Active, m \in Moments :
          <<l, m>> \notin request[q].quarters /\ <<l, m>> \notin request[q].spans
  <2>1. /\ request[q].quarters \subseteq Active \X Moments
        /\ request[q].spans \subseteq Active \X Moments
    BY DEF MeterInv, HoldsWorkingLinks
  <2> QED BY <2>1
<1>4. \A l \in Active, m \in Moments :
          /\ (IF <<l, m>> \in request[q].quarters THEN 0 ELSE reading[l][m]) = 0
          /\ (IF <<l, m>> \in request[q].spans THEN 0 ELSE hours[l][m]) = 0
  <2> TAKE l \in Active, m \in Moments
  <2>1. reading[l][m] \in Nat /\ hours[l][m] \in Nat
    BY <1>1
  <2>2. reading[l][m] > 0 => <<l, m>> \in request[q].quarters
    BY <1>2
  <2>3. hours[l][m] > 0 => <<l, m>> \in request[q].spans
    BY <1>2
  <2> QED BY <2>1, <2>2, <2>3
<1>5. ASSUME NEW l \in Links
      PROVE  /\ [m \in Moments |-> IF <<l, m>> \in request[q].quarters THEN 0 ELSE reading[l][m]]
                   = IF l \in Active THEN [m \in Moments |-> 0] ELSE reading[l]
             /\ [m \in Moments |-> IF <<l, m>> \in request[q].spans THEN 0 ELSE hours[l][m]]
                   = IF l \in Active THEN [m \in Moments |-> 0] ELSE hours[l]
  <2>1. CASE l \in Active
    BY <1>4, <2>1
  <2>2. CASE l \notin Active
    <3>1. /\ reading[l] = [m \in Moments |-> reading[l][m]]
          /\ hours[l] = [m \in Moments |-> hours[l][m]]
      BY <1>1
    <3> QED BY <1>3, <2>2, <3>1
  <2> QED BY <2>1, <2>2
<1>6. QuartersLeft(q) = [l \in Links |-> IF l \in Active THEN [m \in Moments |-> 0]
                                        ELSE reading[l]]
  BY <1>5 DEF QuartersLeft
<1>7. HoursLeft(q) = [l \in Links |-> IF l \in Active THEN [m \in Moments |-> 0]
                                     ELSE hours[l]]
  BY <1>5 DEF HoursLeft
<1> QED BY <1>1, <1>6, <1>7 DEF Contract!Emptied

\* The commit of an unlinking, or of a withdrawal.
LEMMA UnlinkMaps ==
    ASSUME ContractInv, NEW q \in Requests, Unlinked(q)
    PROVE  Contract!Next
<1>1. /\ ErasesItsLinks(q) /\ HoldsWorkingLinks(q) /\ UnlinksEveryLink(q) /\ TypeOK
      /\ MeterInv
  BY DEF ContractInv, ErasureInv, MeterInv
<1>2. Erased(q) /\ request[q].op # "link" /\ request[q].at \in {"erased", "holding"}
  BY DEF Unlinked, Erased
<1>3. request[q].held = Active /\ Contract!Working = Active
  BY <1>1, <1>2 DEF UnlinksEveryLink, HoldsWorkingLinks, Contract!Working, Active
<1>4. reading' = Contract!Emptied(reading) /\ hours' = Contract!Emptied(hours)
  BY <1>1, <1>2, <1>3, EmptiedTables DEF Unlinked
<1>5. link' = [l \in Links |-> IF l \in Contract!Working THEN "revoked" ELSE link[l]]
  BY <1>3 DEF Unlinked
<1>6. consent' \in {consent, FALSE} /\ UNCHANGED <<stored, horizon>>
  BY <1>1 DEF Unlinked, TypeOK
<1> QED BY <1>4, <1>5, <1>6 DEF Contract!Unlink, Contract!Next

\* The commit of a new link.
LEMMA LinkMaps ==
    ASSUME ContractInv, NEW q \in Requests, Linked(q)
    PROVE  Contract!Next
<1>1. /\ ErasesItsLinks(q) /\ HoldsWorkingLinks(q) /\ HoldsEveryLink(q) /\ MeterInv
      /\ request[q].at = "creating" /\ Active \subseteq request[q].revokes
  BY DEF ContractInv, ErasureInv, MeterInv, SeesEveryLink, Linked
<1>2. /\ request[q].held = Active /\ request[q].revokes = Active
      /\ Contract!Working = Active
  BY <1>1 DEF HoldsEveryLink, HoldsWorkingLinks, Contract!Working, Active
<1>3. reading' = Contract!Emptied(reading) /\ hours' = Contract!Emptied(hours)
  BY <1>1, <1>2, EmptiedTables DEF Linked
<1>4. PICK n \in Links : /\ link[n] = "none"
                         /\ link' = [l \in Links |-> IF l = n THEN "active"
                                        ELSE IF l \in Contract!Working THEN "revoked"
                                        ELSE link[l]]
  BY <1>2 DEF Linked
<1>5. UNCHANGED <<consent, stored, horizon>>
  BY DEF Linked
<1> QED BY <1>3, <1>4, <1>5 DEF Contract!Link, Contract!Next

\* The commit of a push.
LEMMA PushMaps ==
    ASSUME ContractInv, NEW d \in Devices, NEW batch \in SUBSET Moments, Store(d, batch)
    PROVE  Contract!Next
<1> DEFINE l == device[d]
           new == {m \in batch : reading[l][m] = 0}
<1>1. l \in Links /\ link[l] # "none"
  BY DEF Store, ContractInv, MeterInv, TypeOK
<1>2. /\ new \in SUBSET Moments /\ \A m \in new : reading[l][m] = 0
      /\ stored' = [stored EXCEPT ![l] = [m \in Moments |-> IF m \in new THEN @[m] + 1
                                                           ELSE @[m]]]
      /\ reading' = [reading EXCEPT ![l] = [m \in Moments |->
                        IF m \in new THEN stored[l][m] + 1 ELSE @[m]]]
      /\ UNCHANGED <<consent, link, hours, horizon>>
  BY DEF Store
<1> HIDE DEF l, new
<1>3. Contract!Push(l, new)
  BY <1>1, <1>2 DEF Contract!Push
<1> QED BY <1>1, <1>2, <1>3 DEF Contract!Next

\* The commit of a fold: of a link that works it moves what it read, each once.
LEMMA FoldMaps ==
    ASSUME ContractInv, NEW f \in Folds, Folded(f)
    PROVE  Contract!Next
<1> DEFINE l == fold[f].link
           S == Folding(f)
<1>1. /\ l \in Links /\ link[l] \in {"active", "revoked"} /\ fold[f].at = "deleted"
      /\ reading \in [Links -> [Moments -> Nat]] /\ hours \in [Links -> [Moments -> Nat]]
      /\ fold[f] \in FoldState /\ S \in SUBSET Moments
  <2>1. fold[f].at = "deleted" /\ FoldsWhatIsThere(f) /\ TypeOK
    BY DEF Folded, ContractInv, MeterInv
  <2>2. l \in Links /\ link[l] # "none"
    BY <2>1 DEF FoldsWhatIsThere
  <2> QED BY <2>1, <2>2 DEF TypeOK, Folding
<1>2. /\ reading' = [reading EXCEPT ![l] = [m \in Moments |->
                        IF m \in S /\ reading[l][m] = fold[f].rows[m] THEN 0 ELSE reading[l][m]]]
      /\ hours' = [hours EXCEPT ![l] = [m \in Moments |->
                        IF m \in fold[f].wrote THEN fold[f].base[m] + (IF m \in S THEN 1 ELSE 0)
                                              ELSE hours[l][m]]]
      /\ UNCHANGED <<consent, link, stored, horizon>>
  BY <1>1, CommitWrites DEF Folded
<1>3. CASE link[l] = "active"
  <2>1. /\ \A m \in S : /\ reading[l][m] = fold[f].rows[m] /\ fold[f].rows[m] > 0
                         /\ m <= horizon
        /\ \A m \in InHoursOf(S) : fold[f].base[m] = hours[l][m]
        /\ fold[f].wrote = InHoursOf(S)
    BY <1>1, <1>3 DEF ContractInv, MeterInv, FoldsWhatIsThere, FoldsOldQuarters, Folding
  <2>2. InHoursOf(S) \subseteq Moments /\ S \subseteq InHoursOf(S)
    BY <1>1, HoursOfSets
  <2> HIDE DEF l, S
  <2>3. reading' = [reading EXCEPT ![l] = [m \in Moments |-> IF m \in S THEN 0 ELSE @[m]]]
    BY <1>1, <1>2, <2>1
  <2>4. \A m \in Moments :
            (IF m \in fold[f].wrote THEN fold[f].base[m] + (IF m \in S THEN 1 ELSE 0)
                                    ELSE hours[l][m])
              = IF m \in S THEN hours[l][m] + 1 ELSE hours[l][m]
    BY <1>1, <2>1, <2>2
  <2>5. hours' = [hours EXCEPT ![l] = [m \in Moments |-> IF m \in S THEN @[m] + 1 ELSE @[m]]]
    BY <1>1, <1>2, <2>4
  <2>6. \A m \in S : m <= horizon /\ reading[l][m] > 0
    BY <2>1
  <2>7. Contract!Fold(l, S)
    BY <1>2, <1>3, <2>3, <2>5, <2>6 DEF Contract!Fold
  <2> QED BY <1>1, <2>7 DEF Contract!Next
<1>4. CASE link[l] = "revoked"
  <2> HIDE DEF l, S
  <2>1. \A m \in Moments : reading'[l][m] \in {0, reading[l][m]}
    BY <1>1, <1>2
  <2>2. \A k \in Links \ {l} : reading'[k] = reading[k] /\ hours'[k] = hours[k]
    BY <1>1, <1>2
  <2>3. Contract!Straggle(l)
    BY <1>2, <1>4, <2>1, <2>2 DEF Contract!Straggle
  <2> QED BY <1>1, <2>3 DEF Contract!Next
<1> QED BY <1>1, <1>3, <1>4

\* Every step is a step of the contract, or none.
LEMMA StepMaps ==
    ContractInv /\ [Next]_vars => [Contract!Next]_Household
<1> SUFFICES ASSUME ContractInv, [Next]_vars
             PROVE  Contract!Next \/ UNCHANGED Household
  BY DEF Household
<1>1. CASE Grant
  BY <1>1 DEF Grant, tables, Contract!Grant, Contract!Next, Contract!tables
<1>2. CASE Age
  BY <1>2 DEF Age, tables, Contract!Age, Contract!Next, Contract!tables
<1>3. ASSUME NEW q \in Requests, Serve(q) \/ Abort(q)
      PROVE  Contract!Next \/ UNCHANGED Household
  <2>1. CASE Unlinked(q) \/ Linked(q)
    BY <2>1, UnlinkMaps, LinkMaps
  <2> QED BY <1>3, <2>1 DEF Serve, MayLink, Look, Hold, EraseQuarters, EraseHours, LookAgain,
                            Supersede, Abort, tables, Household
<1>4. ASSUME NEW d \in Devices, Push(d) PROVE Contract!Next \/ UNCHANGED Household
  <2>1. ASSUME NEW batch \in SUBSET Moments \ {{}}, Store(d, batch) PROVE Contract!Next
    BY <2>1, PushMaps
  <2> QED BY <1>4, <2>1 DEF Push, Authenticate, Refuse, tables, Household
<1>5. ASSUME NEW f \in Folds, Fold(f) \/ Die(f) PROVE Contract!Next \/ UNCHANGED Household
  <2>1. CASE Folded(f)
    BY <2>1, FoldMaps
  <2> QED BY <1>5, <2>1 DEF Fold, ReadQuarters, ReadHours, WriteHours, DeleteQuarters, Die,
                            tables, Household
<1>6. CASE UNCHANGED vars
  BY <1>6 DEF vars, tables, Household
<1> QED BY <1>1, <1>2, <1>3, <1>4, <1>5, <1>6 DEF Next

\* A household that does one thing at a time sees every request, every push and
\* every run of the fold take effect at once, however long their statements wait
\* for each other.
THEOREM Refinement ==
    ASSUME OneFold, OneRequest
    PROVE  Spec => ImplementsContract
<1> DEFINE Own == /\ SeesEveryLink /\ ErasureInv
                  /\ \A q \in Requests : UnlinksEveryLink(q)
                  /\ \A f \in Folds : FoldsOldQuarters(f)
<1>1. Init => Own
  <2> SUFFICES ASSUME Init PROVE Own
    OBVIOUS
  <2>1. SeesEveryLink
    BY IdleTyped DEF Init, SeesEveryLink, OneActiveLink, Active
  <2>2. ErasureInv
    BY IdleTyped DEF Init, ErasureInv, ErasesItsLinks, HoldsEveryLink
  <2>3. \A q \in Requests : UnlinksEveryLink(q)
    BY IdleTyped DEF Init, UnlinksEveryLink
  <2>4. \A f \in Folds : FoldsOldQuarters(f)
    BY DEF Init, FoldsOldQuarters, Folding, IdleFold, None
  <2> QED BY <2>1, <2>2, <2>3, <2>4
<1>2. MeterInv /\ Own /\ [Next]_vars => Own'
  <2> SUFFICES ASSUME MeterInv, Own, [Next]_vars PROVE Own'
    OBVIOUS
  <2>1. TypeOK /\ OneActiveLink
    BY DEF MeterInv, SeesEveryLink
  <2>2. SeesEveryLink'
    BY <2>1, SeesStep
  <2>3. ErasureInv'
    BY <2>1, ErasesStep, HoldsStep DEF ErasureInv
  <2>4. (\A q \in Requests : UnlinksEveryLink(q))'
    BY <2>1, UnlinksStep
  <2>5. (\A f \in Folds : FoldsOldQuarters(f))'
    BY <2>1, OldQuartersStep
  <2> QED BY <2>2, <2>3, <2>4, <2>5
<1>3. MeterInv /\ Own /\ [Next]_vars =>
          [Contract!Next]_<<consent, link, reading, hours, stored, horizon>>
  BY StepMaps DEF ContractInv, Household
<1>4. Init => Contract!Init
  BY DEF Init, None, Contract!Init
<1> HIDE DEF Own
<1> QED BY <1>1, <1>2, <1>3, <1>4, Agreement, PTL DEF Spec, ImplementsContract, Contract!Spec
=============================================================================
