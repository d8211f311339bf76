---------------------------- MODULE MeterContract ----------------------------
(***************************************************************************)
(* What a household is promised about its meter, with every request, every *)
(* push and every run of the fold taking effect at one instant.  Meter     *)
(* implements it while there is one request and one fold at a time.        *)
(***************************************************************************)
EXTENDS Naturals

CONSTANTS Links, Moments

VARIABLES
    consent,    \* the household agreed to have its meter read
    link,       \* what each link is worth
    reading,    \* the quarters that are kept, by which write each is
    hours,      \* how often each quarter was added to its hour
    stored,     \* how often each quarter was written
    horizon     \* quarters up to here are past the retention

tables == <<link, reading, hours, stored>>

Init ==
    /\ consent = FALSE /\ horizon = 0
    /\ link = [l \in Links |-> "none"]
    /\ reading = [l \in Links |-> [m \in Moments |-> 0]]
    /\ hours = reading /\ stored = reading

Working == {l \in Links : link[l] = "active"}

\* A table without any row of the links that work.
Emptied(table) ==
    [l \in Links |-> IF l \in Working THEN [m \in Moments |-> 0] ELSE table[l]]

Grant ==
    /\ consent' = TRUE
    /\ UNCHANGED <<tables, horizon>>

\* A new link takes the place of the one that worked, which keeps nothing.
Link(n) ==
    /\ link[n] = "none"
    /\ link' = [l \in Links |-> IF l = n THEN "active"
                                ELSE IF l \in Working THEN "revoked" ELSE link[l]]
    /\ reading' = Emptied(reading) /\ hours' = Emptied(hours)
    /\ UNCHANGED <<consent, stored, horizon>>

\* No link works, and the one that did keeps nothing.  A withdrawal of the
\* consent does the same.
Unlink ==
    /\ link' = [l \in Links |-> IF l \in Working THEN "revoked" ELSE link[l]]
    /\ reading' = Emptied(reading) /\ hours' = Emptied(hours)
    /\ consent' \in {consent, FALSE}
    /\ UNCHANGED <<stored, horizon>>

\* Quarters that were not there come under a link somebody was given.
Push(l, S) ==
    /\ link[l] # "none"
    /\ \A m \in S : reading[l][m] = 0
    /\ stored' = [stored EXCEPT ![l] = [m \in Moments |-> IF m \in S THEN @[m] + 1 ELSE @[m]]]
    /\ reading' = [reading EXCEPT ![l] = [m \in Moments |-> IF m \in S THEN stored[l][m] + 1
                                                                   ELSE @[m]]]
    /\ UNCHANGED <<consent, link, hours, horizon>>

\* Quarters past the retention move from the table to their hours, each once.
Fold(l, S) ==
    /\ link[l] = "active"
    /\ \A m \in S : m <= horizon /\ reading[l][m] > 0
    /\ reading' = [reading EXCEPT ![l] = [m \in Moments |-> IF m \in S THEN 0 ELSE @[m]]]
    /\ hours' = [hours EXCEPT ![l] = [m \in Moments |-> IF m \in S THEN @[m] + 1 ELSE @[m]]]
    /\ UNCHANGED <<consent, link, stored, horizon>>

\* Of a link that stopped meanwhile a fold may still take quarters and leave
\* hours; it leaves every other link alone.
Straggle(l) ==
    /\ link[l] = "revoked"
    /\ \A m \in Moments : reading'[l][m] \in {0, reading[l][m]}
    /\ \A k \in Links \ {l} : reading'[k] = reading[k] /\ hours'[k] = hours[k]
    /\ UNCHANGED <<consent, link, stored, horizon>>

Age ==
    /\ horizon' = horizon + 1
    /\ UNCHANGED <<consent, tables>>

Next ==
    \/ Grant \/ Unlink \/ Age
    \/ \E n \in Links : Link(n)
    \/ \E l \in Links, S \in SUBSET Moments : Push(l, S) \/ Fold(l, S)
    \/ \E l \in Links : Straggle(l)

Spec == Init /\ [][Next]_<<consent, link, reading, hours, stored, horizon>>

==============================================================================
