------------------------------ MODULE MCOutbox ------------------------------
(* Instances of Outbox for TLC.  Outbox ids are ordered; everything else    *)
(* is interchangeable.                                                      *)
EXTENDS Outbox, TLC

Symmetry == Permutations(Users) \cup Permutations(Tokens)
               \cup Permutations(Requests) \cup Permutations(Senders)
=============================================================================
