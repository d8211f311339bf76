------------------------------- MODULE MCMeter -------------------------------
(* Instances of Meter for TLC.  Links and quarters are ordered; processes    *)
(* are interchangeable.                                                      *)
EXTENDS Meter, TLC

Symmetry == Permutations(Requests) \cup Permutations(Devices) \cup Permutations(Folds)
=============================================================================
