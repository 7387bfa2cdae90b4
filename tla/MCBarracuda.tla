----------------------------- MODULE MCBarracuda -----------------------------
(* Model-checking instance of Barracuda: two RAID threads, two addresses     *)
(* for the reference array, the daemon of the specification's scenario.      *)
EXTENDS Barracuda

CONSTANTS p1, p2, a1, a2

MCProducers == {p1, p2}
MCArrays == {a1, a2}
=============================================================================
