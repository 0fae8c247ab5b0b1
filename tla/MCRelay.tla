------------------------------ MODULE MCRelay ------------------------------
(* Small instances of Relay; the cfg files say which calls run.            *)
EXTENDS Relay, TLC

Interchangeable == Permutations(Cycles)
=============================================================================
