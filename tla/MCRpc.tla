------------------------------- MODULE MCRpc -------------------------------
(* Small instances of Rpc for TLC.                                         *)
EXTENDS Rpc, TLC

\* The requests are interchangeable.
Symmetry == Permutations(Requests)
============================================================================
