------------------------ MODULE MCShortLivedBursts ------------------------
(* A small instance of ShortLivedBursts for TLC.                           *)
EXTENDS ShortLivedBursts, TLC

\* The command names are interchangeable.
Symmetry == Permutations(Comms)
============================================================================
