---------------------------- MODULE RecentEvents ----------------------------
(***************************************************************************)
(* What fs list events promises: the most recent events, oldest first, no   *)
(* more than MaxEvents of them, and none after a restart.                   *)
(***************************************************************************)
EXTENDS Naturals, Sequences

CONSTANTS MaxEvents, Records

VARIABLE recent

\* The last MaxEvents elements of s, all of them if there are no more.
Latest(s) ==
  IF Len(s) <= MaxEvents THEN s ELSE SubSeq(s, Len(s) - MaxEvents + 1, Len(s))

Init == recent = <<>>

Record(e) == recent' = Latest(Append(recent, e))

Forget == recent' = <<>>

Next == Forget \/ \E e \in Records : Record(e)

Spec == Init /\ [][Next]_recent
=============================================================================
