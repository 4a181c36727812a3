-------------------------------- MODULE Fifo --------------------------------
(***************************************************************************)
(* What a bounded queue with one writer and one reader promises: batches   *)
(* are appended whole while they fit, the reader takes a prefix, and both  *)
(* happen in one step.                                                     *)
(***************************************************************************)
EXTENDS Integers, Sequences

CONSTANTS Vals, Cap

VARIABLES q,      \* what has been pushed and not yet popped
          out     \* what the latest successful pop returned

vars == <<q, out>>

Init == q = <<>> /\ out = <<>>

Push(batch) ==
  /\ Len(q) + Len(batch) <= Cap
  /\ q' = q \o batch
  /\ out' = out

Pop(n) ==
  /\ n <= Len(q)
  /\ out' = SubSeq(q, 1, n)
  /\ q' = SubSeq(q, n + 1, Len(q))

Clear == q' = <<>> /\ out' = out

Next ==
  \/ \E n \in 0 .. Cap : \E batch \in [1 .. n -> Vals] : Push(batch)
  \/ \E n \in 0 .. Cap : Pop(n)
  \/ Clear

Spec == Init /\ [][Next]_vars
=============================================================================
