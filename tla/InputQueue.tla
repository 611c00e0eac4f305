----------------------------- MODULE InputQueue -----------------------------
(***************************************************************************)
(* What read of stdin promises: the characters typed form one queue; each  *)
(* read takes as many as it asked for from the front, once they are there. *)
(* The promise is for Capacity characters in all, read or unread; the next *)
(* one breaks it.                                                          *)
(***************************************************************************)
EXTENDS Integers, Sequences

CONSTANTS Chars, Readers, Capacity

VARIABLES queue, taken, total, broken

vars == <<queue, taken, total, broken>>

Init ==
  /\ queue = <<>> /\ taken = [p \in Readers |-> <<>>]
  /\ total = 0 /\ broken = FALSE

Type(ch) ==
  /\ ~broken /\ total < Capacity
  /\ queue' = Append(queue, ch) /\ total' = total + 1
  /\ UNCHANGED <<taken, broken>>

Overrun ==
  /\ ~broken /\ total = Capacity
  /\ broken' = TRUE
  /\ UNCHANGED <<queue, taken, total>>

Take(p, n) ==
  /\ ~broken /\ n <= Len(queue)
  /\ taken' = [taken EXCEPT ![p] = @ \o SubSeq(queue, 1, n)]
  /\ queue' = SubSeq(queue, n + 1, Len(queue))
  /\ UNCHANGED <<total, broken>>

Next ==
  \/ \E ch \in Chars : Type(ch)
  \/ \E p \in Readers, n \in 0 .. Capacity : Take(p, n)
  \/ Overrun

Spec == Init /\ [][Next]_vars
=============================================================================
