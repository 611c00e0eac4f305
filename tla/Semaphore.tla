------------------------------ MODULE Semaphore ------------------------------
(***************************************************************************)
(* What a program expects of a semaphore: units that are handed out one by *)
(* one, and processes that sleep, in the order they came, exactly while    *)
(* they have asked for a unit and got none.  A unit that is given back     *)
(* goes to the first of them.                                              *)
(***************************************************************************)
EXTENDS Integers, SequencesExt

CONSTANT Pids

VARIABLES
  units,     \* those not handed out
  queue,     \* who waits, the first in front
  asleep     \* who may not run

vars == <<units, queue, asleep>>

Init == units = 0 /\ queue = <<>> /\ asleep = {}

Initialise ==
  /\ queue = <<>>
  /\ units' \in Nat
  /\ UNCHANGED <<queue, asleep>>

Obtain ==
  /\ units > 0 /\ queue = <<>>
  /\ units' = units - 1
  /\ UNCHANGED <<queue, asleep>>

Queue(p) ==
  /\ units = 0 /\ p \notin asleep
  /\ queue' = Append(queue, p)
  /\ asleep' = asleep \cup {p}
  /\ UNCHANGED units

\* A unit comes back: somebody gets it, or it is kept.
Release ==
  /\ queue = <<>>
  /\ units' = units + 1
  /\ UNCHANGED <<queue, asleep>>

HandOver ==
  /\ queue # <<>>
  /\ queue' = Tail(queue)
  /\ asleep' = asleep \ {Head(queue)}
  /\ UNCHANGED units

Next == Initialise \/ Obtain \/ Release \/ HandOver \/ \E p \in Pids : Queue(p)

Spec == Init /\ [][Next]_vars
=============================================================================
