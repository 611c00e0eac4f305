---------------------------- MODULE AddressSpaces ----------------------------
(***************************************************************************)
(* What programs may take for granted of memory: each process has its own, *)
(* a fork gives the child a copy of its father's, and the kernel takes the *)
(* arguments of a call from the caller's memory and puts results there.    *)
(***************************************************************************)
CONSTANTS Pids, Cells, Contents, Nothing

VARIABLES memory, running, seen

vars == <<memory, running, seen>>

Init ==
  /\ \E p \in Pids : \E content \in [Cells -> Contents] : memory = [q \in {p} |-> content]
  /\ seen = Nothing

\* The process that runs stores something, or has a call store it.
Store ==
  /\ running \in DOMAIN memory
  /\ \E c \in Cells, v \in Contents : memory' = [memory EXCEPT ![running][c] = v]
  /\ seen' = Nothing
  /\ UNCHANGED running

\* The kernel takes an argument.
Take ==
  /\ running \in DOMAIN memory
  /\ \E c \in Cells : seen' = memory[running][c]
  /\ UNCHANGED <<memory, running>>

Spawn(child) ==
  /\ running \in DOMAIN memory /\ child \notin DOMAIN memory
  /\ memory' = [p \in DOMAIN memory \cup {child} |->
                  IF p = child THEN memory[running] ELSE memory[p]]
  /\ seen' = Nothing
  /\ UNCHANGED running

End ==
  /\ running \in DOMAIN memory
  /\ memory' = [p \in DOMAIN memory \ {running} |-> memory[p]]
  /\ seen' = Nothing

Dispatch == seen' = Nothing /\ UNCHANGED memory

Next == Store \/ Take \/ End \/ Dispatch \/ \E child \in Pids : Spawn(child)

Spec == Init /\ [][Next]_vars
=============================================================================
