------------------------------- MODULE Queues -------------------------------
(***************************************************************************)
(* What the kernel expects of its PCB lists: queues of PCBs, with the      *)
(* operations of KernelLists.tla.  Processes.tla works on such queues;     *)
(* PcbLinks.tla implements them with `next' pointers.                      *)
(***************************************************************************)
EXTENDS KernelLists

CONSTANTS Heads, Nodes

VARIABLES
  list,      \* list[h]: the PCBs on list h, in order
  halted     \* an assertion has failed

vars == <<list, halted>>

Init == list = [h \in Heads |-> << >>] /\ halted = FALSE

Queued == UNION {ToSet(list[h]) : h \in Heads}

\* A PCB on no list joins the end of one.
Add(h, d) ==
  /\ ~halted /\ d \notin Queued
  /\ list' = [list EXCEPT ![h] = list_add(@, d)]
  /\ UNCHANGED halted

\* A PCB leaves its list; to look for it on another list is an error.
Delete(h, d) ==
  /\ ~halted
  /\ IF OnList(list[h], d)
     THEN list' = [list EXCEPT ![h] = list_delete(@, d)] /\ UNCHANGED halted
     ELSE halted' = TRUE /\ UNCHANGED list

\* To ask for the head of an empty list is an error too.
Take(h) ==
  /\ ~halted
  /\ IF list[h] # << >>
     THEN list' = [list EXCEPT ![h] = list_delete(@, list_head(@))] /\ UNCHANGED halted
     ELSE halted' = TRUE /\ UNCHANGED list

\* All PCBs leave a list.
Empty(h) == ~halted /\ list' = [list EXCEPT ![h] = << >>] /\ UNCHANGED halted

\* A PCB goes from one list to the end of another.
Move(g, h, d) ==
  /\ ~halted /\ OnList(list[g], d)
  /\ list' = [list EXCEPT ![g] = list_delete(@, d), ![h] = list_add(@, d)]
  /\ UNCHANGED halted

Next ==
  \/ \E h \in Heads : Take(h) \/ Empty(h)
  \/ \E h \in Heads, d \in Nodes : Add(h, d) \/ Delete(h, d)
  \/ \E g, h \in Heads : \E d \in Nodes : g # h /\ Move(g, h, d)

Spec == Init /\ [][Next]_vars
=============================================================================
