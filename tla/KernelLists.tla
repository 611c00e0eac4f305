---------------------------- MODULE KernelLists ----------------------------
(***************************************************************************)
(* The PCB lists of kernel/kernel/list.c, seen as sequences.  A list is a  *)
(* dummy PCB followed by the chain of its `next' pointers; here it is the  *)
(* sequence of the PCBs on that chain.  The kernel puts a PCB on a list    *)
(* only while the PCB is on no list (ProcessesProofs.tla proves it), and   *)
(* under that condition the pointer code does to the chain what these      *)
(* operators do to the sequence (PcbLinks.tla shows it).                   *)
(***************************************************************************)
EXTENDS Integers, SequencesExt

\* list_add walks to the end of the chain and links data there.
list_add_front(list, data) == <<data>> \o list
list_add(list, data) == Append(list, data)

\* list_delete unlinks the first node equal to data; the caller tests OnList
\* first, because the code ends in assert(0) when there is none.
OnList(list, data) == Contains(list, data)
list_delete_first(list, data) == Tail(list)
list_delete(list, data) == RemoveFirst(list, data)

\* list_head returns the first node; it ends in assert(0) on an empty list.
list_head(list) == Head(list)

\* The members of S that are on the list, in list order: what is left of, or
\* taken from, a list that a loop walks while it unlinks nodes one by one.
Rank(list, S, i) == Cardinality({k \in 1 .. i : list[k] \in S})
Keep(list, S) ==
  [j \in 1 .. Rank(list, S, Len(list)) |->
     list[CHOOSE i \in 1 .. Len(list) : list[i] \in S /\ Rank(list, S, i) = j]]

\* No PCB occurs twice on the list.
NoRepeats(list) == IsInjective(list)

\* p comes before q on the list.
Ahead(list, p, q) ==
  \E i, j \in 1 .. Len(list) : i < j /\ list[i] = p /\ list[j] = q
=============================================================================
