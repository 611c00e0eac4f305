------------------------------ MODULE PcbLinks ------------------------------
(***************************************************************************)
(* The PCB lists as list.c keeps them: a dummy PCB per list, and a `next'  *)
(* pointer in every PCB.  Each operation that the kernel performs on a     *)
(* list is an action; the walk of try_to_wakeup over the blocked list,     *)
(* which unlinks and relinks the PCBs it stands on, is one action for each *)
(* turn of its loop.  Which PCBs a walk wakes, its sleepTime says in the   *)
(* code, is chosen when it starts.                                         *)
(*                                                                         *)
(* The callers keep the one rule that Processes.tla proves of them: a PCB  *)
(* is added to a list only while it is on none.                            *)
(***************************************************************************)
EXTENDS KernelLists

CONSTANTS Nodes, Null      \* the PCBs, and NULL

Heads == {"runnable_list", "blocked_list", "free_list", "dummysem"}

ASSUME LinksAssumption ==
  IsFiniteSet(Nodes) /\ Nodes \cap Heads = {} /\ Null \notin Nodes \cup Heads

VARIABLES
  next,       \* next[x]: the field `next' of a PCB or of a list head
  halted,     \* assert(0) was reached
  walking,    \* try_to_wakeup runs
  p,          \* its cursor
  due,        \* the PCBs whose sleepTime reaches 0 on this walk
  visited,    \* the PCBs whose sleepTime it has decremented, in order
  before      \* the blocked and the runnable list when it started

walkVars == <<walking, p, due, visited, before>>
vars     == <<next, halted, walkVars>>

\* The PCBs reached from x; one pointer more than there are PCBs is enough to
\* see a chain that runs into itself.
Chain(x) ==
  LET from[n \in 0 .. Cardinality(Nodes) + 1] ==
        [y \in Nodes \cup Heads |->
           IF n = 0 \/ next[y] = Null THEN << >> ELSE <<next[y]>> \o from[n - 1][next[y]]]
  IN  from[Cardinality(Nodes) + 1][x]

Init ==
  /\ next = [x \in Nodes \cup Heads |-> Null]
  /\ halted = FALSE
  /\ walking = FALSE /\ p = Null /\ due = {} /\ visited = << >>
  /\ before = <<<< >>, << >>>>

-----------------------------------------------------------------------------
\* list_add, and list_delete of a PCB that is on the list: the pointers after
\* the call.
ChainEnd(nx, head) ==
  LET end[x \in DOMAIN nx] == IF nx[x] = Null THEN x ELSE end[nx[x]] IN end[head]
AddStale(nx, head, data) == [nx EXCEPT ![ChainEnd(nx, head)] = data]
Added(nx, head, data) == [nx EXCEPT ![data] = Null, ![ChainEnd(nx, head)] = data]

\* The PCB or head before data, or else the end of the list.
Before(nx, head, data) ==
  LET at[x \in DOMAIN nx] == IF nx[x] \in {Null, data} THEN x ELSE at[nx[x]] IN at[head]
DeletedCut(nx, head, data) == [nx EXCEPT ![Before(nx, head, data)] = Null]
Deleted(nx, head, data) == [nx EXCEPT ![Before(nx, head, data)] = nx[data]]

OnNoList(d) == \A h \in Heads : ~OnList(Chain(h), d)

list_addTo(head, data) ==
  /\ ~halted /\ ~walking /\ OnNoList(data)
  /\ next' = Added(next, head, data)
  /\ UNCHANGED <<halted, walkVars>>

list_deleteFrom(head, data) ==
  /\ ~halted /\ ~walking
  /\ \/ /\ next[Before(next, head, data)] = Null
        /\ halted' = TRUE
        /\ UNCHANGED next
     \/ /\ next[Before(next, head, data)] # Null
        /\ next' = Deleted(next, head, data)
        /\ UNCHANGED halted
  /\ UNCHANGED walkVars

\* schedule() and V: list_head, then list_delete of what it returned.
TakeHead(head) ==
  /\ ~halted /\ ~walking
  /\ \/ /\ next[head] = Null
        /\ halted' = TRUE
        /\ UNCHANGED next
     \/ /\ next[head] # Null
        /\ next' = Deleted(next, head, next[head])
        /\ UNCHANGED halted
  /\ UNCHANGED walkVars

\* sem_init_aux: dummysem.next = NULL.
ResetWaiters ==
  /\ ~halted /\ ~walking
  /\ next' = [next EXCEPT !["dummysem"] = Null]
  /\ UNCHANGED <<halted, walkVars>>

\* try_to_wakeup: where the walk starts, one turn of the loop, the end.
FirstAtHead(head) == head
First(head) == next[head]

StartWalk ==
  /\ ~halted /\ ~walking
  /\ walking' = TRUE
  /\ p' = First("blocked_list")
  /\ due' \in SUBSET ToSet(Chain("blocked_list"))
  /\ visited' = << >>
  /\ before' = <<Chain("blocked_list"), Chain("runnable_list")>>
  /\ UNCHANGED <<next, halted>>

\* After a wake-up the cursor is the successor that was saved before it.
Woken(q) == Added(Deleted(next, "blocked_list", q), "runnable_list", q)
CursorLate(q) == Woken(q)[q]
Cursor(q) == next[q]

WakeStep ==
  /\ walking /\ p \in due
  /\ next' = Woken(p)
  /\ p' = Cursor(p)
  /\ visited' = Append(visited, p)
  /\ UNCHANGED <<halted, walking, due, before>>

PassStep ==
  /\ walking /\ p \notin due \cup {Null}
  /\ p' = next[p]
  /\ visited' = Append(visited, p)
  /\ UNCHANGED <<next, halted, walking, due, before>>

EndWalk ==
  /\ walking /\ p = Null
  /\ walking' = FALSE /\ due' = {} /\ visited' = << >> /\ before' = <<<< >>, << >>>>
  /\ UNCHANGED <<next, halted, p>>

\* abort().
Halted == halted /\ UNCHANGED vars

Next ==
  \/ \E h \in Heads : TakeHead(h)
  \/ \E h \in Heads, d \in Nodes : list_addTo(h, d) \/ list_deleteFrom(h, d)
  \/ ResetWaiters \/ StartWalk \/ WakeStep \/ PassStep \/ EndWalk \/ Halted

Spec == Init /\ [][Next]_vars

-----------------------------------------------------------------------------
(* Pointers point to PCBs, never to a list head. *)
TypeOK ==
  /\ next \in [Nodes \cup Heads -> Nodes \cup {Null}]
  /\ halted \in BOOLEAN /\ walking \in BOOLEAN
  /\ p \in Nodes \cup {Null} /\ due \subseteq Nodes

(***************************************************************************)
(* The chains are separate: a PCB is on one list at most and on it once,   *)
(* whatever stale pointers PCBs keep that were unlinked or dropped before  *)
(* (list.c:9-10, 20-21, sem.c:33).                                         *)
(***************************************************************************)
Separate ==
  /\ \A h \in Heads : NoRepeats(Chain(h))
  /\ \A g, h \in Heads : g # h => ToSet(Chain(g)) \cap ToSet(Chain(h)) = {}

(***************************************************************************)
(* A walk of try_to_wakeup that unlinks PCBs under its own cursor visits   *)
(* every sleeper once and in order; at its end the sleepers whose time is  *)
(* up stand at the end of the runnable list and the others have stayed, in *)
(* their order (irqHandle.c:231-242).                                      *)
(***************************************************************************)
WalkSplitsTheList ==
  walking /\ p = Null =>
    /\ visited = before[1]
    /\ Chain("blocked_list") = Keep(before[1], Nodes \ due)
    /\ Chain("runnable_list") = before[2] \o Keep(before[1], due)

(***************************************************************************)
(* The pointer code implements queues: read as the sequences of PCBs on    *)
(* their chains, the lists change only as Queues.tla allows, and an        *)
(* assertion of list.c fails only where a PCB or a head is missing.        *)
(***************************************************************************)
Abstract == INSTANCE Queues WITH list <- [h \in Heads |-> Chain(h)]
ImplementsQueues == Abstract!Spec
=============================================================================
