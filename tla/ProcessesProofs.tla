-------------------------- MODULE ProcessesProofs --------------------------
(***************************************************************************)
(* Processes.tla: the type invariant and the safety invariants of the      *)
(* scheduler, for every number of PCBs, time slice, set of semaphores and  *)
(* of arguments, and whether or not the programs are disciplined; then,    *)
(* under the discipline, that no waiter is lost and the kernel never stops.*)
(***************************************************************************)
EXTENDS Processes, KernelListsProofs

(***************************************************************************)
(* Every list invariant below speaks of Lists(Pcbs, list, X): the list     *)
(* holds exactly the PCBs in X.  SchedInv is the part of the inductive     *)
(* invariant that schedule() touches, OtherTypes the rest of TypeOK.       *)
(***************************************************************************)
SchedTypes ==
  /\ current \in Procs
  /\ state \in [Procs -> States]
  /\ timeCount \in [Procs -> 0 .. Quantum]
  /\ sleepTime \in [Pcbs -> IntMin .. IntMax]
  /\ esp0 \in Pcbs \cup {Pcb0}

ListInv ==
  /\ Lists(Pcbs, runnable_list, In("RUNNABLE"))
  /\ Lists(Pcbs, blocked_list, In("BLOCKED"))
  /\ Lists(Pcbs, free_list, In("DEAD"))
  /\ Lists(Pcbs, dummysem, ToSet(dummysem))
  /\ ToSet(dummysem) \subseteq In("SEM_BLOCKED")

SchedInv == SchedTypes /\ ListInv /\ OneRuns /\ FrameOfCurrent

OtherTypes ==
  /\ psem \in [Pcbs -> Refs \cup {Null}]
  /\ value \in [Refs -> Int]
  /\ semlist \in [Refs -> BOOLEAN]
  /\ intr_nesting \in BOOLEAN
  /\ want \in Nat /\ typed \in Nat
  /\ panic \in Panics

CountInv == p_num \in Int /\ CountsProcesses

IInv == SchedInv /\ OtherTypes /\ CountInv

(* The inductive invariant is at least as strong as the two it is made for. *)
LEMMA IInvImplies ==
  IInv => TypeOK /\ OnListOfState /\ OneRuns /\ FrameOfCurrent /\ CountsProcesses
  BY DEF IInv, SchedInv, SchedTypes, ListInv, Lists, OtherTypes, CountInv,
         TypeOK, OnListOfState

(* What there is to know about the sets of processes. *)
LEMMA ProcsFacts ==
  /\ Pcbs \subseteq Nat \ {0}
  /\ Procs = Pcbs \cup {Idle} /\ Idle \notin Pcbs /\ Pcb0 \notin Procs
  /\ 1 \in Pcbs
  /\ IsFiniteSet(Pcbs) /\ Cardinality(Pcbs) = MaxPcb - 1
  <1>1. MaxPcb \in Nat /\ MaxPcb >= 2
    BY ConstantsAssumption DEF ConstantsAssumption
  <1>2. IsFiniteSet(Pcbs) /\ Cardinality(Pcbs) = MaxPcb - 1
    BY <1>1, FS_Interval DEF Pcbs
  <1> QED BY <1>1, <1>2 DEF Pcbs, Procs, Idle, Pcb0

-----------------------------------------------------------------------------
(***************************************************************************)
(* The processes with a given status in a state function that schedule()   *)
(* is entered with.                                                        *)
(***************************************************************************)
InOf(st, status) == {p \in Pcbs : st[p] = status}

(***************************************************************************)
(* What holds when a handler calls schedule(): the table is as SchedInv    *)
(* says, except that current may already carry its new state without being *)
(* linked on the list of that state, and may have no time left.            *)
(***************************************************************************)
AtSchedule(st, tc, sl, rq, bq) ==
  /\ current \in Procs
  /\ st \in [Procs -> States]
  /\ tc \in [Procs -> 0 .. Quantum]
  /\ sl \in [Pcbs -> IntMin .. IntMax]
  /\ esp0 \in Pcbs \cup {Pcb0}
  /\ Lists(Pcbs, rq, InOf(st, "RUNNABLE"))
  /\ Lists(Pcbs, bq, InOf(st, "BLOCKED") \ {current})
  /\ Lists(Pcbs, free_list, InOf(st, "DEAD") \ {current})
  /\ Lists(Pcbs, dummysem, ToSet(dummysem))
  /\ ToSet(dummysem) \subseteq InOf(st, "SEM_BLOCKED") \ {current}
  /\ \A p \in Procs : st[p] = "RUNNING" => p = current
  /\ st[current] # "RUNNABLE"
  /\ st[Idle] = IF current = Idle THEN "RUNNING" ELSE "RUNNABLE"
  /\ current # Idle => esp0 = current

(* schedule() re-establishes the scheduler's invariant and leaves the sets *)
(* of DEAD and of SEM_BLOCKED processes as the handler made them.          *)
LEMMA ScheduleKeeps ==
  ASSUME NEW st, NEW tc, NEW sl, NEW rq, NEW bq,
         AtSchedule(st, tc, sl, rq, bq), Schedule(st, tc, sl, rq, bq)
  PROVE  /\ SchedInv'
         /\ In("DEAD")' = InOf(st, "DEAD")
         /\ In("SEM_BLOCKED")' = InOf(st, "SEM_BLOCKED")
  <1> DEFINE some == rq # << >>
             next == IF some THEN list_head(rq)
                     ELSE IF st[current] = "RUNNING" THEN current ELSE Idle
             back == st[current] = "RUNNING" /\ current # Idle
             grown == IF back THEN list_add(rq, current) ELSE rq
             ready == InOf(st, "RUNNABLE") \cup (IF back THEN {current} ELSE {})
  <1>0. /\ Quantum \in Nat \ {0} /\ IntMin \in Int /\ IntMax \in Int
        /\ 0 \in IntMin .. IntMax
    BY ConstantsAssumption DEF ConstantsAssumption
  <1>1. some => next \in InOf(st, "RUNNABLE") /\ next \in Pcbs /\ next # current
    BY ListsHead, ProcsFacts DEF AtSchedule, InOf
  <1>2. next \in Procs /\ (next # Idle \/ ~some)
    BY <1>1, ProcsFacts DEF AtSchedule
  <1>3. ~some => InOf(st, "RUNNABLE") = {}
    BY ListsEmpty DEF AtSchedule, Lists
  <1>4. Lists(Pcbs, grown, ready)
    BY ListsAdd, ProcsFacts DEF AtSchedule, InOf
  <1>5. some => Lists(Pcbs, list_delete(grown, next), ready \ {next})
    BY <1>1, <1>4, ListsDelete
  <1>20. some => list_head(grown) = list_head(rq)
    <2>1. CASE back
      <3>1. rq \in Seq(Pcbs) /\ current \in Pcbs
        BY <2>1, ProcsFacts DEF AtSchedule, Lists
      <3>2. some => list_head(list_add(rq, current)) = list_head(rq)
        BY <3>1, HeadOfAdd
      <3> QED BY <2>1, <3>2
    <2>2. CASE ~back
      BY <2>2
    <2> QED BY <2>1, <2>2
  <1>6. /\ current' = next
        /\ state' = [[st EXCEPT ![current] = IF st[current] = "RUNNING" THEN "RUNNABLE" ELSE @]
                       EXCEPT ![next] = "RUNNING"]
        /\ timeCount' = [tc EXCEPT ![next] = Quantum]
        /\ sleepTime' = IF some THEN [sl EXCEPT ![next] = 0] ELSE sl
        /\ esp0' = IF some THEN next ELSE esp0
        /\ runnable_list' = IF some THEN list_delete(grown, next) ELSE rq
        /\ blocked_list' = IF st[current] = "BLOCKED" THEN list_add(bq, current) ELSE bq
        /\ free_list' = IF st[current] = "DEAD" THEN list_add(free_list, current)
                        ELSE free_list
        /\ dummysem' = IF st[current] = "SEM_BLOCKED" THEN list_add(dummysem, current)
                       ELSE dummysem
    BY <1>20 DEF Schedule, AtSchedule, NewSlice, StackTop
  <1>7. /\ state' \in [Procs -> States]
        /\ \A p \in Procs : state'[p] = IF p = next THEN "RUNNING"
                                        ELSE IF p = current /\ st[p] = "RUNNING" THEN "RUNNABLE"
                                        ELSE st[p]
    BY <1>2, <1>6 DEF AtSchedule, States
  <1>8. back <=> st[current] = "RUNNING" /\ current # Idle
    OBVIOUS
  <1>9. ~some => next = IF st[current] = "RUNNING" THEN current ELSE Idle
    OBVIOUS
  <1> DEFINE now(status) == {p \in Pcbs : state'[p] = status}
  <1> HIDE DEF some, next, back, grown
  <1>10. /\ some => now("RUNNABLE") = ready \ {next}
         /\ ~some => now("RUNNABLE") = {}
    <2>1. CASE some
      <3>1. ready \subseteq Pcbs
        BY <1>8, ProcsFacts DEF InOf, AtSchedule
      <3>2. ASSUME NEW p \in Pcbs
            PROVE  state'[p] = "RUNNABLE" <=> p \in ready \ {next}
        <4>1. p \in Procs /\ p # Idle
          BY ProcsFacts
        <4>2. p \in ready <=> st[p] = "RUNNABLE" \/ (p = current /\ st[p] = "RUNNING")
          BY <1>8, <4>1 DEF InOf
        <4> QED BY <1>7, <4>1, <4>2
      <3> HIDE DEF ready
      <3> QED BY <2>1, <3>1, <3>2
    <2>2. CASE ~some
      BY <1>3, <1>7, <1>9, <2>2, ProcsFacts, ZenonT(60) DEF InOf, AtSchedule
    <2> QED BY <2>1, <2>2
  <1>11. now("BLOCKED") = InOf(st, "BLOCKED") /\ now("DEAD") = InOf(st, "DEAD")
    BY <1>1, <1>7, <1>9, ProcsFacts, ZenonT(60) DEF InOf, AtSchedule
  <1>12. now("SEM_BLOCKED") = InOf(st, "SEM_BLOCKED")
    BY <1>1, <1>7, <1>9, ProcsFacts DEF InOf, AtSchedule
  <1>13. Lists(Pcbs, runnable_list', now("RUNNABLE"))
    <2>1. CASE some
      BY <1>5, <1>6, <1>10, <2>1
    <2>2. CASE ~some
      BY <1>3, <1>6, <1>10, <2>2 DEF AtSchedule
    <2> QED BY <2>1, <2>2
  <1>14. Lists(Pcbs, blocked_list', now("BLOCKED"))
    <2>1. CASE st[current] = "BLOCKED"
      <3>1. current \in InOf(st, "BLOCKED")
        BY <2>1, ProcsFacts DEF AtSchedule, InOf
      <3>2. Lists(Pcbs, list_add(bq, current), (InOf(st, "BLOCKED") \ {current}) \cup {current})
        BY <3>1, ListsAdd DEF AtSchedule, InOf
      <3> QED BY <1>6, <1>11, <2>1, <3>1, <3>2
    <2>2. CASE st[current] # "BLOCKED"
      <3>1. InOf(st, "BLOCKED") \ {current} = InOf(st, "BLOCKED")
        BY <2>2 DEF InOf
      <3> QED BY <1>6, <1>11, <2>2, <3>1 DEF AtSchedule
    <2> QED BY <2>1, <2>2
  <1>15. Lists(Pcbs, free_list', now("DEAD"))
    <2>1. CASE st[current] = "DEAD"
      <3>1. current \in InOf(st, "DEAD")
        BY <2>1, ProcsFacts DEF AtSchedule, InOf
      <3>2. Lists(Pcbs, list_add(free_list, current), (InOf(st, "DEAD") \ {current}) \cup {current})
        BY <3>1, ListsAdd DEF AtSchedule, InOf
      <3> QED BY <1>6, <1>11, <2>1, <3>1, <3>2
    <2>2. CASE st[current] # "DEAD"
      <3>1. InOf(st, "DEAD") \ {current} = InOf(st, "DEAD")
        BY <2>2 DEF InOf
      <3> QED BY <1>6, <1>11, <2>2, <3>1 DEF AtSchedule
    <2> QED BY <2>1, <2>2
  <1>16. /\ Lists(Pcbs, dummysem', ToSet(dummysem'))
         /\ ToSet(dummysem') \subseteq now("SEM_BLOCKED")
    <2>1. CASE st[current] = "SEM_BLOCKED"
      <3>1. current \in InOf(st, "SEM_BLOCKED")
        BY <2>1, ProcsFacts DEF AtSchedule, InOf
      <3>2. Lists(Pcbs, list_add(dummysem, current), ToSet(dummysem) \cup {current})
        BY <3>1, ListsAdd DEF AtSchedule, InOf
      <3> QED BY <1>6, <1>12, <2>1, <3>1, <3>2 DEF Lists, AtSchedule
    <2>2. CASE st[current] # "SEM_BLOCKED"
      BY <1>6, <1>12, <2>2 DEF AtSchedule
    <2> QED BY <2>1, <2>2
  <1>17. SchedTypes'
    <2>1. sleepTime' \in [Pcbs -> IntMin .. IntMax]
      BY <1>0, <1>6 DEF AtSchedule
    <2>2. timeCount' \in [Procs -> 0 .. Quantum]
      BY <1>0, <1>2, <1>6 DEF AtSchedule
    <2>3. esp0' \in Pcbs \cup {Pcb0}
      BY <1>1, <1>6 DEF AtSchedule
    <2> QED BY <1>2, <1>6, <1>7, <2>1, <2>2, <2>3 DEF SchedTypes
  <1>18. OneRuns'
    <2>1. \A p \in Procs : state'[p] = "RUNNING" <=> p = current'
      BY <1>1, <1>2, <1>6, <1>7, <1>9 DEF AtSchedule
    <2>2. state'[Idle] \in {"RUNNING", "RUNNABLE"}
      BY <1>7, ProcsFacts DEF AtSchedule
    <2>3. timeCount'[current'] = Quantum
      BY <1>2, <1>6 DEF AtSchedule
    <2> QED BY <1>0, <2>1, <2>2, <2>3 DEF OneRuns
  <1>19. FrameOfCurrent'
    BY <1>6, <1>9 DEF FrameOfCurrent, AtSchedule
  <1> QED
    BY <1>11, <1>12, <1>13, <1>14, <1>15, <1>16, <1>17, <1>18, <1>19
       DEF SchedInv, ListInv, In, InOf

(* schedule() puts the preempted process behind the others and takes the   *)
(* first: nobody overtakes anybody.                                        *)
LEMMA ScheduleKeepsOrder ==
  ASSUME NEW st, NEW tc, NEW sl, NEW rq, NEW bq,
         AtSchedule(st, tc, sl, rq, bq), Schedule(st, tc, sl, rq, bq)
  PROVE  KeepsOrder(rq, runnable_list')
  <1> DEFINE back == st[current] = "RUNNING" /\ current # Idle
             queue == IF back THEN list_add(rq, current) ELSE rq
  <1>1. Lists(Pcbs, rq, InOf(st, "RUNNABLE")) /\ (back => current \in Pcbs)
    BY ProcsFacts DEF AtSchedule
  <1>2. /\ Lists(Pcbs, queue, ToSet(queue))
        /\ ToSet(rq) \subseteq ToSet(queue)
        /\ KeepsOrder(rq, queue)
    <2>1. CASE back
      <3>1. current \in Pcbs \ InOf(st, "RUNNABLE")
        BY <1>1, <2>1 DEF InOf
      <3>2. Lists(Pcbs, list_add(rq, current), InOf(st, "RUNNABLE") \cup {current})
        BY <1>1, <3>1, ListsAdd
      <3>3. KeepsOrder(rq, list_add(rq, current))
        BY <1>1, <2>1, OrderOfAdd DEF Lists
      <3> QED BY <1>1, <2>1, <3>2, <3>3 DEF Lists
    <2>2. CASE ~back
      BY <1>1, <2>2, OrderOfNone DEF Lists
    <2> QED BY <2>1, <2>2
  <1>3. runnable_list' = IF rq # << >> THEN list_delete(queue, list_head(queue)) ELSE rq
    BY DEF Schedule
  <1>4. CASE rq = << >>
    BY <1>3, <1>4, OrderOfNone
  <1>5. CASE rq # << >>
    <2>1. queue # << >>
      BY <1>1, <1>2, <1>5, ListsEmpty DEF Lists
    <2>2. KeepsOrder(queue, runnable_list')
      BY <1>2, <1>3, <1>5, <2>1, OrderOfHead DEF Lists
    <2> QED BY <1>2, <2>2, OrderOfTwo
  <1> QED BY <1>4, <1>5

-----------------------------------------------------------------------------
(* A handler that touches nothing of the scheduler's. *)
LEMMA SchedUnchanged ==
  ASSUME SchedInv, UNCHANGED schedVars
  PROVE  SchedInv' /\ In("DEAD")' = In("DEAD")
  BY DEF SchedInv, SchedTypes, ListInv, Lists, OneRuns, FrameOfCurrent, In, schedVars

(* p_num is still right when no process starts or exits. *)
LEMMA CountUnchanged ==
  ASSUME CountInv, UNCHANGED p_num, In("DEAD")' = In("DEAD")
  PROVE  CountInv'
  BY DEF CountInv, CountsProcesses

(* A failed assertion changes nothing but panic. *)
LEMMA PanicKeeps ==
  ASSUME IInv, NEW why \in Panics, Panic(why)
  PROVE  IInv'
  <1>1. SchedInv' /\ In("DEAD")' = In("DEAD")
    BY SchedUnchanged DEF IInv, Panic
  <1>2. CountInv'
    BY <1>1, CountUnchanged DEF IInv, Panic
  <1>3. OtherTypes'
    BY DEF IInv, OtherTypes, Panic, semVars, inputVars
  <1> QED BY <1>1, <1>2, <1>3 DEF IInv

(* initPcb and preparePCB establish the invariant. *)
LEMMA InitIInv == Init => IInv
  <1> SUFFICES ASSUME Init PROVE IInv
    OBVIOUS
  <1> USE ConstantsAssumption DEF ConstantsAssumption
  <1>1. SchedTypes /\ OneRuns /\ FrameOfCurrent
    BY ProcsFacts DEF Init, SchedTypes, OneRuns, FrameOfCurrent, States, Idle, Pcb0
  <1>2. In("RUNNABLE") = {1} /\ In("BLOCKED") = {} /\ In("DEAD") = Pcbs \ {1}
    BY ProcsFacts DEF Init, In, Procs, Idle
  <1>3. Lists(Pcbs, runnable_list, {1})
    BY ProcsFacts DEF Init, Lists, NoRepeats, IsInjective, ToSet
  <1>4. Lists(Pcbs, free_list, Pcbs \ {1})
    <2>1. /\ MaxPcb - 2 \in Nat
          /\ free_list = [i \in 1 .. MaxPcb - 2 |-> i + 1]
          /\ \A i \in 1 .. MaxPcb - 2 : i + 1 \in Pcbs \ {1}
      BY DEF Init, Pcbs
    <2>2. free_list \in Seq(Pcbs) /\ DOMAIN free_list = 1 .. MaxPcb - 2
      BY <2>1, IsASeq
    <2>3. ASSUME NEW p \in Pcbs \ {1}
          PROVE  p - 1 \in DOMAIN free_list /\ free_list[p - 1] = p
      BY <2>1, <2>2 DEF Pcbs
    <2> QED BY <2>1, <2>2, <2>3, SMTT(60) DEF Lists, NoRepeats, IsInjective, ToSet
  <1>5. ListInv
    BY <1>2, <1>3, <1>4, ListsEmpty DEF Init, ListInv, Lists
  <1>6. CountInv
    <2>1. Pcbs \ In("DEAD") = {1}
      BY <1>2, ProcsFacts
    <2>2. p_num = 2 /\ Cardinality({1}) = 1
      BY FS_Singleton DEF Init
    <2>3. Cardinality(Pcbs \ In("DEAD")) = 1
      BY <2>1, <2>2
    <2> QED BY <2>2, <2>3 DEF CountInv, CountsProcesses
  <1>7. OtherTypes
    <2>1. semlist \in [Refs -> BOOLEAN] /\ intr_nesting \in BOOLEAN
      BY Zenon DEF Init
    <2>2. /\ psem \in [Pcbs -> Refs \cup {Null}] /\ value \in [Refs -> Int]
          /\ want \in Nat /\ typed \in Nat /\ panic \in Panics
      BY DEF Init, Panics
    <2> QED BY <2>1, <2>2 DEF OtherTypes
  <1> QED BY <1>1, <1>5, <1>6, <1>7 DEF IInv, SchedInv
-----------------------------------------------------------------------------
(* exit, sleep and a wait that blocks: current gives up the CPU.           *)
LEMMA GiveUpCpuKeeps ==
  ASSUME SchedInv, current # Idle, NEW why \in {"DEAD", "BLOCKED", "SEM_BLOCKED"},
         NEW sl \in [Pcbs -> IntMin .. IntMax], GiveUpCpu(why, sl)
  PROVE  /\ SchedInv'
         /\ In("DEAD")' = IF why = "DEAD" THEN In("DEAD") \cup {current} ELSE In("DEAD")
         /\ In("SEM_BLOCKED")' = IF why = "SEM_BLOCKED" THEN In("SEM_BLOCKED") \cup {current}
                                 ELSE In("SEM_BLOCKED")
         /\ KeepsOrder(runnable_list, runnable_list')
  <1> DEFINE st == [state EXCEPT ![current] = why]
  <1>1. /\ current \in Procs /\ current \in Pcbs
        /\ st \in [Procs -> States]
        /\ \A p \in Procs : st[p] = IF p = current THEN why ELSE state[p]
        /\ state[current] = "RUNNING"
    BY ProcsFacts DEF SchedInv, SchedTypes, OneRuns, States
  <1> HIDE DEF st
  <1>2. /\ InOf(st, "RUNNABLE") = In("RUNNABLE")
        /\ InOf(st, "BLOCKED") \ {current} = In("BLOCKED")
        /\ InOf(st, "DEAD") \ {current} = In("DEAD")
        /\ In("SEM_BLOCKED") = InOf(st, "SEM_BLOCKED") \ {current}
        /\ InOf(st, "DEAD") = IF why = "DEAD" THEN In("DEAD") \cup {current} ELSE In("DEAD")
        /\ InOf(st, "SEM_BLOCKED") = IF why = "SEM_BLOCKED"
                                     THEN In("SEM_BLOCKED") \cup {current}
                                     ELSE In("SEM_BLOCKED")
    BY <1>1, ProcsFacts DEF InOf, In
  <1>3. /\ \A p \in Procs : st[p] = "RUNNING" => p = current
        /\ st[current] # "RUNNABLE"
        /\ st[Idle] = IF current = Idle THEN "RUNNING" ELSE "RUNNABLE"
    BY <1>1, ProcsFacts DEF SchedInv, OneRuns
  <1>4. AtSchedule(st, timeCount, sl, runnable_list, blocked_list)
    BY <1>1, <1>2, <1>3 DEF AtSchedule, SchedInv, SchedTypes, ListInv, FrameOfCurrent
  <1>5. Schedule(st, timeCount, sl, runnable_list, blocked_list)
    BY DEF GiveUpCpu, st
  <1> QED BY <1>2, <1>4, <1>5, ScheduleKeeps, ScheduleKeepsOrder

(* exit: current becomes DEAD, and p_num counts one process less. *)
LEMMA ExitKeeps == ASSUME IInv, Exit PROVE IInv'
  <1>1. SchedInv' /\ In("DEAD")' = In("DEAD") \cup {current}
    BY GiveUpCpuKeeps DEF Exit, InUser, IInv, SchedInv, SchedTypes
  <1>2. OtherTypes'
    BY DEF IInv, OtherTypes, Exit, semVars, inputVars
  <1>3. current \in Pcbs \ In("DEAD")
    BY ProcsFacts DEF Exit, InUser, IInv, SchedInv, SchedTypes, OneRuns, In
  <1> DEFINE Live == Pcbs \ In("DEAD")
  <1>4. IsFiniteSet(Live) /\ Cardinality(Live) \in Nat
    BY ProcsFacts, FS_Subset, FS_CardinalityType
  <1>5. (Pcbs \ In("DEAD"))' = Live \ {current}
    BY <1>1 DEF Pcbs
  <1>6. Cardinality(Live \ {current}) = Cardinality(Live) - 1
    BY <1>3, <1>4, FS_RemoveElement
  <1>7. CountInv'
    <2>1. p_num \in Int /\ p_num = 1 + Cardinality(Live) /\ p_num' = p_num - 1
      BY DEF IInv, CountInv, CountsProcesses, Exit
    <2>2. Cardinality(Pcbs \ In("DEAD"))' = Cardinality(Live) - 1
      BY <1>5, <1>6
    <2> HIDE DEF Live
    <2> QED BY <1>4, <2>1, <2>2 DEF CountInv, CountsProcesses
  <1> QED BY <1>1, <1>2, <1>7 DEF IInv

(* sleep: the set of DEAD processes, and so p_num, stays. *)
LEMMA SleepKeeps == ASSUME IInv, NEW time \in SleepTimes, Sleep(time) PROVE IInv'
  <1>1. [sleepTime EXCEPT ![current] = time] \in [Pcbs -> IntMin .. IntMax]
    BY ConstantsAssumption DEF ConstantsAssumption, IInv, SchedInv, SchedTypes
  <1>2. SchedInv' /\ In("DEAD")' = In("DEAD")
    BY <1>1, GiveUpCpuKeeps DEF Sleep, InUser, IInv
  <1>3. OtherTypes'
    BY DEF IInv, OtherTypes, Sleep, semVars, inputVars
  <1>4. CountInv'
    BY <1>2, CountUnchanged DEF IInv, Sleep
  <1> QED BY <1>2, <1>3, <1>4 DEF IInv

(* sem_wait: the caller passes, blocks, or the kernel stops. *)
LEMMA SemWaitKeeps == ASSUME IInv, NEW s \in Sems, SemWait(s) PROVE IInv'
  <1> DEFINE ref == <<"father", s>>
             v == value[ref] - 1
  <1>1. ref \in Refs /\ [value EXCEPT ![ref] = v] \in [Refs -> Int]
    BY DEF Refs, IInv, OtherTypes
  <1>2. CASE /\ value' = [value EXCEPT ![ref] = v]
             /\ UNCHANGED <<schedVars, psem, semlist, inputVars, p_num, panic>>
    <2>1. SchedInv' /\ In("DEAD")' = In("DEAD")
      BY <1>2, SchedUnchanged DEF IInv
    <2>2. OtherTypes'
      BY <1>1, <1>2 DEF IInv, OtherTypes, inputVars
    <2>3. CountInv'
      BY <1>2, <2>1, CountUnchanged DEF IInv
    <2> QED BY <2>1, <2>2, <2>3 DEF IInv
  <1>3. CASE /\ value' = [value EXCEPT ![ref] = v]
             /\ GiveUpCpu("SEM_BLOCKED", sleepTime)
             /\ UNCHANGED <<psem, semlist, inputVars, p_num, panic>>
    <2>1. SchedInv' /\ In("DEAD")' = In("DEAD")
      BY <1>3, GiveUpCpuKeeps DEF IInv, SchedInv, SchedTypes, SemWait, InUser
    <2>2. OtherTypes'
      BY <1>1, <1>3 DEF IInv, OtherTypes, inputVars
    <2>3. CountInv'
      BY <1>3, <2>1, CountUnchanged DEF IInv
    <2> QED BY <2>1, <2>2, <2>3 DEF IInv
  <1>4. CASE Panic("wild")
    BY <1>4, PanicKeeps DEF Panics
  <1> QED BY <1>2, <1>3, <1>4 DEF SemWait
-----------------------------------------------------------------------------
(* fork: the PCB it takes leaves the free list, where only DEAD ones are, *)
(* and joins the runnable list.                                            *)
LEMMA ForkKeeps == ASSUME IInv, Fork PROVE IInv'
  <1>1. CASE Panic("list_delete")
    BY <1>1, PanicKeeps DEF Panics
  <1>2. CASE ~Panic("list_delete")
    <2>1. /\ OnList(free_list, p_num)
          /\ free_list' = list_delete(free_list, p_num)
          /\ state' = [state EXCEPT ![p_num] = "RUNNABLE"]
          /\ timeCount' = [timeCount EXCEPT ![p_num] = Quantum]
          /\ sleepTime' = [sleepTime EXCEPT ![p_num] = 0]
          /\ psem' = [psem EXCEPT ![p_num] = psem[current]]
          /\ value' = [r \in Refs |-> value[<<"father", r[2]>>]]
          /\ semlist' = [r \in Refs |-> semlist[<<"father", r[2]>>]]
          /\ runnable_list' = list_add(runnable_list, p_num)
          /\ p_num' = p_num + 1
          /\ current # Idle
          /\ UNCHANGED <<current, blocked_list, dummysem, esp0, inputVars, panic>>
      BY <1>2 DEF Fork, InUser
    <2>2. p_num \in In("DEAD") /\ p_num \in Pcbs /\ p_num \in Procs
      BY <2>1, OnListProperties, ProcsFacts DEF IInv, SchedInv, ListInv, Lists, In
    <2>3. p_num # current /\ current \in Pcbs /\ p_num # Idle
      BY <2>1, <2>2, ProcsFacts DEF IInv, SchedInv, SchedTypes, OneRuns, In
    <2>4. state' \in [Procs -> States]
          /\ \A p \in Procs : state'[p] = IF p = p_num THEN "RUNNABLE" ELSE state[p]
      BY <2>1 DEF IInv, SchedInv, SchedTypes, States
    <2>5. SchedTypes'
      <3>1. 0 \in IntMin .. IntMax /\ Quantum \in 0 .. Quantum
        BY ConstantsAssumption DEF ConstantsAssumption
      <3>2. timeCount' \in [Procs -> 0 .. Quantum]
        BY <2>1, <3>1 DEF IInv, SchedInv, SchedTypes
      <3>3. sleepTime' \in [Pcbs -> IntMin .. IntMax]
        BY <2>1, <3>1 DEF IInv, SchedInv, SchedTypes
      <3> QED BY <2>1, <2>4, <3>2, <3>3 DEF IInv, SchedInv, SchedTypes
    <2>6. /\ In("RUNNABLE")' = In("RUNNABLE") \cup {p_num}
          /\ In("BLOCKED")' = In("BLOCKED")
          /\ In("DEAD")' = In("DEAD") \ {p_num}
          /\ In("SEM_BLOCKED")' = In("SEM_BLOCKED")
      BY <2>2, <2>4, ProcsFacts DEF In
    <2>7. ListInv'
      <3>1. Lists(Pcbs, free_list', In("DEAD") \ {p_num})
        BY <2>1, <2>2, ListsDelete DEF IInv, SchedInv, ListInv
      <3>2. p_num \in Pcbs \ In("RUNNABLE")
        BY <2>2 DEF In
      <3>3. Lists(Pcbs, runnable_list', In("RUNNABLE") \cup {p_num})
        BY <2>1, <3>2, ListsAdd DEF IInv, SchedInv, ListInv
      <3> QED BY <2>1, <2>6, <3>1, <3>3 DEF IInv, SchedInv, ListInv, Lists
    <2>8. OneRuns' /\ FrameOfCurrent'
      BY <2>1, <2>3, <2>4, ProcsFacts
         DEF IInv, SchedInv, SchedTypes, OneRuns, FrameOfCurrent
    <2>9. OtherTypes'
      <3>1. \A r \in Refs : <<"father", r[2]>> \in Refs
        BY DEF Refs
      <3>2. value' \in [Refs -> Int]
        BY <2>1, <3>1 DEF IInv, OtherTypes
      <3>3. semlist' \in [Refs -> BOOLEAN]
        BY <2>1, <3>1, Zenon DEF IInv, OtherTypes
      <3>4. psem' \in [Pcbs -> Refs \cup {Null}]
        BY <2>1, <2>3 DEF IInv, OtherTypes
      <3> QED BY <2>1, <3>2, <3>3, <3>4 DEF IInv, OtherTypes, inputVars
    <2>10. CountInv'
      <3> DEFINE Live == Pcbs \ In("DEAD")
      <3>1. IsFiniteSet(Live) /\ Cardinality(Live) \in Nat
        BY ProcsFacts, FS_Subset, FS_CardinalityType
      <3>2. (Pcbs \ In("DEAD"))' = Live \cup {p_num} /\ p_num \notin Live
        BY <2>2, <2>6 DEF Pcbs
      <3>3. Cardinality(Live \cup {p_num}) = Cardinality(Live) + 1
        BY <3>1, <3>2, FS_AddElement
      <3>4. p_num \in Int /\ p_num = 1 + Cardinality(Live) /\ p_num' = p_num + 1
        BY <2>1 DEF IInv, CountInv, CountsProcesses
      <3>5. Cardinality(Pcbs \ In("DEAD"))' = Cardinality(Live) + 1
        BY <3>2, <3>3
      <3> HIDE DEF Live
      <3> QED BY <3>1, <3>4, <3>5 DEF CountInv, CountsProcesses
    <2> QED BY <2>5, <2>7, <2>8, <2>9, <2>10 DEF IInv, SchedInv
  <1> QED BY <1>1, <1>2

(* sem_init: emptying the waiters' list breaks no list's agreement. *)
LEMMA SemInitKeeps ==
  ASSUME IInv, NEW s \in Sems, NEW v \in InitValues, SemInit(s, v)
  PROVE  IInv'
  <1> DEFINE ref == <<IF current = 2 THEN "child" ELSE "father", s>>
  <1>1. ref \in Refs /\ v \in Int
    BY ConstantsAssumption DEF ConstantsAssumption, Refs
  <1>2. SchedInv' /\ In("DEAD")' = In("DEAD")
    <2>1. Lists(Pcbs, dummysem', {}) /\ ToSet(dummysem') = {}
      BY ListsEmpty DEF SemInit, Lists
    <2> QED BY <2>1 DEF IInv, SchedInv, SchedTypes, ListInv, Lists, OneRuns,
                        FrameOfCurrent, In, SemInit
  <1>3. OtherTypes'
    <2>1. semlist' \in [Refs -> BOOLEAN]
      <3>1. semlist' = [semlist EXCEPT ![ref] = TRUE]
        BY DEF SemInit
      <3> HIDE DEF ref
      <3> QED BY <3>1, Zenon DEF IInv, OtherTypes
    <2> QED BY <1>1, <2>1 DEF IInv, OtherTypes, SemInit, inputVars
  <1>4. CountInv'
    BY <1>2, CountUnchanged DEF IInv, SemInit
  <1> QED BY <1>2, <1>3, <1>4 DEF IInv

(* sem_destroy touches psem only. *)
LEMMA SemDestroyKeeps == ASSUME IInv, SemDestroy PROVE IInv'
  <1>1. SchedInv' /\ In("DEAD")' = In("DEAD")
    BY SchedUnchanged DEF IInv, SemDestroy
  <1>2. OtherTypes'
    BY DEF IInv, OtherTypes, SemDestroy, inputVars
  <1>3. CountInv'
    BY <1>1, CountUnchanged DEF IInv, SemDestroy
  <1> QED BY <1>1, <1>2, <1>3 DEF IInv

(* sem_post: the first waiter goes from the waiters to the runnable list. *)
LEMMA SemPostKeeps == ASSUME IInv, NEW s \in Sems, SemPost(s) PROVE IInv'
  <1> DEFINE ref == <<"father", s>>
             p == list_head(dummysem)
  <1>1. ref \in Refs /\ [value EXCEPT ![ref] = value[ref] + 1] \in [Refs -> Int]
    BY DEF Refs, IInv, OtherTypes
  <1>2. CASE /\ value' = [value EXCEPT ![ref] = value[ref] + 1]
             /\ UNCHANGED <<schedVars, psem, semlist, inputVars, p_num, panic>>
    <2>1. SchedInv' /\ In("DEAD")' = In("DEAD")
      BY <1>2, SchedUnchanged DEF IInv
    <2>2. OtherTypes'
      BY <1>1, <1>2 DEF IInv, OtherTypes, inputVars
    <2>3. CountInv'
      BY <1>2, <2>1, CountUnchanged DEF IInv
    <2> QED BY <2>1, <2>2, <2>3 DEF IInv
  <1>3. CASE /\ dummysem # << >>
             /\ value' = [value EXCEPT ![ref] = value[ref] + 1]
             /\ dummysem' = list_delete(dummysem, p)
             /\ state' = [state EXCEPT ![p] = "RUNNABLE"]
             /\ runnable_list' = list_add(runnable_list, p)
             /\ UNCHANGED <<current, timeCount, sleepTime, blocked_list, free_list,
                            esp0, psem, semlist, inputVars, p_num, panic>>
    <2>1. /\ p \in ToSet(dummysem) /\ p \in Pcbs /\ p \in Procs /\ p # Idle
          /\ state[p] = "SEM_BLOCKED" /\ p # current
      BY <1>3, ListsHead, ProcsFacts DEF IInv, SchedInv, SchedTypes, ListInv, OneRuns, In
    <2> HIDE DEF p
    <2>2. /\ state' \in [Procs -> States]
          /\ \A q \in Procs : state'[q] = IF q = p THEN "RUNNABLE" ELSE state[q]
      BY <1>3 DEF IInv, SchedInv, SchedTypes, States
    <2>3. /\ In("RUNNABLE")' = In("RUNNABLE") \cup {p}
          /\ In("BLOCKED")' = In("BLOCKED")
          /\ In("DEAD")' = In("DEAD")
          /\ In("SEM_BLOCKED")' = In("SEM_BLOCKED") \ {p}
      BY <2>1, <2>2, ProcsFacts DEF In
    <2>4. ListInv'
      <3>1. Lists(Pcbs, dummysem', ToSet(dummysem) \ {p})
        BY <1>3, <2>1, ListsDelete DEF IInv, SchedInv, ListInv
      <3>2. p \in Pcbs \ In("RUNNABLE")
        BY <2>1 DEF In
      <3>3. Lists(Pcbs, runnable_list', In("RUNNABLE") \cup {p})
        BY <1>3, <3>2, ListsAdd DEF IInv, SchedInv, ListInv
      <3> QED BY <1>3, <2>3, <3>1, <3>3 DEF IInv, SchedInv, ListInv, Lists
    <2>5. SchedTypes' /\ OneRuns' /\ FrameOfCurrent'
      BY <1>3, <2>1, <2>2, ProcsFacts
         DEF IInv, SchedInv, SchedTypes, OneRuns, FrameOfCurrent
    <2>6. OtherTypes'
      BY <1>1, <1>3 DEF IInv, OtherTypes, inputVars
    <2>7. CountInv'
      BY <1>3, <2>3, CountUnchanged DEF IInv
    <2> QED BY <2>4, <2>5, <2>6, <2>7 DEF IInv, SchedInv
  <1>4. CASE Panic("list_head") \/ Panic("wild")
    BY <1>4, PanicKeeps DEF Panics
  <1> QED BY <1>2, <1>3, <1>4 DEF SemPost, WaitersLeft

(* Reads of stdin, and the keyboard, leave the scheduler alone. *)
LEMMA InputKeeps ==
  ASSUME IInv,
         \/ \E len \in ReadSizes : ReadStdin(len)
         \/ FinishRead
         \/ Keyboard
  PROVE  IInv'
  <1>1. SchedInv' /\ In("DEAD")' = In("DEAD")
    BY SchedUnchanged DEF IInv, ReadStdin, FinishRead, Keyboard
  <1>2. intr_nesting' \in BOOLEAN
    BY Zenon DEF ReadStdin, FinishRead, Keyboard, IInv, OtherTypes
  <1>3. want' \in Nat /\ typed' \in Nat
    <2>1. CASE \E len \in ReadSizes : ReadStdin(len)
      <3>1. PICK len \in ReadSizes : ReadStdin(len)
        BY <2>1
      <3>2. len \in Nat
        BY ConstantsAssumption DEF ConstantsAssumption
      <3> QED BY <3>1, <3>2 DEF ReadStdin, IInv, OtherTypes
    <2>2. CASE FinishRead \/ Keyboard
      BY <2>2 DEF FinishRead, Keyboard, IInv, OtherTypes
    <2> QED BY <2>1, <2>2
  <1>4. OtherTypes'
    BY <1>2, <1>3 DEF ReadStdin, FinishRead, Keyboard, IInv, OtherTypes, semVars
  <1>5. CountInv'
    BY <1>1, CountUnchanged DEF IInv, ReadStdin, FinishRead, Keyboard
  <1> QED BY <1>1, <1>4, <1>5 DEF IInv

-----------------------------------------------------------------------------
(* The timer: the table it hands to schedule(), or leaves when the slice   *)
(* is not over, has the woken sleepers on the runnable list.  The timer    *)
(* leaves the dead and the waiters alone.                                  *)
LEMMA TimerKeeps ==
  ASSUME IInv, Timer
  PROVE  /\ IInv'
         /\ In("DEAD")' = In("DEAD") /\ In("SEM_BLOCKED")' = In("SEM_BLOCKED")
         /\ dummysem' = dummysem
         /\ KeepsOrder(runnable_list, runnable_list')
  <1> DEFINE W == {p \in Pcbs : OnList(blocked_list, p) /\ TimeIsUp(Dec(sleepTime[p]))}
             tc == [timeCount EXCEPT ![current] = @ - 1]
             sl == [p \in Pcbs |-> IF OnList(blocked_list, p) THEN Dec(sleepTime[p])
                                   ELSE sleepTime[p]]
             st == [p \in Procs |-> IF p \in W THEN "RUNNABLE" ELSE state[p]]
             rq == runnable_list \o Keep(blocked_list, W)
             bq == Keep(blocked_list, Pcbs \ W)
  <1>1. /\ IF tc[current] = 0
           THEN Schedule(st, tc, sl, rq, bq)
           ELSE /\ state' = st /\ timeCount' = tc /\ sleepTime' = sl
                /\ runnable_list' = rq /\ blocked_list' = bq
                /\ UNCHANGED <<current, free_list, dummysem, esp0>>
        /\ UNCHANGED <<semVars, inputVars, p_num, panic>>
    BY DEF Timer
  <1>2. W \subseteq In("BLOCKED") /\ current \notin W /\ W \subseteq Pcbs
    BY OnListProperties DEF IInv, SchedInv, ListInv, Lists, OneRuns, SchedTypes, In
  <1>3. sl \in [Pcbs -> IntMin .. IntMax]
    <2>1. \A n \in IntMin .. IntMax : Dec(n) \in IntMin .. IntMax
      BY ConstantsAssumption DEF ConstantsAssumption, Dec
    <2> QED BY <2>1 DEF IInv, SchedInv, SchedTypes
  <1>4. /\ tc \in [Procs -> 0 .. Quantum]
        /\ current \in Procs /\ timeCount[current] \in 1 .. Quantum
        /\ tc[current] = timeCount[current] - 1
    BY ConstantsAssumption
       DEF ConstantsAssumption, IInv, SchedInv, SchedTypes, OneRuns
  <1> HIDE DEF W, sl, tc
  <1>5. /\ st \in [Procs -> States]
        /\ \A p \in Procs : st[p] = IF p \in W THEN "RUNNABLE" ELSE state[p]
    BY DEF IInv, SchedInv, SchedTypes, States
  <1> HIDE DEF st
  <1>6. /\ InOf(st, "RUNNABLE") = In("RUNNABLE") \cup W
        /\ InOf(st, "BLOCKED") = In("BLOCKED") \ W
        /\ InOf(st, "DEAD") = In("DEAD")
        /\ InOf(st, "SEM_BLOCKED") = In("SEM_BLOCKED")
    BY <1>2, <1>5, ProcsFacts DEF InOf, In
  <1>7. Lists(Pcbs, rq, InOf(st, "RUNNABLE"))
    <2>1. Lists(Pcbs, Keep(blocked_list, W), In("BLOCKED") \cap W)
      BY ListsKeep DEF IInv, SchedInv, ListInv
    <2>2. In("BLOCKED") \cap W = W /\ In("RUNNABLE") \cap W = {}
      BY <1>2 DEF In
    <2>3. Lists(Pcbs, rq, In("RUNNABLE") \cup W)
      BY <2>1, <2>2, ListsConcat DEF IInv, SchedInv, ListInv
    <2> QED BY <1>6, <2>3
  <1>7a. /\ KeepsOrder(runnable_list, rq)
         /\ ToSet(runnable_list) \subseteq ToSet(rq)
    <2>1. runnable_list \in Seq(Pcbs) /\ Keep(blocked_list, W) \in Seq(Pcbs)
      BY ListsKeep DEF IInv, SchedInv, ListInv, Lists
    <2>2. KeepsOrder(runnable_list, rq)
      BY <2>1, OrderOfConcat
    <2> QED BY <1>6, <1>7, <2>2 DEF Lists, IInv, SchedInv, ListInv
  <1>8. Lists(Pcbs, bq, InOf(st, "BLOCKED"))
    <2>1. Lists(Pcbs, bq, In("BLOCKED") \cap (Pcbs \ W))
      BY ListsKeep DEF IInv, SchedInv, ListInv
    <2>2. In("BLOCKED") \cap (Pcbs \ W) = In("BLOCKED") \ W
      BY DEF In
    <2> QED BY <1>6, <2>1, <2>2
  <1> HIDE DEF rq, bq
  <1>9. /\ \A p \in Procs : st[p] = "RUNNING" <=> p = current
        /\ st[Idle] \in {"RUNNING", "RUNNABLE"}
    BY <1>2, <1>5, ProcsFacts DEF IInv, SchedInv, OneRuns
  <1>10. /\ SchedInv'
         /\ In("DEAD")' = In("DEAD") /\ In("SEM_BLOCKED")' = In("SEM_BLOCKED")
         /\ KeepsOrder(rq, runnable_list')
    <2>1. CASE tc[current] = 0
      <3>1. /\ InOf(st, "BLOCKED") \ {current} = InOf(st, "BLOCKED")
            /\ InOf(st, "DEAD") \ {current} = InOf(st, "DEAD")
            /\ InOf(st, "SEM_BLOCKED") \ {current} = InOf(st, "SEM_BLOCKED")
        BY <1>4, <1>9 DEF InOf
      <3>2. /\ st[current] # "RUNNABLE"
            /\ st[Idle] = IF current = Idle THEN "RUNNING" ELSE "RUNNABLE"
        BY <1>4, <1>9, ProcsFacts
      <3>3. AtSchedule(st, tc, sl, rq, bq)
        BY <1>3, <1>4, <1>5, <1>6, <1>7, <1>8, <1>9, <3>1, <3>2, ZenonT(60)
           DEF AtSchedule, IInv, SchedInv, SchedTypes, ListInv, FrameOfCurrent
      <3> QED BY <1>1, <1>6, <2>1, <3>3, ScheduleKeeps, ScheduleKeepsOrder
    <2>2. CASE tc[current] # 0
      <3>1. \A status : In(status)' = InOf(st, status)
        BY <1>1, <2>2 DEF In, InOf, Pcbs
      <3>2. SchedTypes'
        BY <1>1, <1>3, <1>4, <1>5, <2>2 DEF IInv, SchedInv, SchedTypes
      <3>3. ListInv'
        BY <1>1, <1>6, <1>7, <1>8, <2>2, <3>1 DEF IInv, SchedInv, ListInv
      <3>4. OneRuns' /\ FrameOfCurrent'
        BY <1>1, <1>4, <1>9, <2>2 DEF IInv, SchedInv, OneRuns, FrameOfCurrent
      <3>5. KeepsOrder(rq, runnable_list')
        BY <1>1, <2>2, OrderOfNone
      <3> QED BY <1>6, <3>1, <3>2, <3>3, <3>4, <3>5 DEF SchedInv
    <2> QED BY <2>1, <2>2
  <1>11. OtherTypes' /\ CountInv'
    BY <1>1, <1>10, CountUnchanged DEF IInv, OtherTypes, semVars, inputVars
  <1>12. dummysem' = dummysem
    BY <1>1, <1>4, <1>9 DEF Schedule
  <1>13. KeepsOrder(runnable_list, runnable_list')
    BY <1>10, <1>7a, OrderOfTwo
  <1> QED BY <1>10, <1>11, <1>12, <1>13 DEF IInv

-----------------------------------------------------------------------------
(* Every step preserves the invariant. *)
LEMMA NextKeeps == IInv /\ [Next]_vars => IInv'
  <1> SUFFICES ASSUME IInv, [Next]_vars PROVE IInv'
    OBVIOUS
  <1>1. CASE Timer
    BY <1>1, TimerKeeps
  <1>2. CASE Fork
    BY <1>2, ForkKeeps
  <1>3. CASE Exit
    BY <1>3, ExitKeeps
  <1>4. CASE SemDestroy
    BY <1>4, SemDestroyKeeps
  <1>5. CASE \E time \in SleepTimes : Sleep(time)
    BY <1>5, SleepKeeps
  <1>6. ASSUME NEW s \in Sems, SemWait(s) \/ SemPost(s) \/ \E v \in InitValues : SemInit(s, v)
        PROVE  IInv'
    BY <1>6, SemWaitKeeps, SemPostKeeps, SemInitKeeps
  <1>7. CASE Keyboard \/ FinishRead \/ \E len \in ReadSizes : ReadStdin(len)
    BY <1>7, InputKeeps
  <1>8. CASE Fault
    BY <1>8, PanicKeeps DEF Fault, Panics
  <1>9. CASE Halted \/ UNCHANGED vars
    <2>1. UNCHANGED vars
      BY <1>9 DEF Halted
    <2>2. SchedInv' /\ In("DEAD")' = In("DEAD")
      BY <2>1, SchedUnchanged DEF IInv, vars
    <2>3. CountInv'
      BY <2>1, <2>2, CountUnchanged DEF IInv, vars
    <2> QED BY <2>1, <2>2, <2>3 DEF IInv, OtherTypes, vars, semVars, inputVars
  <1> QED BY <1>1, <1>2, <1>3, <1>4, <1>5, <1>6, <1>7, <1>8, <1>9 DEF Next, Syscall

(***************************************************************************)
(* The inductive invariant holds in every reachable state.                 *)
(***************************************************************************)
THEOREM Inductive == Spec => []IInv
  BY InitIInv, NextKeeps, PTL DEF Spec

(***************************************************************************)
(* Every field keeps its C type; in particular no time slice is ever       *)
(* charged below 0 and no fork takes a PCB outside the table.              *)
(***************************************************************************)
THEOREM TypeCorrect == Spec => []TypeOK
  BY Inductive, IInvImplies, PTL

(***************************************************************************)
(* In every reachable state each PCB is on the list its state names, once, *)
(* and on no other: the precondition under which list.c's pointer code     *)
(* keeps its chains apart.                                                 *)
(***************************************************************************)
THEOREM ListsAgreeWithStates == Spec => []OnListOfState
  BY Inductive, IInvImplies, PTL

(***************************************************************************)
(* One process runs, the one current names, with time left in its slice.   *)
(***************************************************************************)
THEOREM RunningProcess == Spec => []OneRuns
  BY Inductive, IInvImplies, PTL

(***************************************************************************)
(* The CPU saves the current process's frame where the assertions of       *)
(* timerHandle and syscallHandle look for it.                              *)
(***************************************************************************)
THEOREM FrameIsCurrents == Spec => []FrameOfCurrent
  BY Inductive, IInvImplies, PTL

(***************************************************************************)
(* p_num counts the processes, in whatever order they are forked and exit. *)
(***************************************************************************)
THEOREM PNumCounts == Spec => []CountsProcesses
  BY Inductive, IInvImplies, PTL

-----------------------------------------------------------------------------
(* No step lets anybody overtake on the runnable list. *)
LEMMA NextKeepsOrder ==
  ASSUME IInv, [Next]_vars
  PROVE  KeepsOrder(runnable_list, runnable_list')
  <1>1. runnable_list \in Seq(Pcbs) /\ current \in Procs
    BY DEF IInv, SchedInv, SchedTypes, ListInv, Lists
  <1>2. CASE UNCHANGED runnable_list
    BY <1>2, OrderOfNone
  <1>3. CASE Timer
    BY <1>3, TimerKeeps
  <1>4. CASE Fork
    <2>1. CASE OnList(free_list, p_num)
      <3>1. p_num \in Pcbs
        BY <2>1, OnListProperties DEF IInv, SchedInv, ListInv, Lists, In
      <3> QED BY <1>1, <1>4, <2>1, <3>1, OrderOfAdd DEF Fork
    <2>2. CASE ~OnList(free_list, p_num)
      BY <1>2, <1>4, <2>2 DEF Fork, Panic, schedVars
    <2> QED BY <2>1, <2>2
  <1>5. CASE Exit
    BY <1>5, GiveUpCpuKeeps DEF Exit, InUser, IInv, SchedInv, SchedTypes
  <1>6. ASSUME NEW time \in SleepTimes, Sleep(time)
        PROVE  KeepsOrder(runnable_list, runnable_list')
    <2>1. [sleepTime EXCEPT ![current] = time] \in [Pcbs -> IntMin .. IntMax]
      BY ConstantsAssumption DEF ConstantsAssumption, IInv, SchedInv, SchedTypes
    <2> QED BY <1>6, <2>1, GiveUpCpuKeeps DEF Sleep, InUser, IInv
  <1>7. ASSUME NEW s \in Sems, SemWait(s)
        PROVE  KeepsOrder(runnable_list, runnable_list')
    <2>1. UNCHANGED runnable_list \/ GiveUpCpu("SEM_BLOCKED", sleepTime)
      BY <1>7 DEF SemWait, Panic, schedVars
    <2>2. current # Idle /\ sleepTime \in [Pcbs -> IntMin .. IntMax]
      BY <1>7 DEF SemWait, InUser, IInv, SchedInv, SchedTypes
    <2> QED BY <1>2, <2>1, <2>2, GiveUpCpuKeeps DEF IInv
  <1>8. ASSUME NEW s \in Sems, SemPost(s)
        PROVE  KeepsOrder(runnable_list, runnable_list')
    <2>1. \/ UNCHANGED runnable_list
          \/ /\ dummysem # << >>
             /\ runnable_list' = list_add(runnable_list, list_head(dummysem))
      BY <1>8 DEF SemPost, Panic, schedVars
    <2>2. dummysem # << >> => list_head(dummysem) \in Pcbs
      BY ListsHead DEF IInv, SchedInv, ListInv
    <2> QED BY <1>1, <1>2, <2>1, <2>2, OrderOfAdd
  <1>9. \/ UNCHANGED runnable_list \/ Timer \/ Fork \/ Exit
        \/ \E time \in SleepTimes : Sleep(time)
        \/ \E s \in Sems : SemWait(s) \/ SemPost(s)
    BY DEF Next, Syscall, Keyboard, FinishRead, Fault, Halted, SemDestroy, SemInit,
           ReadStdin, Panic, vars, schedVars
  <1> QED BY <1>2, <1>3, <1>4, <1>5, <1>6, <1>7, <1>8, <1>9

(***************************************************************************)
(* The runnable list is first come, first served, whatever the timer, the  *)
(* forks, the wake-ups and the preemptions do.                             *)
(***************************************************************************)
THEOREM NobodyOvertakes == Spec => FirstComeFirstServed
  <1>1. IInv /\ IInv' /\ [Next]_vars => KeepsItsPlace
    <2> SUFFICES ASSUME IInv, IInv', [Next]_vars PROVE KeepsItsPlace
      OBVIOUS
    <2>1. /\ \A p : OnList(runnable_list, p) <=> p \in ToSet(runnable_list)
          /\ \A p : OnList(runnable_list', p) <=> p \in ToSet(runnable_list')
      BY OnListProperties DEF IInv, SchedInv, ListInv, Lists, Pcbs
    <2> QED BY <2>1, NextKeepsOrder DEF KeepsItsPlace, KeepsOrder
  <1> QED BY <1>1, Inductive, PTL DEF Spec, FirstComeFirstServed

-----------------------------------------------------------------------------
(***************************************************************************)
(* Processes.tla under the discipline: no waiter is lost, the values of    *)
(* the semaphores account for the waiters, the kernel never stops, and one *)
(* semaphore is the abstract one of Semaphore.tla.  All of it holds for    *)
(* every number of PCBs, time slice and set of arguments, and for any      *)
(* number of semaphores, infinitely many included.                         *)
(***************************************************************************)

(* The youngest process exits first, so the free slots are those from      *)
(* p_num on, and fork takes the first of them.                             *)
SlotsInOrder ==
  /\ p_num \in 1 .. MaxPcb
  /\ In("DEAD") = p_num .. MaxPcb - 1

(* Nobody is SEM_BLOCKED off the list. *)
WaitersListed == ToSet(dummysem) = In("SEM_BLOCKED")

(* psem names an initialised semaphore in the father's memory, and only an *)
(* initialised semaphore has waiters.                                      *)
Initialised ==
  /\ \A p \in Pcbs : psem[p] # Null => psem[p][1] = "father" /\ semlist[psem[p]]
  /\ \A s \in Sems : value[<<"father", s>>] < 0 => semlist[<<"father", s>>]

(* There are as many waiters as promises. *)
Accounted == IsFiniteSet(Promised) /\ WaitersAccounted

DInv == IInv /\ SlotsInOrder /\ WaitersListed /\ Initialised /\ Accounted /\ Up

(* The inductive invariant is at least as strong as the three it is made for. *)
LEMMA DInvImplies == DInv => NoWaiterLost /\ WaitersAccounted /\ NeverPanics
  <1> SUFFICES ASSUME DInv PROVE NoWaiterLost
    BY DEF DInv, Accounted, NeverPanics
  <1>1. dummysem \in Seq(Pcbs)
    BY DEF DInv, IInv, SchedInv, ListInv, Lists
  <1> QED BY <1>1, OnListProperties DEF DInv, WaitersListed, NoWaiterLost, In

-----------------------------------------------------------------------------
(* Only the semaphores in the father's memory make promises. *)
LEMMA PromisedUnchanged ==
  ASSUME \A s \in Sems : value'[<<"father", s>>] = value[<<"father", s>>]
  PROVE  Promised' = Promised
  BY DEF Promised

(* The decrement of P makes a promise when it leaves the value negative,   *)
(* and none otherwise.                                                     *)
LEMMA Decremented ==
  ASSUME value \in [Refs -> Int], NEW s \in Sems,
         value' = [value EXCEPT ![<<"father", s>>] = value[<<"father", s>>] - 1]
  PROVE  LET v == value[<<"father", s>>] - 1
         IN  IF v < 0
             THEN Promised' = Promised \cup {<<s, -v>>} /\ <<s, -v>> \notin Promised
             ELSE Promised' = Promised
  <1> DEFINE old(t) == value[<<"father", t>>]
             v == old(s) - 1
  <1>1. /\ \A t \in Sems : old(t) \in Int /\ old(t)' = IF t = s THEN v ELSE old(t)
        /\ v \in Int /\ old(s) = v + 1
    BY DEF Refs
  <1>2. /\ Promised = UNION {{t} \X (1 .. -old(t)) : t \in Sems}
        /\ Promised' = UNION {{t} \X (1 .. -old(t)') : t \in Sems}
    BY DEF Promised
  <1> HIDE DEF old, v
  <1>3. CASE v < 0
    <2>1. 1 .. -v = (1 .. -(v + 1)) \cup {-v} /\ -v \notin 1 .. -(v + 1)
      BY <1>1, <1>3
    <2>2. <<s, -v>> \notin Promised
      BY <1>1, <1>2, <2>1
    <2>3. ASSUME NEW t, NEW k
          PROVE  <<t, k>> \in Promised' <=> <<t, k>> \in Promised \cup {<<s, -v>>}
      <3>1. CASE t = s
        BY <1>1, <1>2, <2>1, <3>1
      <3>2. CASE t # s
        BY <1>1, <1>2, <3>2
      <3> QED BY <3>1, <3>2
    <2>4. \A x \in Promised \cup Promised' : x = <<x[1], x[2]>>
      BY <1>2
    <2>5. Promised' = Promised \cup {<<s, -v>>}
      BY <2>3, <2>4
    <2> QED BY <1>3, <2>2, <2>5 DEF v, old
  <1>4. CASE ~(v < 0)
    <2>1. 1 .. -v = {} /\ 1 .. -(v + 1) = {}
      BY <1>1, <1>4
    <2>2. \A t \in Sems : 1 .. -old(t)' = 1 .. -old(t)
      BY <1>1, <2>1
    <2>3. Promised' = Promised
      BY <1>2, <2>2
    <2> QED BY <1>4, <2>3 DEF v, old
  <1> QED BY <1>3, <1>4

(* The increment of V keeps one promise when the value was negative, and   *)
(* makes or keeps none otherwise.                                          *)
LEMMA Incremented ==
  ASSUME value \in [Refs -> Int], NEW s \in Sems,
         value' = [value EXCEPT ![<<"father", s>>] = value[<<"father", s>>] + 1]
  PROVE  LET v == value[<<"father", s>>]
         IN  IF v < 0
             THEN Promised' = Promised \ {<<s, -v>>} /\ <<s, -v>> \in Promised
             ELSE Promised' = Promised
  <1> DEFINE old(t) == value[<<"father", t>>]
             v == old(s)
  <1>1. /\ \A t \in Sems : old(t) \in Int /\ old(t)' = IF t = s THEN v + 1 ELSE old(t)
        /\ v \in Int /\ old(s) = v
    BY DEF Refs
  <1>2. /\ Promised = UNION {{t} \X (1 .. -old(t)) : t \in Sems}
        /\ Promised' = UNION {{t} \X (1 .. -old(t)') : t \in Sems}
    BY DEF Promised
  <1> HIDE DEF old, v
  <1>3. CASE v < 0
    <2>1. 1 .. -(v + 1) = (1 .. -v) \ {-v} /\ -v \in 1 .. -v
      BY <1>1, <1>3
    <2>2. <<s, -v>> \in Promised
      BY <1>1, <1>2, <2>1
    <2>3. ASSUME NEW t, NEW k
          PROVE  <<t, k>> \in Promised' <=> <<t, k>> \in Promised \ {<<s, -v>>}
      <3>1. CASE t = s
        BY <1>1, <1>2, <2>1, <3>1
      <3>2. CASE t # s
        BY <1>1, <1>2, <3>2
      <3> QED BY <3>1, <3>2
    <2>4. \A x \in Promised \cup Promised' : x = <<x[1], x[2]>>
      BY <1>2
    <2>5. Promised' = Promised \ {<<s, -v>>}
      BY <2>3, <2>4
    <2> QED BY <1>3, <2>2, <2>5 DEF v, old
  <1>4. CASE ~(v < 0)
    <2>1. 1 .. -v = {} /\ 1 .. -(v + 1) = {}
      BY <1>1, <1>4
    <2>2. \A t \in Sems : 1 .. -old(t)' = 1 .. -old(t)
      BY <1>1, <2>1
    <2>3. Promised' = Promised
      BY <1>2, <2>2
    <2> QED BY <1>4, <2>3 DEF v, old
  <1> QED BY <1>3, <1>4

-----------------------------------------------------------------------------
(* kEntry starts with one process, no semaphore and no waiter. *)
LEMMA InitDInv == Init => DInv
  <1> SUFFICES ASSUME Init PROVE DInv
    OBVIOUS
  <1>1. SlotsInOrder
    <2>1. MaxPcb \in Nat /\ MaxPcb >= 2
      BY ConstantsAssumption DEF ConstantsAssumption
    <2>2. \A p \in Pcbs : state[p] = "DEAD" <=> p # 1
      BY ProcsFacts DEF Init
    <2>3. In("DEAD") = Pcbs \ {1}
      BY <2>2 DEF In
    <2>4. Pcbs \ {1} = 2 .. MaxPcb - 1 /\ 2 \in 1 .. MaxPcb
      BY <2>1 DEF Pcbs
    <2>5. p_num = 2
      BY DEF Init
    <2> QED BY <2>3, <2>4, <2>5 DEF SlotsInOrder
  <1>2. WaitersListed /\ Initialised
    <2>1. In("SEM_BLOCKED") = {}
      BY ProcsFacts DEF Init, In
    <2>2. \A s \in Sems : value[<<"father", s>>] = 0
      BY DEF Init, Refs
    <2> QED BY <2>1, <2>2 DEF Init, WaitersListed, Initialised, ToSet
  <1>3. Accounted
    <2>1. \A s \in Sems : 1 .. -value[<<"father", s>>] = {}
      BY DEF Init, Refs
    <2>2. Promised = {}
      BY <2>1 DEF Promised
    <2> QED BY <2>2, FS_EmptySet DEF Init, Accounted, WaitersAccounted
  <1> QED BY <1>1, <1>2, <1>3, InitIInv DEF DInv, Init, Up

(* Nobody joins or leaves the waiters, and no value changes. *)
WaitersUntouched ==
  /\ UNCHANGED dummysem /\ In("SEM_BLOCKED")' = In("SEM_BLOCKED")
  /\ \A s \in Sems : value'[<<"father", s>>] = value[<<"father", s>>]

(* A step that neither starts nor ends a process, and touches no waiter    *)
(* and no semaphore.                                                       *)
LEMMA QuietKeeps ==
  ASSUME DInv, IInv', UNCHANGED <<semVars, p_num, panic>>,
         In("DEAD")' = In("DEAD"), WaitersUntouched
  PROVE  DInv'
  <1>1. SlotsInOrder' /\ WaitersListed' /\ Initialised' /\ Up'
    BY DEF DInv, SlotsInOrder, WaitersListed, Initialised, Up, semVars, WaitersUntouched
  <1>2. Accounted'
    <2>1. Promised' = Promised
      BY PromisedUnchanged DEF WaitersUntouched
    <2> QED BY <2>1 DEF DInv, Accounted, WaitersAccounted, WaitersUntouched
  <1> QED BY <1>1, <1>2 DEF DInv

(* fork finds pcb[p_num] on the free list, and both copies of a semaphore  *)
(* have the father's value.                                                *)
LEMMA ForkDisciplined == ASSUME Disciplined, DInv, Fork PROVE DInv' /\ WaitersUntouched
  <1>1. IInv' /\ p_num \in Pcbs /\ OnList(free_list, p_num)
    <2>1. p_num \in In("DEAD") /\ p_num \in Pcbs
      BY ConstantsAssumption
         DEF ConstantsAssumption, DInv, SlotsInOrder, Fork, Rule, Pcbs, In
    <2> QED BY <2>1, ForkKeeps, OnListProperties DEF DInv, IInv, SchedInv, ListInv, Lists
  <1>2. /\ state' = [state EXCEPT ![p_num] = "RUNNABLE"]
        /\ psem' = [psem EXCEPT ![p_num] = psem[current]]
        /\ value' = [r \in Refs |-> value[<<"father", r[2]>>]]
        /\ semlist' = [r \in Refs |-> semlist[<<"father", r[2]>>]]
        /\ p_num' = p_num + 1
        /\ current # Idle
        /\ UNCHANGED <<dummysem, panic>>
    BY <1>1 DEF Fork, InUser
  <1>3. \A p \in Pcbs : state'[p] = IF p = p_num THEN "RUNNABLE" ELSE state[p]
    BY <1>2, ProcsFacts DEF DInv, IInv, SchedInv, SchedTypes
  <1>4. SlotsInOrder' /\ WaitersListed' /\ In("SEM_BLOCKED")' = In("SEM_BLOCKED")
    <2>1. p_num \in 1 .. MaxPcb - 1 /\ MaxPcb \in Nat
      BY <1>1, ConstantsAssumption DEF ConstantsAssumption, Pcbs
    <2>2. In("DEAD")' = In("DEAD") \ {p_num}
      BY <1>3 DEF In
    <2>3. state[p_num] = "DEAD"
      BY <1>1, <2>1 DEF DInv, SlotsInOrder, In
    <2>4. In("SEM_BLOCKED")' = In("SEM_BLOCKED")
      BY <1>3, <2>3 DEF In
    <2>5. (p_num .. MaxPcb - 1) \ {p_num} = p_num + 1 .. MaxPcb - 1 /\ p_num + 1 \in 1 .. MaxPcb
      BY <2>1
    <2> QED BY <1>2, <2>2, <2>4, <2>5 DEF DInv, SlotsInOrder, WaitersListed
  <1>5. /\ \A s \in Sems : value'[<<"father", s>>] = value[<<"father", s>>]
        /\ \A s \in Sems : semlist'[<<"father", s>>] = semlist[<<"father", s>>]
    BY <1>2 DEF Refs
  <1>6. Initialised'
    <2>1. current \in Pcbs
      BY <1>2, ProcsFacts DEF DInv, IInv, SchedInv, SchedTypes
    <2>2. \A p \in Pcbs : psem'[p] = IF p = p_num THEN psem[current] ELSE psem[p]
      BY <1>2 DEF DInv, IInv, OtherTypes
    <2>3. ASSUME NEW p \in Pcbs, psem'[p] # Null
          PROVE  psem'[p][1] = "father" /\ semlist'[psem'[p]]
      <3>1. PICK q \in Pcbs : psem'[p] = psem[q]
        BY <2>1, <2>2
      <3>2. psem[q] \in Refs /\ psem[q][1] = "father" /\ semlist[psem[q]]
        BY <2>3, <3>1 DEF DInv, IInv, OtherTypes, Initialised
      <3>3. PICK s \in Sems : psem[q] = <<"father", s>>
        BY <3>2 DEF Refs
      <3> QED BY <1>5, <3>1, <3>2, <3>3
    <2> QED BY <1>5, <2>3 DEF DInv, Initialised
  <1>7. Accounted'
    <2>1. Promised' = Promised
      BY <1>5, PromisedUnchanged
    <2> QED BY <1>2, <2>1 DEF DInv, Accounted, WaitersAccounted
  <1> QED BY <1>1, <1>2, <1>4, <1>5, <1>6, <1>7 DEF DInv, Up, WaitersUntouched

(* exit of the youngest process frees the slot below p_num. *)
LEMMA ExitDisciplined == ASSUME Disciplined, DInv, Exit PROVE DInv' /\ WaitersUntouched
  <1>1. /\ In("DEAD")' = In("DEAD") \cup {current}
        /\ In("SEM_BLOCKED")' = In("SEM_BLOCKED")
    BY GiveUpCpuKeeps DEF Exit, InUser, DInv, IInv, SchedInv, SchedTypes
  <1>2. /\ IInv' /\ current = p_num - 1 /\ p_num' = p_num - 1 /\ current \in Pcbs
        /\ UNCHANGED <<semVars, panic>>
    BY ExitKeeps, ProcsFacts DEF Exit, InUser, Rule, DInv, IInv, SchedInv, SchedTypes
  <1>3. dummysem' = dummysem
    BY <1>2, ProcsFacts DEF Exit, GiveUpCpu, Schedule, DInv, IInv, SchedInv, SchedTypes
  <1>4. SlotsInOrder' /\ WaitersListed'
    <2>1. MaxPcb \in Nat /\ p_num \in 1 .. MaxPcb /\ p_num - 1 \in 1 .. MaxPcb - 1
      BY <1>2, ConstantsAssumption DEF ConstantsAssumption, DInv, SlotsInOrder, Pcbs
    <2>2. (p_num .. MaxPcb - 1) \cup {p_num - 1} = p_num - 1 .. MaxPcb - 1
      BY <2>1
    <2>3. p_num - 1 \in 1 .. MaxPcb
      BY <2>1
    <2> QED BY <1>1, <1>2, <1>3, <2>2, <2>3 DEF DInv, SlotsInOrder, WaitersListed
  <1>5. Initialised' /\ Up'
    BY <1>2 DEF DInv, Initialised, Up, semVars
  <1>6. Accounted'
    <2>1. Promised' = Promised
      BY <1>2, PromisedUnchanged DEF semVars
    <2> QED BY <1>3, <2>1 DEF DInv, Accounted, WaitersAccounted
  <1> QED BY <1>1, <1>2, <1>3, <1>4, <1>5, <1>6 DEF DInv, WaitersUntouched, semVars

(* sleep concerns no waiter. *)
LEMMA SleepDisciplined ==
  ASSUME DInv, NEW time \in SleepTimes, Sleep(time)
  PROVE  DInv' /\ WaitersUntouched
  <1>1. [sleepTime EXCEPT ![current] = time] \in [Pcbs -> IntMin .. IntMax]
    BY ConstantsAssumption DEF ConstantsAssumption, DInv, IInv, SchedInv, SchedTypes
  <1>2. In("DEAD")' = In("DEAD") /\ In("SEM_BLOCKED")' = In("SEM_BLOCKED")
    BY <1>1, GiveUpCpuKeeps DEF Sleep, InUser, DInv, IInv
  <1>3. dummysem' = dummysem
    BY ProcsFacts DEF Sleep, InUser, GiveUpCpu, Schedule, DInv, IInv, SchedInv, SchedTypes
  <1>4. WaitersUntouched
    BY <1>2, <1>3 DEF Sleep, semVars, WaitersUntouched
  <1> QED BY <1>2, <1>4, QuietKeeps, SleepKeeps DEF Sleep, DInv

(* sem_destroy makes a process forget its semaphore. *)
LEMMA SemDestroyDisciplined == ASSUME DInv, SemDestroy PROVE DInv' /\ WaitersUntouched
  <1>1. IInv' /\ UNCHANGED <<schedVars, value, semlist, p_num, panic>>
    BY SemDestroyKeeps DEF SemDestroy, DInv
  <1>2. In("DEAD")' = In("DEAD") /\ In("SEM_BLOCKED")' = In("SEM_BLOCKED")
    BY <1>1 DEF In, schedVars
  <1>3. SlotsInOrder' /\ WaitersListed' /\ Up'
    BY <1>1, <1>2 DEF DInv, SlotsInOrder, WaitersListed, Up, schedVars
  <1>4. Initialised'
    <2>1. \A p \in Pcbs : psem'[p] \in {Null, psem[p]}
      BY DEF SemDestroy, DInv, IInv, OtherTypes
    <2> QED BY <1>1, <2>1 DEF DInv, Initialised
  <1>5. Accounted'
    <2>1. Promised' = Promised
      BY <1>1, PromisedUnchanged
    <2> QED BY <1>1, <2>1 DEF DInv, Accounted, WaitersAccounted, schedVars
  <1> QED BY <1>1, <1>2, <1>3, <1>4, <1>5 DEF DInv, WaitersUntouched, schedVars

-----------------------------------------------------------------------------
(* Nobody waits exactly when no value is negative. *)
LEMMA NobodyWaits ==
  ASSUME DInv
  PROVE  dummysem = << >> <=> \A s \in Sems : value[<<"father", s>>] >= 0
  <1>1. dummysem \in Seq(Pcbs) /\ \A s \in Sems : value[<<"father", s>>] \in Int
    BY DEF DInv, IInv, SchedInv, ListInv, Lists, OtherTypes, Refs
  <1>2. Promised = {} <=> \A s \in Sems : value[<<"father", s>>] >= 0
    <2>1. ASSUME NEW s \in Sems
          PROVE  value[<<"father", s>>] >= 0 <=> 1 .. -value[<<"father", s>>] = {}
      <3>1. value[<<"father", s>>] < 0 => 1 \in 1 .. -value[<<"father", s>>]
        BY <1>1
      <3> QED BY <1>1, <3>1, SMTT(60)
    <2>2. ASSUME Promised = {}, NEW s \in Sems
          PROVE  1 .. -value[<<"father", s>>] = {}
      <3>1. \A n \in 1 .. -value[<<"father", s>>] : <<s, n>> \in Promised
        BY DEF Promised
      <3> QED BY <2>2, <3>1
    <2>3. ASSUME \A s \in Sems : 1 .. -value[<<"father", s>>] = {}
          PROVE  Promised = {}
      BY <2>3 DEF Promised
    <2> QED BY <2>1, <2>2, <2>3
  <1>3. Promised = {} <=> Len(dummysem) = 0
    BY FS_EmptySet DEF DInv, Accounted, WaitersAccounted
  <1> QED BY <1>1, <1>2, <1>3, EmptySeq

(* sem_init under the discipline: no promise is broken. *)
LEMMA SemInitDisciplined ==
  ASSUME Disciplined, DInv, NEW s \in Sems, NEW v \in InitValues, SemInit(s, v)
  PROVE  DInv'
  <1>1. /\ IInv'
        /\ v >= 0 /\ v \in Int /\ dummysem = << >> /\ dummysem' = << >>
        /\ current \in Pcbs
        /\ psem' = [psem EXCEPT ![current] = <<"father", s>>]
        /\ value' = [value EXCEPT ![<<"father", s>>] = v]
        /\ semlist' = [semlist EXCEPT ![<<"father", s>>] = TRUE]
        /\ UNCHANGED <<state, p_num, panic>>
    BY ConstantsAssumption, SemInitKeeps, ProcsFacts
       DEF ConstantsAssumption, SemInit, Rule, InUser, DInv, IInv, SchedInv, SchedTypes
  <1>2. /\ <<"father", s>> \in Refs
        /\ \A t \in Sems : /\ <<"father", t>> \in Refs
                            /\ value[<<"father", t>>] \in Int /\ value[<<"father", t>>] >= 0
    BY <1>1, NobodyWaits DEF DInv, IInv, OtherTypes, Refs
  <1>3. \A t \in Sems : value'[<<"father", t>>] \in Nat
    <2>1. v \in Nat /\ \A t \in Sems : value[<<"father", t>>] \in Nat
      BY <1>1, <1>2
    <2>2. \A r \in Refs : value'[r] = IF r = <<"father", s>> THEN v ELSE value[r]
      BY <1>1 DEF DInv, IInv, OtherTypes
    <2> QED BY <1>2, <2>1, <2>2
  <1>4. \A r \in Refs : semlist[r] => semlist'[r]
    BY <1>1 DEF DInv, IInv, OtherTypes
  <1>5. Initialised'
    <2>1. semlist'[<<"father", s>>]
      BY <1>1, <1>2 DEF DInv, IInv, OtherTypes
    <2>2. \A p \in Pcbs : psem'[p] = IF p = current THEN <<"father", s>> ELSE psem[p]
      BY <1>1 DEF DInv, IInv, OtherTypes
    <2>3. ASSUME NEW p \in Pcbs, psem'[p] # Null
          PROVE  psem'[p][1] = "father" /\ semlist'[psem'[p]]
      <3>1. CASE p = current
        BY <2>1, <2>2, <3>1
      <3>2. CASE p # current
        BY <1>4, <2>2, <2>3, <3>2 DEF DInv, Initialised, IInv, OtherTypes
      <3> QED BY <3>1, <3>2
    <2>4. \A t \in Sems : ~(value'[<<"father", t>>] < 0)
      <3>1. \A n \in Nat : ~(n < 0)
        OBVIOUS
      <3> QED BY <1>3, <3>1
    <2> QED BY <2>3, <2>4 DEF Initialised
  <1>6. Accounted'
    <2>1. \A n \in Nat : 1 .. -n = {}
      OBVIOUS
    <2>2. Promised' = {}
      BY <1>3, <2>1 DEF Promised
    <2>3. IsFiniteSet(Promised') /\ Cardinality(Promised') = 0
      BY <2>2, FS_EmptySet
    <2>4. Len(dummysem') = 0
      BY <1>1
    <2> QED BY <2>3, <2>4 DEF Accounted, WaitersAccounted
  <1>7. SlotsInOrder' /\ WaitersListed' /\ Up'
    BY <1>1 DEF DInv, SlotsInOrder, WaitersListed, Up, In
  <1> QED BY <1>1, <1>5, <1>6, <1>7 DEF DInv

(* P: the caller joins the waiters when the decrement makes a promise, and *)
(* passes otherwise.  Its psem leads to the waiters' list.                 *)
LEMMA WaitEffects ==
  ASSUME Disciplined, DInv, NEW s \in Sems, SemWait(s)
  PROVE  LET v == value[<<"father", s>>] - 1
         IN  /\ value' = [value EXCEPT ![<<"father", s>>] = v]
             /\ semlist[<<"father", s>>]
             /\ current \in Pcbs \ In("SEM_BLOCKED")
             /\ UNCHANGED <<psem, semlist, p_num, panic>>
             /\ In("DEAD")' = In("DEAD")
             /\ IF v < 0
                THEN /\ dummysem' = list_add(dummysem, current)
                     /\ In("SEM_BLOCKED")' = In("SEM_BLOCKED") \cup {current}
                ELSE UNCHANGED dummysem /\ In("SEM_BLOCKED")' = In("SEM_BLOCKED")
  <1> DEFINE v == value[<<"father", s>>] - 1
  <1>1. /\ current \in Pcbs \ In("SEM_BLOCKED") /\ current # Idle
        /\ semlist[<<"father", s>>] /\ psem[current] # Null
    BY ProcsFacts DEF SemWait, InUser, Rule, DInv, IInv, SchedInv, SchedTypes, OneRuns, In
  <1>2. psem[current] \in {r \in Refs : semlist[r]}
    BY <1>1 DEF DInv, Initialised, IInv, OtherTypes
  <1>3. value' = [value EXCEPT ![<<"father", s>>] = v] /\ UNCHANGED <<psem, semlist, p_num, panic>>
    BY <1>2 DEF SemWait
  <1>4. CASE ~(v < 0)
    <2>1. UNCHANGED schedVars
      BY <1>4 DEF SemWait, MustWait
    <2>2. \A status : In(status)' = In(status)
      BY <2>1 DEF In, schedVars
    <2> QED BY <1>1, <1>3, <1>4, <2>1, <2>2 DEF schedVars
  <1>5. CASE v < 0
    <2>1. GiveUpCpu("SEM_BLOCKED", sleepTime)
      BY <1>2, <1>5 DEF SemWait, MustWait
    <2>2. In("DEAD")' = In("DEAD") /\ In("SEM_BLOCKED")' = In("SEM_BLOCKED") \cup {current}
      BY <1>1, <2>1, GiveUpCpuKeeps DEF DInv, IInv, SchedInv, SchedTypes
    <2>3. dummysem' = list_add(dummysem, current)
      BY <1>1, <2>1, ProcsFacts DEF GiveUpCpu, Schedule, DInv, IInv, SchedInv, SchedTypes
    <2> QED BY <1>1, <1>3, <1>5, <2>2, <2>3
  <1> QED BY <1>4, <1>5

(* V: when the value is negative somebody waits, and the first of them     *)
(* leaves the list.                                                        *)
LEMMA PostEffects ==
  ASSUME DInv, NEW s \in Sems, SemPost(s)
  PROVE  LET v == value[<<"father", s>>]
         IN  /\ value' = [value EXCEPT ![<<"father", s>>] = v + 1]
             /\ UNCHANGED <<psem, semlist, p_num, panic>>
             /\ In("DEAD")' = In("DEAD")
             /\ IF v < 0
                THEN /\ dummysem # << >>
                     /\ dummysem' = Tail(dummysem)
                     /\ In("SEM_BLOCKED")' = In("SEM_BLOCKED") \ {Head(dummysem)}
                ELSE UNCHANGED dummysem /\ In("SEM_BLOCKED")' = In("SEM_BLOCKED")
  <1> DEFINE v == value[<<"father", s>>]
  <1>1. CASE ~(v < 0)
    <2>1. /\ value' = [value EXCEPT ![<<"father", s>>] = v + 1]
          /\ UNCHANGED <<schedVars, psem, semlist, p_num, panic>>
      BY <1>1 DEF SemPost, SomeoneWaits
    <2>2. \A status : In(status)' = In(status)
      BY <2>1 DEF In, schedVars
    <2> QED BY <1>1, <2>1, <2>2 DEF schedVars
  <1>2. CASE v < 0
    <2>1. dummysem # << >> /\ semlist[<<"father", s>>]
      <3>1. v \in Int
        BY DEF DInv, IInv, OtherTypes, Refs
      <3>2. dummysem # << >>
        BY <1>2, <3>1, NobodyWaits
      <3> QED BY <1>2, <3>2 DEF DInv, Initialised
    <2>2. /\ value' = [value EXCEPT ![<<"father", s>>] = v + 1]
          /\ dummysem' = list_delete(dummysem, list_head(dummysem))
          /\ state' = [state EXCEPT ![list_head(dummysem)] = "RUNNABLE"]
          /\ UNCHANGED <<psem, semlist, p_num, panic>>
      BY <1>2, <2>1 DEF SemPost, SomeoneWaits, WaitersLeft
    <2>3. dummysem' = Tail(dummysem)
      BY <2>1, <2>2, DeleteHead DEF DInv, IInv, SchedInv, ListInv, Lists
    <2>4. list_head(dummysem) \in Pcbs /\ state[list_head(dummysem)] = "SEM_BLOCKED"
      BY <2>1, ListsHead DEF DInv, IInv, SchedInv, ListInv, In
    <2>5. \A p \in Pcbs : state'[p] = IF p = list_head(dummysem) THEN "RUNNABLE" ELSE state[p]
      BY <2>2, ProcsFacts DEF DInv, IInv, SchedInv, SchedTypes
    <2>6. /\ In("DEAD")' = In("DEAD")
          /\ In("SEM_BLOCKED")' = In("SEM_BLOCKED") \ {list_head(dummysem)}
      BY <2>4, <2>5 DEF In
    <2> QED BY <1>2, <2>1, <2>2, <2>3, <2>6 DEF list_head
  <1> QED BY <1>1, <1>2

(* A value that falls below 0 and a process that waits come together. *)
LEMMA SemWaitDisciplined == ASSUME Disciplined, DInv, NEW s \in Sems, SemWait(s) PROVE DInv'
  <1> DEFINE v == value[<<"father", s>>] - 1
             promise == <<s, -v>>
  <1>1. /\ value' = [value EXCEPT ![<<"father", s>>] = v]
        /\ semlist[<<"father", s>>]
        /\ current \in Pcbs \ In("SEM_BLOCKED")
        /\ UNCHANGED <<psem, semlist, p_num, panic>>
        /\ In("DEAD")' = In("DEAD")
        /\ IF v < 0
           THEN /\ dummysem' = list_add(dummysem, current)
                /\ In("SEM_BLOCKED")' = In("SEM_BLOCKED") \cup {current}
           ELSE UNCHANGED dummysem /\ In("SEM_BLOCKED")' = In("SEM_BLOCKED")
    BY WaitEffects
  <1>2. /\ IInv' /\ value \in [Refs -> Int]
        /\ dummysem \in Seq(Pcbs) /\ ToSet(dummysem) = In("SEM_BLOCKED")
    BY SemWaitKeeps DEF DInv, IInv, OtherTypes, SchedInv, ListInv, Lists, WaitersListed
  <1>3. IF v < 0 THEN Promised' = Promised \cup {promise} /\ promise \notin Promised
        ELSE Promised' = Promised
    BY <1>1, <1>2, Decremented
  <1>4. \A t \in Sems : value'[<<"father", t>>] < 0 => semlist'[<<"father", t>>]
    <2>1. \A t \in Sems : t # s => value'[<<"father", t>>] = value[<<"father", t>>]
      BY <1>1, <1>2 DEF Refs
    <2> QED BY <1>1, <2>1 DEF DInv, Initialised
  <1> HIDE DEF v, promise
  <1>5. SlotsInOrder' /\ Initialised' /\ Up'
    BY <1>1, <1>4 DEF DInv, SlotsInOrder, Initialised, Up
  <1>6. CASE v < 0
    <2>1. WaitersListed'
      <3>1. ToSet(list_add(dummysem, current)) = ToSet(dummysem) \cup {current}
        BY <1>1, <1>2, AddProperties
      <3> QED BY <1>1, <1>2, <1>6, <3>1 DEF WaitersListed
    <2>2. Len(dummysem') = Len(dummysem) + 1
      BY <1>1, <1>2, <1>6, LenOfAdd
    <2>3. IsFiniteSet(Promised') /\ Cardinality(Promised') = Cardinality(Promised) + 1
      BY <1>3, <1>6, FS_AddElement DEF DInv, Accounted
    <2>4. Accounted'
      BY <2>2, <2>3 DEF DInv, Accounted, WaitersAccounted
    <2> QED BY <1>2, <1>5, <2>1, <2>4 DEF DInv
  <1>7. CASE ~(v < 0)
    BY <1>1, <1>2, <1>3, <1>5, <1>7 DEF DInv, Accounted, WaitersAccounted, WaitersListed
  <1> QED BY <1>6, <1>7

(* A value that rises from below 0 and a waiter that leaves come together. *)
LEMMA SemPostDisciplined == ASSUME DInv, NEW s \in Sems, SemPost(s) PROVE DInv'
  <1> DEFINE v == value[<<"father", s>>]
             promise == <<s, -v>>
  <1>1. /\ value' = [value EXCEPT ![<<"father", s>>] = v + 1]
        /\ UNCHANGED <<psem, semlist, p_num, panic>>
        /\ In("DEAD")' = In("DEAD")
        /\ IF v < 0
           THEN /\ dummysem # << >>
                /\ dummysem' = Tail(dummysem)
                /\ In("SEM_BLOCKED")' = In("SEM_BLOCKED") \ {Head(dummysem)}
           ELSE UNCHANGED dummysem /\ In("SEM_BLOCKED")' = In("SEM_BLOCKED")
    BY PostEffects
  <1>2. /\ IInv' /\ value \in [Refs -> Int]
        /\ dummysem \in Seq(Pcbs) /\ NoRepeats(dummysem)
        /\ ToSet(dummysem) = In("SEM_BLOCKED")
    BY SemPostKeeps DEF DInv, IInv, OtherTypes, SchedInv, ListInv, Lists, WaitersListed
  <1>3. IF v < 0 THEN Promised' = Promised \ {promise} /\ promise \in Promised
        ELSE Promised' = Promised
    BY <1>1, <1>2, Incremented
  <1>4. \A t \in Sems : value'[<<"father", t>>] < 0 => semlist'[<<"father", t>>]
    <2>1. \A t \in Sems : t # s => value'[<<"father", t>>] = value[<<"father", t>>]
      BY <1>1, <1>2 DEF Refs
    <2>2. v \in Int /\ value'[<<"father", s>>] = v + 1
      BY <1>1, <1>2 DEF Refs
    <2>3. value'[<<"father", s>>] < 0 => value[<<"father", s>>] < 0
      BY <2>2
    <2> QED BY <1>1, <2>1, <2>3 DEF DInv, Initialised
  <1> HIDE DEF v, promise
  <1>5. SlotsInOrder' /\ Initialised' /\ Up'
    BY <1>1, <1>4 DEF DInv, SlotsInOrder, Initialised, Up
  <1>6. CASE v < 0
    <2>1. WaitersListed'
      BY <1>1, <1>2, <1>6, HeadProperties DEF WaitersListed, list_head
    <2>2. Len(dummysem') = Len(dummysem) - 1
      BY <1>1, <1>2, <1>6, DeleteHead
    <2>3. IsFiniteSet(Promised') /\ Cardinality(Promised') = Cardinality(Promised) - 1
      BY <1>3, <1>6, FS_RemoveElement DEF DInv, Accounted
    <2>4. Accounted'
      BY <2>2, <2>3 DEF DInv, Accounted, WaitersAccounted
    <2> QED BY <1>2, <1>5, <2>1, <2>4 DEF DInv
  <1>7. CASE ~(v < 0)
    BY <1>1, <1>2, <1>3, <1>5, <1>7 DEF DInv, Accounted, WaitersAccounted, WaitersListed
  <1> QED BY <1>6, <1>7

(* What the timer, the keyboard, reads of stdin and idling leave alone. *)
LEMMA QuietSteps ==
  ASSUME DInv,
         \/ Timer \/ Keyboard \/ FinishRead \/ UNCHANGED vars
         \/ \E len \in ReadSizes : ReadStdin(len)
  PROVE  /\ UNCHANGED <<semVars, p_num, panic>>
         /\ In("DEAD")' = In("DEAD") /\ WaitersUntouched
  <1>1. CASE Timer
    BY <1>1, TimerKeeps DEF DInv, Timer, WaitersUntouched, semVars
  <1>2. CASE ~Timer
    <2>1. UNCHANGED <<schedVars, semVars, p_num, panic>>
      BY <1>2 DEF Keyboard, FinishRead, ReadStdin, vars
    <2> QED BY <2>1 DEF schedVars, semVars, In, WaitersUntouched
  <1> QED BY <1>1, <1>2

(* Every step of disciplined programs preserves the invariant. *)
LEMMA NextDisciplined == Disciplined /\ DInv /\ [Next]_vars => DInv'
  <1> SUFFICES ASSUME Disciplined, DInv, [Next]_vars PROVE DInv'
    OBVIOUS
  <1>1. CASE \/ Timer \/ Keyboard \/ FinishRead \/ UNCHANGED vars
             \/ \E len \in ReadSizes : ReadStdin(len)
    BY <1>1, QuietSteps, QuietKeeps, NextKeeps DEF DInv
  <1>2. CASE Fork
    BY <1>2, ForkDisciplined
  <1>3. CASE Exit
    BY <1>3, ExitDisciplined
  <1>4. CASE SemDestroy
    BY <1>4, SemDestroyDisciplined
  <1>5. CASE \E time \in SleepTimes : Sleep(time)
    BY <1>5, SleepDisciplined
  <1>6. ASSUME NEW s \in Sems, SemWait(s) \/ SemPost(s) \/ \E v \in InitValues : SemInit(s, v)
        PROVE  DInv'
    BY <1>6, SemWaitDisciplined, SemPostDisciplined, SemInitDisciplined
  <1>7. CASE Fault \/ Halted
    BY <1>7 DEF Fault, Rule, Halted, DInv
  <1> QED BY <1>1, <1>2, <1>3, <1>4, <1>5, <1>6, <1>7 DEF Next, Syscall

(***************************************************************************)
(* Disciplined programs keep the kernel within DInv.                       *)
(***************************************************************************)
THEOREM InductiveDiscipline ==
  ASSUME Disciplined
  PROVE  Spec => []DInv
  <1>1. Init => DInv
    BY InitDInv
  <1>2. DInv /\ [Next]_vars => DInv'
    BY NextDisciplined
  <1> QED BY <1>1, <1>2, PTL DEF Spec

(***************************************************************************)
(* A SEM_BLOCKED process is always on the list that V takes its processes  *)
(* from: no interleaving of waits, posts, forks, exits and preemptions     *)
(* loses one.                                                              *)
(***************************************************************************)
THEOREM WaitersStayListed ==
  ASSUME Disciplined
  PROVE  Spec => []NoWaiterLost
  BY InductiveDiscipline, DInvImplies, PTL

(***************************************************************************)
(* As many processes wait as the negative values of all semaphores say,    *)
(* though all of them share one list.                                      *)
(***************************************************************************)
THEOREM ValuesCountWaiters ==
  ASSUME Disciplined
  PROVE  Spec => []WaitersAccounted
  BY InductiveDiscipline, DInvImplies, PTL

(***************************************************************************)
(* No assertion of the kernel fails and no NULL list is followed.          *)
(***************************************************************************)
THEOREM KernelStaysUp ==
  ASSUME Disciplined
  PROVE  Spec => []NeverPanics
  BY InductiveDiscipline, DInvImplies, PTL

-----------------------------------------------------------------------------
(* While a program has one semaphore only, its value alone says how many   *)
(* wait: nobody, unless it is negative.                                    *)
LEMMA OneValueCounts ==
  ASSUME Sems # {}, DInv, OnlySemaphore
  PROVE  /\ value[TheSem] \in Int
         /\ dummysem = << >> <=> value[TheSem] >= 0
  <1>1. TheSem \in Refs /\ \E t \in Sems : TheSem = <<"father", t>>
    BY DEF TheSem, Refs
  <1>2. \A s \in Sems : value[<<"father", s>>] \in Int
    BY DEF DInv, IInv, OtherTypes, Refs
  <1>3. \A s \in Sems : <<"father", s>> # TheSem => ~(value[<<"father", s>>] < 0)
    BY DEF OnlySemaphore, DInv, Initialised
  <1>4. \A s \in Sems : <<"father", s>> # TheSem => value[<<"father", s>>] >= 0
    BY <1>2, <1>3
  <1> QED BY <1>1, <1>2, <1>4, NobodyWaits

(* No step makes a semaphore uninitialised. *)
LEMMA StaysInitialised ==
  ASSUME Disciplined, DInv, [Next]_vars, NEW s \in Sems, semlist[<<"father", s>>]
  PROVE  semlist'[<<"father", s>>]
  <1>1. /\ semlist \in [Refs -> BOOLEAN]
        /\ \A t \in Sems : <<"father", t>> \in Refs
    BY DEF DInv, IInv, OtherTypes, Refs
  <1>2. CASE UNCHANGED semlist
    BY <1>2
  <1>3. CASE Fork
    BY <1>1, <1>3 DEF Fork, Panic, semVars
  <1>4. ASSUME NEW t \in Sems, NEW v \in InitValues, SemInit(t, v)
        PROVE  semlist'[<<"father", s>>]
    BY <1>1, <1>4 DEF SemInit
  <1>5. \/ UNCHANGED semlist \/ Fork
        \/ \E t \in Sems, v \in InitValues : SemInit(t, v)
    BY DEF Next, Syscall, Timer, Keyboard, FinishRead, Fault, Halted, Exit, SemDestroy,
           Sleep, SemWait, SemPost, ReadStdin, Panic, vars, semVars
  <1> QED BY <1>2, <1>3, <1>4, <1>5

(* Every step of the kernel is a step of the abstract semaphore, or none.  *)
LEMMA OneSemaphoreStep ==
  ASSUME Disciplined, Sems # {}, DInv, [Next]_vars, OnlySemaphore'
  PROVE  [OneSemaphore!Next]_(OneSemaphore!vars)
  <1> DEFINE v == value[TheSem]
             Left(n) == IF n > 0 THEN n ELSE 0
  <1>1. /\ value \in [Refs -> Int] /\ dummysem \in Seq(Pcbs)
        /\ ToSet(dummysem) = In("SEM_BLOCKED")
        /\ TheSem \in Refs
    BY DEF DInv, IInv, OtherTypes, SchedInv, ListInv, Lists, WaitersListed, TheSem, Refs
  <1>2. PICK t \in Sems : TheSem = <<"father", t>>
    BY DEF TheSem
  <1>3. v \in Int /\ (dummysem = << >> <=> v >= 0)
    <2>1. OnlySemaphore
      BY StaysInitialised DEF OnlySemaphore
    <2> QED BY <2>1, OneValueCounts
  <1>4. CASE WaitersUntouched
    BY <1>2, <1>4 DEF WaitersUntouched, OneSemaphore!vars
  <1>5. ASSUME NEW s \in Sems, NEW n \in InitValues, SemInit(s, n)
        PROVE  OneSemaphore!Initialise
    <2>1. /\ n >= 0 /\ n \in Int /\ dummysem = << >> /\ dummysem' = << >>
          /\ semlist' = [semlist EXCEPT ![<<"father", s>>] = TRUE]
          /\ value' = [value EXCEPT ![<<"father", s>>] = n]
          /\ UNCHANGED state
      BY <1>5, ConstantsAssumption DEF ConstantsAssumption, SemInit, Rule
    <2>2. semlist'[<<"father", s>>]
      BY <2>1 DEF DInv, IInv, OtherTypes, Refs
    <2>3. <<"father", s>> = TheSem
      BY <2>2 DEF OnlySemaphore
    <2>4. value'[TheSem] = n
      BY <1>1, <2>1, <2>3
    <2>5. (IF value[TheSem] > 0 THEN value[TheSem] ELSE 0)' \in Nat
      BY <2>1, <2>4
    <2>6. In("SEM_BLOCKED")' = In("SEM_BLOCKED")
      BY <2>1 DEF In
    <2> QED BY <2>1, <2>5, <2>6 DEF OneSemaphore!Initialise
  <1>6. ASSUME NEW s \in Sems, SemWait(s)
        PROVE  OneSemaphore!Obtain \/ \E p \in Pcbs : OneSemaphore!Queue(p)
    <2>1. semlist[<<"father", s>>]
      BY <1>6, WaitEffects
    <2>2. <<"father", s>> = TheSem
      BY <2>1, StaysInitialised DEF OnlySemaphore
    <2>3. /\ value' = [value EXCEPT ![TheSem] = v - 1]
          /\ current \in Pcbs \ In("SEM_BLOCKED")
          /\ IF v - 1 < 0
             THEN /\ dummysem' = list_add(dummysem, current)
                  /\ In("SEM_BLOCKED")' = In("SEM_BLOCKED") \cup {current}
             ELSE UNCHANGED dummysem /\ In("SEM_BLOCKED")' = In("SEM_BLOCKED")
      BY <1>6, <2>2, WaitEffects
    <2>4. value'[TheSem] = v - 1
      BY <1>1, <2>3
    <2>5. CASE v > 0
      BY <1>3, <2>3, <2>4, <2>5 DEF OneSemaphore!Obtain
    <2>6. CASE v <= 0
      BY <1>3, <2>3, <2>4, <2>6 DEF OneSemaphore!Queue, list_add
    <2> QED BY <1>3, <2>5, <2>6
  <1>7. ASSUME NEW s \in Sems, SemPost(s)
        PROVE  \/ UNCHANGED <<dummysem, value[TheSem]>> /\ In("SEM_BLOCKED")' = In("SEM_BLOCKED")
               \/ OneSemaphore!Release \/ OneSemaphore!HandOver
    <2> DEFINE u == value[<<"father", s>>]
    <2>1. /\ value' = [value EXCEPT ![<<"father", s>>] = u + 1]
          /\ IF u < 0
             THEN /\ dummysem # << >>
                  /\ dummysem' = Tail(dummysem)
                  /\ In("SEM_BLOCKED")' = In("SEM_BLOCKED") \ {Head(dummysem)}
             ELSE UNCHANGED dummysem /\ In("SEM_BLOCKED")' = In("SEM_BLOCKED")
      BY <1>7, PostEffects
    <2>2. CASE <<"father", s>> # TheSem
      <3>1. ~semlist[<<"father", s>>]
        BY <2>2, StaysInitialised DEF OnlySemaphore
      <3>2. ~(u < 0)
        BY <3>1 DEF DInv, Initialised
      <3>3. value'[TheSem] = value[TheSem]
        BY <1>1, <2>1, <2>2
      <3> QED BY <2>1, <3>2, <3>3
    <2>3. CASE <<"father", s>> = TheSem
      <3>1. u = v /\ value'[TheSem] = v + 1
        BY <1>1, <2>1, <2>3
      <3>2. CASE v < 0
        BY <1>3, <2>1, <3>1, <3>2 DEF OneSemaphore!HandOver
      <3>3. CASE v >= 0
        BY <1>3, <2>1, <3>1, <3>3 DEF OneSemaphore!Release
      <3> QED BY <1>3, <3>2, <3>3
    <2> QED BY <2>2, <2>3
  <1>8. \/ WaitersUntouched
        \/ \E s \in Sems : SemWait(s) \/ SemPost(s) \/ \E n \in InitValues : SemInit(s, n)
    <2>1. CASE \/ Timer \/ Keyboard \/ FinishRead \/ UNCHANGED vars
               \/ \E len \in ReadSizes : ReadStdin(len)
      BY <2>1, QuietSteps
    <2>2. ~Fault /\ ~Halted
      BY DEF Fault, Rule, Halted, DInv
    <2> QED BY <2>1, <2>2, ForkDisciplined, ExitDisciplined, SleepDisciplined,
               SemDestroyDisciplined DEF Next, Syscall
  <1> QED
    BY <1>4, <1>5, <1>6, <1>7, <1>8 DEF OneSemaphore!Next, OneSemaphore!vars

(***************************************************************************)
(* The first semaphore of a program is one as long as it is the only one:  *)
(* the kernel's semaphore implements the abstract one of Semaphore.tla.    *)
(***************************************************************************)
THEOREM ImplementsSemaphore ==
  ASSUME Disciplined, Sems # {}
  PROVE  Spec => CountsItsUnits
  <1>1. Init => OneSemaphore!Init
    <2>1. TheSem \in Refs
      BY DEF TheSem, Refs
    <2> QED BY <2>1, ProcsFacts DEF Init, In, OneSemaphore!Init
  <1>2. DInv /\ [Next]_vars => (OnlySemaphore' => [OneSemaphore!Next]_(OneSemaphore!vars))
    BY OneSemaphoreStep
  <1>3. Spec => [][OnlySemaphore' => [OneSemaphore!Next]_(OneSemaphore!vars)]_vars
    BY <1>2, InductiveDiscipline, PTL DEF Spec
  <1> QED BY <1>1, <1>3, PTL DEF Spec, CountsItsUnits

=============================================================================
