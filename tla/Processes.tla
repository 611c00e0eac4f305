----------------------------- MODULE Processes -----------------------------
(***************************************************************************)
(* Processes, the scheduler and the semaphores of the kernel:              *)
(* kernel/kernel/process.c, sem.c, list.c, the scheduling half of          *)
(* irqHandle.c and the tables kvm.c sets up.                               *)
(*                                                                         *)
(* There is one CPU and every handler runs with interrupts disabled from   *)
(* its interrupt gate to its iret, so one handler is one action.  The      *)
(* exception is a read of stdin, which re-enables interrupts while it      *)
(* waits (wait_for_keyboard): between ReadStdin and FinishRead the timer   *)
(* and the keyboard interrupt the reader's own kernel code.                *)
(*                                                                         *)
(* The file half of fork_aux and open, close, read, write are in           *)
(* OpenFiles.tla; the disk half of exit_aux is in Persistence.tla.         *)
(***************************************************************************)
EXTENDS KernelLists

CONSTANTS
  MaxPcb,       \* MAX_PCB_NUM
  Quantum,      \* the time slice, 10 in the source
  IntMin,       \* the range of the int sleepTime
  IntMax,
  Sems,         \* the sem_t objects of the program
  Null,         \* the NULL of psem
  SleepTimes,   \* arguments of sleep
  InitValues,   \* arguments of sem_init
  ReadSizes,    \* arguments of a read of stdin
  SemBound,     \* bound on the values of semaphores
  MaxTyped,     \* bound on the characters typed and not yet read
  Disciplined   \* TRUE if programs keep the rules listed under Discipline

Idle  == 0                  \* the PCB `idle', whose pid is 0
Pcbs  == 1 .. MaxPcb - 1    \* pcb[1], pcb[2], ...: a process's pid is its index
Pcb0  == -1                 \* pcb[0], on no list; tss.esp0 names it at first
Procs == Pcbs \cup {Idle}

States == {"RUNNABLE", "RUNNING", "BLOCKED", "SEM_BLOCKED", "DEAD"}

(***************************************************************************)
(* A sem_t lives in the memory of the program.  fork copies the father's   *)
(* memory to Child_Data_Offst, so that each sem_t has two copies.          *)
(***************************************************************************)
Refs == {"father", "child"} \X Sems

Panics == {"none", "list_delete", "list_head", "fault", "wild"}

ASSUME ConstantsAssumption ==
  /\ MaxPcb \in Nat /\ MaxPcb >= 2
  /\ Quantum \in Nat \ {0}
  /\ IntMin \in Int /\ IntMax \in Int /\ IntMin < 0 /\ IntMax > 0
  /\ Null \notin Refs
  /\ SleepTimes \subseteq IntMin .. IntMax
  /\ InitValues \subseteq Int
  /\ ReadSizes \subseteq Nat
  /\ SemBound \in Nat /\ MaxTyped \in Nat
  /\ Disciplined \in BOOLEAN

VARIABLES
  current,        \* the PCB that owns the CPU
  state, timeCount, sleepTime, psem,                  \* fields of the PCBs
  runnable_list, blocked_list, free_list, dummysem,   \* PCB lists
  p_num,          \* counts processes, and is the slot the next fork takes
  esp0,           \* the PCB whose trap frame tss.esp0 points behind
  value,          \* value[r]: sem->value
  semlist,        \* semlist[r]: sem->list is &dummysem (FALSE: NULL)
  intr_nesting,   \* a reader waits for the keyboard with interrupts enabled
  want,           \* the number of characters that reader asked for
  typed,          \* buf_in - buf_out
  panic           \* "none", or why the kernel has stopped

schedVars == <<current, state, timeCount, sleepTime, runnable_list,
               blocked_list, free_list, dummysem, esp0>>
semVars   == <<psem, value, semlist>>
inputVars == <<intr_nesting, want, typed>>
vars      == <<schedVars, semVars, inputVars, p_num, panic>>

-----------------------------------------------------------------------------
(***************************************************************************)
(* kEntry: initPcb, then preparePCB for the user program.                  *)
(***************************************************************************)
Init ==
  /\ current = Idle
  /\ state = [p \in Procs |-> IF p = Idle THEN "RUNNING"
                             ELSE IF p = 1 THEN "RUNNABLE" ELSE "DEAD"]
  /\ timeCount = [p \in Procs |-> IF p \in {Idle, 1} THEN Quantum ELSE 0]
  /\ sleepTime = [p \in Pcbs |-> 0]
  /\ psem = [p \in Pcbs |-> Null]
  /\ runnable_list = <<1>>
  /\ blocked_list = << >>
  /\ free_list = [i \in 1 .. MaxPcb - 2 |-> i + 1]
  /\ dummysem = << >>
  /\ p_num = 2
  /\ esp0 = Pcb0
  /\ value = [r \in Refs |-> 0]
  /\ semlist = [r \in Refs |-> FALSE]
  /\ intr_nesting = FALSE
  /\ want = 0
  /\ typed = 0
  /\ panic = "none"

(***************************************************************************)
(* abort() stops the machine: interrupts off, then hlt for ever.  A panic  *)
(* "wild" follows a NULL list pointer: what happens next is undefined and  *)
(* not modelled.  The other variables keep what they held at the entry of  *)
(* the handler; nothing reads them any more.                               *)
(***************************************************************************)
Panic(why) ==
  /\ panic' = why
  /\ UNCHANGED <<schedVars, semVars, inputVars, p_num>>

Up == panic = "none"

\* A user process executes and may raise int $0x80.
InUser == Up /\ current # Idle /\ ~intr_nesting

\* A process that gets the CPU, or keeps it because no other one is runnable,
\* has a whole time slice before it.
NewSliceOnSwitch(tc, p) == IF p = current THEN tc ELSE [tc EXCEPT ![p] = Quantum]
NewSlice(tc, p) == [tc EXCEPT ![p] = Quantum]

\* tss.esp0 is set for a process taken from the runnable list only.
StackTopUnlessLone(some, p) == IF some /\ current # Idle THEN p ELSE esp0
StackTop(some, p) == IF some THEN p ELSE esp0

(***************************************************************************)
(* schedule(), entered with the process table st, tc, sl and with rq and   *)
(* bq as runnable and blocked lists.  The current process goes to the list *)
(* its state names (an idle or lone RUNNING one to none); the head of rq   *)
(* runs next, or, when rq is empty, the current process if it still can,   *)
(* and idle otherwise.  Only a process taken from rq has esp0 set to it.   *)
(***************************************************************************)
Schedule(st, tc, sl, rq, bq) ==
  LET why   == st[current]
      some  == rq # << >>
      left  == IF why = "RUNNING" THEN [st EXCEPT ![current] = "RUNNABLE"] ELSE st
      queue == IF why = "RUNNING" /\ current # Idle THEN list_add(rq, current) ELSE rq
      next  == IF some THEN list_head(queue)
               ELSE IF why = "RUNNING" THEN current ELSE Idle
  IN  /\ current' = next
      /\ state' = [left EXCEPT ![next] = "RUNNING"]
      /\ timeCount' = NewSlice(tc, next)
      /\ sleepTime' = IF some THEN [sl EXCEPT ![next] = 0] ELSE sl
      /\ esp0' = StackTop(some, next)
      /\ runnable_list' = IF some THEN list_delete(queue, next) ELSE rq
      /\ blocked_list' = IF why = "BLOCKED" THEN list_add(bq, current) ELSE bq
      /\ free_list' = IF why = "DEAD" THEN list_add(free_list, current) ELSE free_list
      /\ dummysem' = IF why = "SEM_BLOCKED" THEN list_add(dummysem, current)
                     ELSE dummysem

\* schedule() called by a handler that changed only the state of current.
GiveUpCpu(why, sl) ==
  Schedule([state EXCEPT ![current] = why], timeCount, sl, runnable_list, blocked_list)

\* `n--' on an int, and the test for the end of a sleep.
DecUnbounded(n) == n - 1
DecSaturating(n) == IF n = IntMin THEN n ELSE n - 1
Dec(n) == IF n = IntMin THEN IntMax ELSE n - 1
TimeIsUp(n) == n = 0

(***************************************************************************)
(* timerHandle: charge the current process, wake the sleepers whose time   *)
(* is up (try_to_wakeup), and schedule at the end of the slice.  While a   *)
(* reader waits for the keyboard the handler does nothing at all.          *)
(***************************************************************************)
Timer ==
  /\ Up /\ ~intr_nesting
  /\ \E awake \in {{p \in Pcbs : /\ OnList(blocked_list, p)
                                 /\ TimeIsUp(Dec(sleepTime[p]))}} :
     LET tc    == [timeCount EXCEPT ![current] = @ - 1]
         sl    == [p \in Pcbs |-> IF OnList(blocked_list, p) THEN Dec(sleepTime[p])
                                  ELSE sleepTime[p]]
         st    == [p \in Procs |-> IF p \in awake THEN "RUNNABLE" ELSE state[p]]
         rq    == runnable_list \o Keep(blocked_list, awake)
         bq    == Keep(blocked_list, Pcbs \ awake)
     IN  IF tc[current] = 0
         THEN Schedule(st, tc, sl, rq, bq)
         ELSE /\ state' = st /\ timeCount' = tc /\ sleepTime' = sl
              /\ runnable_list' = rq /\ blocked_list' = bq
              /\ UNCHANGED <<current, free_list, dummysem, esp0>>
  /\ UNCHANGED <<semVars, inputVars, p_num, panic>>

-----------------------------------------------------------------------------
(***************************************************************************)
(* Discipline.  With Disciplined = TRUE the programs behave like this:     *)
(* they never fork with the table full, the youngest process exits first,  *)
(* they sleep for a positive time, they initialise a semaphore to a value  *)
(* >= 0, in the father's memory and while nobody waits, they wait only on  *)
(* a semaphore that is initialised and after a sem_init of their own or an *)
(* inherited one, and they raise no fault.                                 *)
(***************************************************************************)
Rule(condition) == Disciplined => condition

\* fork_aux.  It takes pcb[p_num] off the free list, whatever p_num is.
Fork ==
  /\ InUser
  /\ Rule(p_num < MaxPcb)
  /\ \/ /\ ~OnList(free_list, p_num)
        /\ Panic("list_delete")
     \/ /\ OnList(free_list, p_num)
        /\ free_list' = list_delete(free_list, p_num)
        /\ state' = [state EXCEPT ![p_num] = "RUNNABLE"]
        /\ timeCount' = [timeCount EXCEPT ![p_num] = Quantum]
        /\ sleepTime' = [sleepTime EXCEPT ![p_num] = 0]
        /\ psem' = [psem EXCEPT ![p_num] = psem[current]]
        /\ value' = [r \in Refs |-> value[<<"father", r[2]>>]]
        /\ semlist' = [r \in Refs |-> semlist[<<"father", r[2]>>]]
        /\ runnable_list' = list_add(runnable_list, p_num)
        /\ p_num' = p_num + 1
        /\ UNCHANGED <<current, blocked_list, dummysem, esp0, inputVars, panic>>

\* exit_aux.
ExitUncounted ==
  /\ InUser
  /\ Rule(current = p_num - 1)
  /\ GiveUpCpu("DEAD", sleepTime)
  /\ UNCHANGED <<semVars, inputVars, p_num, panic>>
Exit ==
  /\ InUser
  /\ Rule(current = p_num - 1)
  /\ p_num' = p_num - 1
  /\ GiveUpCpu("DEAD", sleepTime)
  /\ UNCHANGED <<semVars, inputVars, panic>>

\* sleep_aux.
Sleep(time) ==
  /\ InUser
  /\ Rule(time > 0)
  /\ GiveUpCpu("BLOCKED", [sleepTime EXCEPT ![current] = time])
  /\ UNCHANGED <<semVars, inputVars, p_num, panic>>

\* sem_init_aux.  Process 2 initialises its own copy of the sem_t; every
\* initialisation empties the one list of waiters.
SemInit(s, v) ==
  LET ref == <<IF current = 2 THEN "child" ELSE "father", s>>
  IN  /\ InUser
      /\ Rule(v >= 0 /\ current # 2 /\ dummysem = << >>)
      /\ psem' = [psem EXCEPT ![current] = ref]
      /\ value' = [value EXCEPT ![ref] = v]
      /\ semlist' = [semlist EXCEPT ![ref] = TRUE]
      /\ dummysem' = << >>
      /\ UNCHANGED <<current, state, timeCount, sleepTime, runnable_list,
                     blocked_list, free_list, esp0, inputVars, p_num, panic>>

\* sem_destroy_aux: the argument is not used.
SemDestroy ==
  /\ InUser
  /\ psem' = [psem EXCEPT ![current] = Null]
  /\ UNCHANGED <<schedVars, value, semlist, inputVars, p_num, panic>>

\* The tests of P, after its decrement, and of V, before its increment.
MustWaitAtZero(v) == v <= 0
MustWait(v) == v < 0
SomeoneWaitsAtZero(v) == v <= 0
SomeoneWaits(v) == v < 0

\* The list of waiters after V has taken its head.
WaitersLeftNone == << >>
WaitersLeft == list_delete(dummysem, list_head(dummysem))

\* sem_wait_aux and P.  The kernel uses the address as it is, the father's
\* copy for every process; schedule() then follows current->psem->list.
SemWait(s) ==
  LET ref == <<"father", s>>
      v   == value[ref] - 1
      queued == psem[current] \in {r \in Refs : semlist[r]}
  IN  /\ InUser
      /\ Rule(psem[current] # Null /\ semlist[ref])
      /\ v >= -SemBound
      /\ \/ /\ ~MustWait(v)
            /\ value' = [value EXCEPT ![ref] = v]
            /\ UNCHANGED <<schedVars, psem, semlist, inputVars, p_num, panic>>
         \/ /\ MustWait(v) /\ queued
            /\ value' = [value EXCEPT ![ref] = v]
            /\ GiveUpCpu("SEM_BLOCKED", sleepTime)
            /\ UNCHANGED <<psem, semlist, inputVars, p_num, panic>>
         \/ /\ MustWait(v) /\ ~queued
            /\ Panic("wild")

\* sem_post_aux and V.
SemPost(s) ==
  LET ref == <<"father", s>>
      v   == value[ref]
  IN  /\ InUser
      /\ v < SemBound
      /\ \/ /\ ~SomeoneWaits(v)
            /\ value' = [value EXCEPT ![ref] = v + 1]
            /\ UNCHANGED <<schedVars, psem, semlist, inputVars, p_num, panic>>
         \/ /\ SomeoneWaits(v) /\ semlist[ref] /\ dummysem # << >>
            /\ value' = [value EXCEPT ![ref] = v + 1]
            /\ dummysem' = WaitersLeft
            /\ state' = [state EXCEPT ![list_head(dummysem)] = "RUNNABLE"]
            /\ runnable_list' = list_add(runnable_list, list_head(dummysem))
            /\ UNCHANGED <<current, timeCount, sleepTime, blocked_list, free_list,
                           esp0, psem, semlist, inputVars, p_num, panic>>
         \/ /\ SomeoneWaits(v) /\ semlist[ref] /\ dummysem = << >>
            /\ Panic("list_head")
         \/ /\ SomeoneWaits(v) /\ ~semlist[ref]
            /\ Panic("wild")

\* read_aux on stdin.  Without enough input the reader stays in the handler
\* and on the CPU, with interrupts enabled and intr_nesting set.
ReadStdin(len) ==
  /\ InUser
  /\ \/ /\ typed >= len
        /\ typed' = typed - len
        /\ UNCHANGED <<intr_nesting, want>>
     \/ /\ typed < len
        /\ intr_nesting' = TRUE
        /\ want' = len
        /\ UNCHANGED typed
  /\ UNCHANGED <<schedVars, semVars, p_num, panic>>

\* wait_for_keyboard after an interrupt: enough input ends the wait.
FinishRead ==
  /\ Up /\ intr_nesting
  /\ typed >= want
  /\ intr_nesting' = FALSE
  /\ want' = 0
  /\ typed' = typed - want
  /\ UNCHANGED <<schedVars, semVars, p_num, panic>>

\* keyboardHandle, for a key that stands for a character.
Keyboard ==
  /\ Up
  /\ typed < MaxTyped
  /\ typed' = typed + 1
  /\ UNCHANGED <<schedVars, semVars, intr_nesting, want, p_num, panic>>

\* GProtectFaultHandle ends in assert(0), as does every other exception.
Fault ==
  /\ InUser
  /\ Rule(FALSE)
  /\ Panic("fault")

\* The end of abort(): while(TRUE) waitForInterrupt(), interrupts disabled.
Halted == ~Up /\ UNCHANGED vars

Syscall ==
  \/ Fork \/ Exit \/ SemDestroy
  \/ \E time \in SleepTimes : Sleep(time)
  \/ \E s \in Sems : SemWait(s) \/ SemPost(s) \/ \E v \in InitValues : SemInit(s, v)
  \/ \E len \in ReadSizes : ReadStdin(len)

Next == Timer \/ Keyboard \/ Syscall \/ FinishRead \/ Fault \/ Halted

Spec == Init /\ [][Next]_vars

(***************************************************************************)
(* The 8253 interrupts 100 times a second whatever the processes do, and   *)
(* handlers end: the timer is weakly fair.  Nothing else is: a process may *)
(* compute for ever, and nobody has to type.                               *)
(***************************************************************************)
FairSpec == Spec /\ WF_vars(Timer)

-----------------------------------------------------------------------------
(* Every variable holds a value of its C type. *)
TypeOK ==
  /\ current \in Procs
  /\ state \in [Procs -> States]
  /\ timeCount \in [Procs -> 0 .. Quantum]
  /\ sleepTime \in [Pcbs -> IntMin .. IntMax]
  /\ psem \in [Pcbs -> Refs \cup {Null}]
  /\ runnable_list \in Seq(Pcbs) /\ blocked_list \in Seq(Pcbs)
  /\ free_list \in Seq(Pcbs) /\ dummysem \in Seq(Pcbs)
  /\ p_num \in Int
  /\ esp0 \in Pcbs \cup {Pcb0}
  /\ value \in [Refs -> Int]
  /\ semlist \in [Refs -> BOOLEAN]
  /\ intr_nesting \in BOOLEAN
  /\ want \in Nat /\ typed \in Nat
  /\ panic \in Panics

(***************************************************************************)
(* A PCB is on the list its state names and on no other, once: list_add    *)
(* never links a PCB that is still linked, which would cut or close the    *)
(* chain (list.c:6-11).  The waiters' list is the exception: sem_init can  *)
(* drop a SEM_BLOCKED process from it.                                     *)
(***************************************************************************)
In(status) == {p \in Pcbs : state[p] = status}
OnListOfState ==
  /\ ToSet(runnable_list) = In("RUNNABLE") /\ NoRepeats(runnable_list)
  /\ ToSet(blocked_list) = In("BLOCKED") /\ NoRepeats(blocked_list)
  /\ ToSet(free_list) = In("DEAD") /\ NoRepeats(free_list)
  /\ ToSet(dummysem) \subseteq In("SEM_BLOCKED") /\ NoRepeats(dummysem)

(***************************************************************************)
(* One process runs, the one current points to; idle is never anything but *)
(* RUNNING or RUNNABLE, and the running process has time left, so that     *)
(* timeCount reaches 0 exactly once per slice (irqHandle.c:306-308).       *)
(***************************************************************************)
OneRuns ==
  /\ \A p \in Procs : state[p] = "RUNNING" <=> p = current
  /\ state[Idle] \in {"RUNNING", "RUNNABLE"}
  /\ timeCount[current] \in 1 .. Quantum

(***************************************************************************)
(* The assertion &(current->tf) == tf of timerHandle and syscallHandle:    *)
(* the CPU saves a user process's frame at tss.esp0, so esp0 must belong   *)
(* to the current process whenever that is not idle (irqHandle.c:266, 305, *)
(* 322).                                                                   *)
(***************************************************************************)
FrameOfCurrent == current # Idle => esp0 = current

(***************************************************************************)
(* p_num is one more than the number of processes that are not DEAD,       *)
(* whatever the order of the forks and the exits (process.c:8, 67).        *)
(***************************************************************************)
CountsProcesses == p_num = 1 + Cardinality(Pcbs \ In("DEAD"))

(***************************************************************************)
(* The runnable list is first come, first served: whoever is on it stays   *)
(* ahead of everybody behind him and of everybody who joins, however the   *)
(* timer, fork, wake-ups and preemptions interleave (irqHandle.c:239, 249, *)
(* 261, process.c:65, sem.c:17).                                           *)
(***************************************************************************)
KeepsItsPlace ==
  \A p, q \in Pcbs :
    (/\ p # q
     /\ OnList(runnable_list, p) /\ OnList(runnable_list', p) /\ OnList(runnable_list', q)
     /\ OnList(runnable_list, q) => Ahead(runnable_list, p, q))
    => Ahead(runnable_list', p, q)
FirstComeFirstServed == [][KeepsItsPlace]_vars

(***************************************************************************)
(* Under the discipline a waiter is never lost: a SEM_BLOCKED process is   *)
(* on the list that V takes its processes from (sem.c:9, 16).              *)
(***************************************************************************)
NoWaiterLost == \A p \in Pcbs : state[p] = "SEM_BLOCKED" => OnList(dummysem, p)

(***************************************************************************)
(* Under the discipline the values of all semaphores together account for  *)
(* the waiters: as many processes wait as units are promised, n by a value *)
(* -n.  This is why V finds somebody when a value is negative              *)
(* (sem.c:15-16).                                                          *)
(***************************************************************************)
Promised == UNION {{s} \X (1 .. -value[<<"father", s>>]) : s \in Sems}
WaitersAccounted == Len(dummysem) = Cardinality(Promised)

(***************************************************************************)
(* Under the discipline the first semaphore of a program is one, as long   *)
(* as it is the only one: as many units are out as it was given, waiters   *)
(* get theirs in the order they came, and only waiters are SEM_BLOCKED,    *)
(* however waits, posts, preemptions, forks and exits interleave           *)
(* (sem.c:6-23, irqHandle.c:255-263).  With another semaphore, the shared  *)
(* list makes V wake the waiter of either.                                 *)
(***************************************************************************)
TheSem == <<"father", CHOOSE s \in Sems : TRUE>>
OnlySemaphore == \A s \in Sems : semlist[<<"father", s>>] => <<"father", s>> = TheSem
OneSemaphore == INSTANCE Semaphore WITH
  Pids <- Pcbs, units <- IF value[TheSem] > 0 THEN value[TheSem] ELSE 0,
  queue <- dummysem, asleep <- In("SEM_BLOCKED")
CountsItsUnits ==
  OneSemaphore!Init /\ [][OnlySemaphore' => [OneSemaphore!Next]_(OneSemaphore!vars)]_vars

(***************************************************************************)
(* Under the discipline no assertion of the kernel fails and no NULL list  *)
(* is followed: the kernel never stops.                                    *)
(***************************************************************************)
NeverPanics == Up

(***************************************************************************)
(* No process waits for the CPU for ever unless the kernel stops or some   *)
(* process sits in a read of stdin, which stops the clock for everybody    *)
(* (irqHandle.c:172, 304).                                                 *)
(***************************************************************************)
RunnableRuns ==
  \A p \in Pcbs : state[p] = "RUNNABLE" ~> (state[p] = "RUNNING" \/ ~Up \/ intr_nesting)

(***************************************************************************)
(* Every sleeper is woken, even one whose count has to wrap first, with    *)
(* the same two exceptions.                                                *)
(***************************************************************************)
SleeperWakes ==
  \A p \in Pcbs : state[p] = "BLOCKED" ~> (state[p] # "BLOCKED" \/ ~Up \/ intr_nesting)

(***************************************************************************)
(* While there is a free PCB, fork finds the one it wants to take: the     *)
(* assertion of list_delete (list.c:19) does not fail.                     *)
(***************************************************************************)
ForkFindsItsSlot == panic = "list_delete" => free_list = << >>

(***************************************************************************)
(* A post to a semaphore with waiters finds one of them: the assertion of  *)
(* list_head (list.c:26) does not fail.                                    *)
(***************************************************************************)
PostFindsAWaiter == panic # "list_head"
=============================================================================
