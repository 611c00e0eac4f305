------------------------------- MODULE Kernel -------------------------------
(***************************************************************************)
(* The kernel as a whole: the processes and the scheduler of               *)
(* Processes.tla, the open files of OpenFiles.tla, the path strings of     *)
(* Paths.tla, and the memory of the programs, from which the calls take    *)
(* their arguments.                                                        *)
(*                                                                         *)
(* Programs keep the rules of both modules (Disciplined) and OneChild.     *)
(* Calls that only wait, on a semaphore or on stdin, change nothing but    *)
(* the scheduler's state, as sleep does, and are left to Processes.tla.    *)
(***************************************************************************)
EXTENDS Processes, Paths

CONSTANTS
  NrInode, NrEntry, MaxFile, SubDirs,
  MaxFp, MaxSysFile, Lens, MaxFilenum, MaxLinks,
  Cells,       \* the cells of a program's memory
  Strings,     \* what a cell can hold: paths, which serve as file data too
  Nothing      \* no argument

Regions == {"father", "child"}    \* at 0x200000 and at 0x400000

ASSUME KernelAssumption ==
  /\ Disciplined /\ Nothing \notin Strings
  /\ Strings \subseteq Seq(STRING)   \* each a sequence of characters

VARIABLES
  fs, sysFileTable, sys_file_num, filepointer, fp_num,
  filePanic,     \* panic, when a file call stops the kernel
  path_offset,
  mem,           \* the contents of the two regions
  seen,          \* history: the argument the kernel took from memory in this step
  names          \* history: and the names it found in it, if it is a path

Live == {p \in Pcbs : state[p] # "DEAD"}

Files == INSTANCE OpenFiles WITH
  live <- Live, panic <- filePanic, Seeks <- {},
  Paths <- {Components(s) : s \in {t \in Strings : IsAbsolute(t)}}

fileVars == <<fs, sysFileTable, sys_file_num, filepointer, fp_num, filePanic>>
allVars  == <<vars, fileVars, path_offset, mem, seen, names>>

KernelInit ==
  /\ Init
  /\ Files!Init
  /\ path_offset = 0
  /\ \E content \in [Cells -> Strings] : mem = [r \in Regions |-> content]
  /\ seen = Nothing /\ names = <<>>

NoArgument == seen' = Nothing /\ names' = <<>>

-----------------------------------------------------------------------------
\* fork loads the segments of the child region (SEG_UCODE2, SEG_UDATA2).
Region(p) == IF p = 1 THEN "father" ELSE "child"

\* A buffer is an offset into the caller's segment; the kernel adds
\* Child_Data_Offst for process 2.  It does so for no path.
BufferRegionFathers(p) == "father"
BufferRegion(p) == IF p = 2 THEN "child" ELSE "father"
PathRegion == "father"

Taken(region, c) == mem[region][c]
Put(region, c, content) == mem' = [mem EXCEPT ![region][c] = content]

(***************************************************************************)
(* All children run in one region.  A father has at most one child at a    *)
(* time, a child has none, and a child's paths are where and as they were  *)
(* in its father's memory.                                                 *)
(***************************************************************************)
OneChild == current = 1 /\ Live = {1}
PathOfFather(c) == Taken(Region(current), c) = Taken(PathRegion, c)

InUserMode == InUser /\ filePanic = "none"

\* A program computes.
Compute(c, content) ==
  /\ InUserMode
  /\ Put(Region(current), c, content)
  /\ NoArgument
  /\ UNCHANGED <<vars, fileVars, path_offset>>

ChildSlotNext == p_num + 1
ChildSlot == p_num

\* fork_aux as a whole; it copies the father's region, whoever forks.
ForkAll ==
  /\ InUserMode /\ OneChild
  /\ Fork
  /\ Files!ForkTables(ChildSlot)
  /\ mem' = [r \in Regions |-> mem["father"]]
  /\ NoArgument
  /\ UNCHANGED <<filePanic, path_offset>>

ExitAll ==
  /\ InUserMode
  /\ Files!Opened(current) = {}
  /\ Exit
  /\ NoArgument
  /\ UNCHANGED <<fileVars, path_offset, mem>>

Scheduling ==
  /\ filePanic = "none"
  /\ Timer \/ \E time \in SleepTimes : Sleep(time)
  /\ NoArgument
  /\ UNCHANGED <<fileVars, path_offset, mem>>

\* The calls that take a path: open, remove and cat walk it.
NamesIn(c) == Names(Taken(PathRegion, c), path_offset)

\* What getTopDir may find behind the end of a string; bounded by their lengths.
StrayOffsets == {Len(s) : s \in Strings}
Walk(c) ==
  /\ InUserMode /\ PathOfFather(c)
  /\ seen' = Taken(PathRegion, c)
  /\ names' = NamesIn(c)
  /\ path_offset' \in IF NamesIn(c) = <<>> THEN {path_offset} \cup StrayOffsets
                     ELSE {OffsetAfter(Taken(PathRegion, c), path_offset)}
  /\ UNCHANGED <<vars, mem>>

OpenOrRemove(c) ==
  /\ Walk(c)
  /\ IsAbsolute(Taken(PathRegion, c))
  /\ Files!Open(NamesIn(c)) \/ Files!Unlink(NamesIn(c))

\* cat changes no file; it is the one that may be given a relative path.  The
\* bytes behind the end of a string match no name; they may contain a `/'.
Cat(c) ==
  /\ Walk(c)
  /\ IF NamesIn(c) = <<>> THEN UNCHANGED fileVars \/ Files!Panic("assert")
     ELSE Files!Show(NamesIn(c))

\* write_aux to a file, read_aux from one.
WriteBuffer(fd, len, c) ==
  /\ InUserMode
  /\ UNCHANGED <<vars, path_offset, mem>>
  /\ Files!Write(fd, len)
  /\ seen' = Taken(BufferRegion(current), c) /\ names' = <<>>

ReadBuffer(fd, len, c, content) ==
  /\ InUserMode
  /\ UNCHANGED <<vars, path_offset>>
  /\ Files!Read(fd, len)
  /\ Put(BufferRegion(current), c, content)
  /\ NoArgument

CloseFile(fd) ==
  /\ InUserMode
  /\ UNCHANGED <<vars, path_offset, mem>>
  /\ Files!Close(fd)
  /\ NoArgument

Stopped == (panic # "none" \/ filePanic # "none") /\ UNCHANGED allVars

KernelNext ==
  \/ Scheduling \/ ForkAll \/ ExitAll \/ Stopped
  \/ \E c \in Cells : OpenOrRemove(c) \/ Cat(c) \/ \E s \in Strings : Compute(c, s)
  \/ \E fd \in Files!Fds : CloseFile(fd)
  \/ \E fd \in Files!Fds, len \in Lens, c \in Cells :
       WriteBuffer(fd, len, c) \/ \E s \in Strings : ReadBuffer(fd, len, c, s)

KernelSpec == KernelInit /\ [][KernelNext]_allVars

-----------------------------------------------------------------------------
(* Properties. *)

\* With the scheduler of Processes.tla in place of its own, which lets any live
\* process run next, and with live processes for its set of them, every step of
\* the kernel is one of OpenFiles.tla or leaves the files alone.
ImplementsOpenFiles == Files!Spec

\* An absolute path is searched for by its own components, whatever path, a
\* relative one included, was searched for before and has left in path_offset
\* (getTopDir, findCurrentFLPos, findUpperDirPos); and the name a new file
\* would get is its last component, except for "/" (getLastLevelName, makeFL).
PathsResolve ==
  names # <<>> /\ IsAbsolute(seen) =>
    /\ names = Components(seen)
    /\ Len(seen) > 1 => getLastLevelName(seen) = Last(names)

Spaces == INSTANCE AddressSpaces WITH
  Pids <- Pcbs, Contents <- Strings, running <- current,
  memory <- [p \in Live |-> mem[Region(p)]]

\* Two regions are enough for programs that keep the rules: every process has
\* memory of its own, a child begins with a copy of its father's, and calls
\* take their arguments from, and put what they read into, the caller's.
PrivateMemories == Spaces!Spec
=============================================================================
