# Verification of the OSlab kernel

This directory holds TLA+ models of the teaching kernel in this repository,
the TLC configurations that check them, and proofs that TLAPS checks. It is
written for somebody who knows the C code; file names without a directory are
in `kernel/kernel/`.

## 1. The system

One CPU, no paging, one address space. An interrupt or `int $0x80` enters
through an interrupt gate (`idt.c`, `doIrq.S`), saves a trap frame at
`tss.esp0`, runs a handler in `irqHandle.c` with interrupts disabled, and
returns to the frame of the process `current` then points to. So a handler is
atomic, with one exception: a `read` of stdin without input executes
`sti; hlt; cli` in a loop inside its system call (`wait_for_keyboard`), with
the flag `intr_nesting` set, and is interrupted there.

| Component | State | Operations | Interacts with |
|---|---|---|---|
| PCB lists (`list.c`) | `next` in each PCB; the heads `dummy1..3`, `dummysem` | `list_add`, `list_delete`, `list_head` | scheduler, process calls, semaphores |
| Processes, scheduler (`process.c`, `irqHandle.c`, `kvm.c`) | `pcb[]`, `idle`, `current`, `p_num`, `tss.esp0` | `fork_aux`, `exit_aux`, `sleep_aux`, `timerHandle`, `try_to_wakeup`, `schedule` | everything |
| Semaphores (`sem.c`) | `sem_t` in user memory (two copies after a fork), `psem` of each PCB, the one list `dummysem` | `sem_init`, `sem_destroy`, `sem_wait` (P), `sem_post` (V) | scheduler |
| Keyboard input (`irqHandle.c`, `keyboard.c`) | `BUF`, `buf_in`, `buf_out`, `intr_nesting` | `keyboardHandle`, `wait_for_keyboard`, `read` of stdin | timer (does nothing while nesting) |
| Open files (`irqHandle.c`) | `sysFileTable`, `sys_file_num`; `filepointer`, `fp_num` of each PCB | `open`, `read`, `write`, `lseek`, `close`, `remove`, `ls`, `cat`; `fork` shares, `exit` does not close | file system image |
| File system image (`fs.c`) | superblock with `inode_map`; inodes with type, size, name, data or entries | search, create, remove, read, write | open files, disk |
| Disk (`disk.c`, `kvm.c`, repeated in `bootloader/boot.c`) | sectors | `readBytes`, `writeBytes`; `loadFS`, `loadUMain` at the start, `writeBack` at every exit | image |
| System calls (`irqHandle.c`), user memory | the regions at 0x200000 and 0x400000; `path_offset` | `syscallHandle`; buffers of process 2 are translated, paths never | all of the above |
| Screen (`screen.c`), `printk`, `printQ` | cursor, video memory | `screen_put`, ... | `write` to stdout, keyboard echo |
| User library (`lib/syscall.c`) | `inbuf`, `outbuf` | `printf`, `scanf`, wrappers | system calls |
| Set-up | descriptor tables, PIC, PIT, serial port, boot loader | once, at start | |
| Assertions (`lib/abort.c`) | | `abort`: interrupts off, `hlt` for ever | everything |

What is hard here: a handler changes several lists, a table and a counter
together, and every later one relies on their agreement; PCBs are relinked
while a loop stands on them; semaphores of different programs share one list;
slots of the file table are shared over forks; directory entries and inodes
are reused; and nearly every error ends in `assert(0)`, which stops the
machine. `PROJECT.json` lists these hazards line by line, with the properties
that watch over them.

What makes each component correct:

- lists: the chains are disjoint and are queues; the wake-up walk visits each sleeper once;
- processes: a PCB is on the list its state names; one runs, on its own frame
  and with time left; the runnable list is first come, first served; everybody
  who is runnable runs, everybody who sleeps wakes;
- semaphores: negative values account for the waiters, and no waiter is lost;
- open files: no close takes a slot away from another process, the counters
  agree with the tables, nobody disturbs a file he does not share;
- image: one entry for each file, under its name, and every search reaches every entry;
- disk: what was saved is what is loaded, and a torn image is still one the
  kernel can work with; nothing is read over what must stay;
- console: every character typed reaches one reader, in order, and a waiting
  reader goes on; the screen shows what was printed;
- system calls: a call works on its caller's memory and on the path it was given.

## 2. Modules

| Module | Models | Notes |
|---|---|---|
| `KernelLists` | `list.c`, and the loop of `try_to_wakeup`, on sequences | pure operators; `Keep` is what a walk leaves or takes |
| `Queues` | what the kernel expects of its lists | abstract specification |
| `PcbLinks` | the same lists as `next` pointers, the walk turn by turn | refines `Queues` |
| `Semaphore` | what a program expects of one semaphore | abstract specification |
| `Processes` | `process.c`, `sem.c`, the scheduling half of `irqHandle.c`, `initPcb` | core module; refines `Semaphore` |
| `FileSystem` | `fs.c` | pure operators on one record `fs` |
| `OpenFiles` | the file calls of `irqHandle.c`, the file half of `fork_aux` | EXTENDS `FileSystem` |
| `Disk` | `disk.c`, and the ELF loops of `loadUMain` and `bootMain` | pure operators on bytes |
| `StableStore` | what the disk promises of the image | abstract specification |
| `Persistence` | `loadFS`, `writeBack` sector by sector, power loss | EXTENDS `FileSystem`, `Disk`; refines `StableStore` |
| `Stdio` | the conversions of `lib/syscall.c` and of `printQ` | pure operators on sequences of characters |
| `InputQueue` | what `read` of stdin promises | abstract specification |
| `Console` | `keyboard.c`, `screen.c`, `wait_for_keyboard`, `read` and `write` of the standard files, programs that scan and print | EXTENDS `Stdio`; refines `InputQueue` |
| `Paths` | the path strings of `fs.c`, `path_offset` | pure operators |
| `AddressSpaces` | what programs take for granted of memory | abstract specification |
| `Kernel` | the composition: scheduler, file calls, paths, the two memory regions | EXTENDS `Processes`, `Paths`; refines `OpenFiles` and `AddressSpaces` |
| `MCProcesses`, `MCOpenFiles`, `MCPersistence`, `MCConsole`, `MCKernel` | | values for TLC |
| `KernelListsProofs` | | lemmas about lists |
| `PcbLinksProofs` | | proofs about `PcbLinks`, EXTENDS `KernelListsProofs` |
| `ProcessesProofs` | | proofs about `Processes`, for all programs and for disciplined ones |
| `FileSystemProofs`, `OpenFilesProofs` | | lemmas about the image, proofs about `OpenFiles` |
| `PersistenceProofs` | | proofs about `Persistence` and `Disk`, EXTENDS `FileSystemProofs` |
| `KernelProofs` | | proofs about the path strings and about the composition |
| `ConsoleProofs` | | proofs about `Stdio` and `Console` |

### Processes

A variable for each field: `state`, `timeCount`, `sleepTime`, `psem` are
functions of the PCB; a PCB is its index, a process's pid is its index too,
and 0 is `idle`. The four lists are sequences. `esp0` names the PCB whose frame
the TSS points behind. `value` and `semlist` are the fields of the `sem_t`
objects, of which `fork` makes a second copy at `Child_Data_Offst`; only
`sem_init` by process 2 reaches that copy. `typed` is `buf_in - buf_out`.
`panic` says why the kernel has stopped: a failed assertion of `list_delete`
or `list_head`, an exception (`fault`), or `wild`, the use of a NULL `psem` or
list pointer, after which C promises nothing and the model stops.

Each handler is one action: `Timer`, `Keyboard`, `Fork`, `Exit`, `Sleep`,
`SemInit`, `SemDestroy`, `SemWait`, `SemPost`, `ReadStdin`. `schedule()` is the
operator `Schedule`, entered with the tables as its caller has left them. A
read that must wait is two actions, `ReadStdin` and `FinishRead`; in between
only `Timer`, which then does nothing, and `Keyboard` happen.

Left out here: the registers in trap frames, the user's memory except semaphores
(see `Kernel`), `writeBack` in `exit_aux` (see `Persistence`).

### PcbLinks

`next` is the pointer field of PCBs and heads. `list_addTo`, `list_deleteFrom`,
`TakeHead` (`list_head`, then `list_delete`) and `ResetWaiters`
(`dummysem.next = NULL`) are the operations the kernel performs. `StartWalk`,
`WakeStep`, `PassStep` and `EndWalk` are `try_to_wakeup`, whose cursor is saved
before the PCB it stands on moves. A PCB that is unlinked or dropped keeps its
stale pointer. The one assumption about callers, that a PCB is added only while
it is on no list, is what `ProcessesProofs!ListsAgreeWithStates` proves of them.

### FileSystem and OpenFiles

`fs` is the image: `inode_map`, and `type`, `size` (the union of `filesz` and
`filenum`), `filename` and `dirdata` of each inode. Functions of `fs.c` have the
same names. Paths are sequences of components; the bytes of files are left
out. Lengths and offsets are ints between `-IntMax - 1` and `IntMax`, sizes
uint32_t: sums wrap (`Signed`), and an int that is compared with a size or stored in one
becomes `Unsigned`. So the assertion of `writeF` (`canWriteF`) may pass although the
write is not inside the datablock (`storesInside`), and a size may be huge. A search
counts `filenum` entries in use as the loops do (`Searched`).
`rmFL` leaves `filenum`, and the inode's size, type and name, as they were, as
the code does.

`OpenFiles` has one action for each call, for any descriptor of a PCB's table (the
code does not check a descriptor against `MAX_FP_NUM`; those outside are left out); an
error is `panic = "assert"` or `"wild"` (index -1 into a table, a byte stored or loaded
outside a datablock, as by `cat` of an `Oversized` file). `CatRelative` is `cat` of a
relative path, which may search anywhere.
`Switch` stands for the scheduler, which here may choose any live process or
`idle`. A new process takes any PCB that is not live, with whatever its table
held. `Kernel` shows that the real scheduler fits in.

### Disk and Persistence

Disk and memory are functions from addresses to bytes. `readSect` and
`writeSect` move one sector. The loops of `readBytes`, `writeBytes` and the ELF
loaders are written in closed form: `Transferred` says which addresses the loop
touches, `SteppedBack` where it starts. `Load` goes through the program headers
one after the other: `loaded[n]` is the memory after the first `n` of them.

`Persistence` lays the image out in units (a byte of `inode_map` or a field of
an inode or entry is one unit) and keeps the order and the ways in which the
real layout falls into sectors. With the sizes of `x86/fs.h` the superblock has
60 bytes, an inode 32804; the header of "/" starts at byte 60 and its entries,
32 bytes each, at byte 96, so that the first sector holds `inode_map`, the
header of "/" and exactly 13 whole entries, and the entries of other
directories straddle sectors. The instance has the same three facts.

`PowerOn` is `kEntry` (`loadFS`, then `loadUMain`); `CreateFile`, `RemoveFile`
and `WriteFile` are what `open`, `remove` and `write` do to the image; `Exit` and
`WriteSect` are `exit_aux` and the turns of the loop of `writeBytes`; `PowerOff`
may happen at any time. A sector is written as a whole or not at all, and the
drive does not reorder: both are the fault model, not the code. A kernel that
has stopped in `abort()` can only be switched off, so a failed assertion needs
no action of its own.

### Stdio and Console

A character is a string of length 1, a text a sequence of them. `Printed` is
the loop of `printf`, of `printk` and of `printQ`; `Feed` is one character for
one of the scan functions, whose loops read one character each turn; `Result`
is the number or text they store. A format is taken apart once, by `Items`
(literals and conversions, each with its argument's place), and both `Printed`
and `scanf` go through the items. Loops over a text are recursive functions on
the places of the text, so that the proofs can reason about them.

`Console` has the real `BUF` with `buf_in` and `buf_out`, which only grow, and
`wild` when a character goes behind its end. `kernel` says where the one system
call is that can be interrupted: `"test"` at the condition of
`wait_for_keyboard`, `"halt"` in its `hlt`. `sti` and `hlt` are one step
(`Wait`): both are inline functions (`x86/cpu.h`) and follow each other, and the CPU accepts
an interrupt only after the instruction behind `sti`. `Wait`, `Deliver`, `Keyboard` and
`Timer` are the steps in between. Programs are sequences of library calls
(`Programs`), carried out with one `read` for each character, so that the clock
may pass the CPU on between any two characters of a word; `results` has one entry
for each step that has ended, and a `printf` may print what an earlier step has
read (`[result |-> n]`). The scheduler is reduced to "anybody may be next", as in `OpenFiles`. The screen is a record of
cells and cursor; cells behind the last row are memory nobody looks at. `Controls` are the
characters that are less than `' '` as a signed char: `screen_put` ignores those it has no
case for, a zero byte in a file that `cat` prints among them. A rule of
`ProgramsAssumption` is that no read of stdin has a negative length, which would move
`buf_out` back.

Three reference definitions stand beside the properties. `Layout` is a text
as the rows of its finished lines and its last line, without cursor or cells.
`Tokens` are the maximal runs of characters that are not blank and that a blank
ends, by their first places (`Starts`); `Nth` is the n-th of a set of numbers.
`Denoted` is the value of a numeral in the unbounded integers.

### Paths and Kernel

`Paths` works on characters: `getTopDir` sets `path_offset` only if it finds a
`/`, `Names` is the walk that `findUpperDirPos`, `findCurrentDirPos` and
`findCurrentFLPos` share, `OffsetAfter` what they leave in `path_offset`.

`Kernel` runs `Processes` with the file tables of `OpenFiles`
(`Files == INSTANCE OpenFiles`), its `live` being the PCBs that are not DEAD
and `current` the scheduler's. Programs have cells of memory in two
regions, at 0x200000 and 0x400000. A path is taken from the father's region
whoever calls, as no path is translated; a buffer from the child's if the
caller is process 2 (`BufferRegion`); `fork` copies the father's region over the
child's. `Compute` stands for anything a program may store. A string that ends
before `path_offset` is read behind its end; what the search finds there is left
open (`StrayOffsets`, and the assertion that may fail or not).

### Discipline

Some properties hold only of programs that behave. Both main modules have a
constant `Disciplined`; with `TRUE`, actions are restricted by `Rule(...)`. In
`Processes`: fork only while a PCB is free, the youngest exits first, sleep for
a positive time, initialise a semaphore to a value >= 0, in the father's memory
and while nobody waits, wait only on initialised ones. In `OpenFiles`: use only
descriptors one has, close them before exit, remove no open file, pass no negative
length, and neither seek to a negative offset nor move one beyond the largest int.
How much is written, and where in the file, no rule says. `Kernel` has both, and two more: a father has one child at a
time and a child none (`OneChild`), and the paths a child passes are where and
as they were in its father's memory (`PathOfFather`); only `cat` may be given a
relative path. A rule never refers to what the property says.

## 3. Runs

| Run | Checks | Bounds | Result |
|---|---|---|---|
| `lists` | `TypeOK`, `Separate`, `WalkSplitsTheList`, `ImplementsQueues` | 4 PCBs, 4 lists | holds |
| `scheduling` | `TypeOK`, `OnListOfState`, `OneRuns`, `FrameOfCurrent`, `CountsProcesses`, `FirstComeFirstServed` | 3 PCBs and idle, slice 2, ints -2..1, 1 semaphore | holds |
| `discipline` | `NoWaiterLost`, `WaitersAccounted`, `NeverPanics`, `CountsItsUnits` | 3 PCBs, slice 1, 2 semaphores, values -2..2 | holds |
| `progress` | `RunnableRuns`, `SleeperWakes` | 2 PCBs, slice 2 | holds |
| `fork_slot` | `ForkFindsItsSlot` | as `scheduling` | violated |
| `post_waiter` | `PostFindsAWaiter` | as `scheduling`, 2 semaphores | violated |
| `files` | `TypeOK`, `NamesMatchInodes`, `SearchesReachAll`, `LinksCoverReferences`, `CountersAgree`, `OthersUndisturbed` | 2 processes, 2 slots, 2 descriptors each beside the standard ones, 2 files in 2 directories, the smallest int as a length and an offset | holds |
| `files_discipline` | `LinksExact`, `OpenFilesExist`, `NeverWild`, `SizesFit` | 3 processes, 2 slots, 1 file at a time, lengths 1 and 2, ints -3..2, blocks of 2 bytes | holds |
| `scan_end` | `ScansEndInside` | as `files`, length 1 | violated |
| `power_loss` | `TypeOK`, `RootNamesSurvive`, `SearchesSurvive`, `ProgramKept`, `KeepsItsPromise` | 5 inodes of 9 entries, sectors of 18 units, image of 7 sectors, 4 file operations, any number of exits, power losses and starts | holds |
| `console` | `TypeOK`, `WordsAreTokens`, `NumbersRoundTrip`, `TextOnScreen`, `ReadsInOrder`, `ReaderServed` | 2 programs of 4 calls, `BUF` of 5, screen of 3 by 4, tabs of 2, ints of 5 bits, 4 scan codes | holds |
| `kernel` | `PathsResolve`, `ImplementsOpenFiles`, `PrivateMemories` | 3 PCBs and idle, slice 1, 3 strings, 1 cell in each region, 2 slots, 1 descriptor beside the standard ones | holds |

Why the bounds are enough to see the interesting cases:

- three PCBs and idle give preemption, a queue of two, a fork with a full
  table, an exit out of order and an idle CPU; the slice of 2 tells "charged"
  from "used up"; an int of four values lets `sleep(0)` wrap; one key and a
  read of one character make the nested wait begin and end;
- two semaphores on the one list of waiters are what confuses them; values up to 2 give
  units that are kept, and three processes a queue of two;
- two slots fill up, so that `open` fails after creating the file; two
  processes share and leak links; a directory with one free entry and inodes
  for two files make entries and inodes be reused. `files_discipline` has one
  inode only, so that every create after a remove reuses it. In `files` the smallest int,
  -3 for 0x80000000, is the one length: it passes the assertion of `writeF`, makes
  `filesz` 3 and the offset -3, and the second time the sum wraps to 0;
- in `power_loss` four file operations are enough to create two files, exit,
  remove one and exit again with the power failing in between and go on with
  what is left; `MaxWork` counts file operations only;
- in `console` five characters fill `BUF` and the sixth goes behind it; a digit, a
  hexadecimal digit, the newline and a release code (158) occur; an int of 5
  bits wraps with two digits; 3 by 4 cells fill up, with echo, so that lines are
  broken and rows are lost; a file with a zero byte is printed in the middle of them;
- in `kernel` the strings are an absolute path of two levels, one below a missing
  directory and a relative one; with `MaxPcb` 4 a second child finds its PCB
  used before;
- `MaxFilenum` and `MaxLinks` bound `filenum` and `link_num`, which grow for ever in
  the code; `SemBound` and `MaxTyped` bound values and unread keys. Offsets need no bound:
  they are ints.

Deadlock is checked in every run but `console`: a stopped kernel has the step
`Halted`, an idle one has `Timer`. In `console` the model ends where a character
has been stored behind `BUF`.

**Fairness.** In `Processes`, `FairSpec` assumes weak fairness of `Timer` and nothing else: the
8253 interrupts 100 times a second whatever programs do, and handlers end.
Programs may compute for ever and nobody needs to type. That is why the two
liveness properties excuse `intr_nesting`: a reader in `wait_for_keyboard` stops
the clock for everybody (`timerHandle` tests `!intr_nesting`). `Console` assumes
the same of its `Timer`, and weak fairness of `WaitLoop`: the kernel's own code
runs on while interrupts are off. Nobody needs to type there either:
`ReaderServed` is about a reader for whom enough has been typed.

**What the runs that refine an abstract specification show.**

- `CountsItsUnits` (refinement of `Semaphore`): as long as a program has initialised one
  semaphore only, it has a counting semaphore that serves waiters in the order they
  came; the units are the value where it is positive. With a second semaphore it fails:
  `V` takes the head of the shared list whoever it waits for. What is left then is
  what `WaitersAccounted` says, that the totals agree.
- `KeepsItsPromise` (refinement of `StableStore`): what an exit has written is
  what the next start loads; changes since are lost; a power loss within
  `writeBack` leaves new sectors followed by old ones and nothing else.
- `RootNamesSurvive` holds after a first such loss: what lies in one sector with
  `inode_map` is consistent. It does not hold after a second one, as programs go on
  with the first mixture; the property says so with `torn`. Nothing of the kind
  holds for files below the root: their entries and inodes are written at
  different times.
- `SearchesSurvive` holds on every mixture of mixtures, because `filenum` precedes
  its entries on the disk and is never decremented: it is at least the number of
  entries in use. The missing decrement that makes `scan_end` fail is what
  makes this hold; the mutant that counts down breaks it, and only by a tear.
- `ProgramKept`: `readBytes` writes up to a sector more on both sides, and the
  order of the program headers and the distance of the segments make up for it
  (`LayoutAssumption`, which the linker's default layout ensures).
- `ReadsInOrder` (refinement of `InputQueue`): a queue for the first `MaxBuf`
  characters since the start, 1024 in the code, read or not; then it is broken.
- `WordsAreTokens`: interleaved readers share the characters, and each cuts its
  own ones into words. `NumbersRoundTrip`: what `%d` prints of a negative number
  `%d` does not read back; `%x` does.
- `ImplementsOpenFiles`: every behaviour of the composed kernel is one of
  `OpenFiles` under the mapping `live`, `current`, so that the invariants of the
  runs `files` and `files_discipline` hold of it. `PrivateMemories`
  (refinement of `AddressSpaces`) needs the rules above: with a second child, or a
  child that builds a path of its own, it fails. `PathsResolve` needs none; the one
  exception it makes is the name of a file made for the path "/", which
  `getLastLevelName` gives as "/" while a search looks for the empty name.

**What the violated runs show.**

- `fork_slot`: `p_num` counts processes and also names the slot of the next
  fork. Fork, exit of the father, fork by the child: slot `p_num` is the child's
  own, `list_delete` asserts, the kernel stops with PCBs free.
- `post_waiter`: a process waits on one semaphore, `sem_init` of another one
  empties the shared list, a post to the first finds a negative value and no
  waiter, `list_head` asserts.
- `scan_end`: create a file and remove it: `filenum` stays, and `ls` and the
  searches go on behind the directory until they have counted enough entries.

For every property of a passing run `PROJECT.json` names a mutant, a change a
plausible bug would make, under which that run fails. The mutants are the
operators that stand before the definition they would replace.

## 4. Proofs

Every theorem holds for every value of the constants that the named assumptions
of the modules allow (`ConstantsAssumption`, `ImageAssumption`,
`TablesAssumption`, `KernelAssumption`, ...); TLC evaluates them in every run. Where
a theorem needs more, its statement says so with `ASSUME` or as a hypothesis.
Every property of the passing runs is proved, but for the three about liveness.
A leaf that needs a second or more of a prover names that prover and its time
(`SMTT(60)`, `ZenonT(60)`), so that the proofs do not depend on how fast or how
busy the machine is: everything is also proved with the time of all leaves cut to
a fifth (`tlapm --stretch 0.2`).

### Lists, processes, semaphores

`KernelListsProofs` proves what the list operators do: `list_add` and
`list_delete` add and remove exactly their argument and keep lists free of
repetitions, `list_head` returns a member, and `Keep(list, S)` has exactly the
members of the list that are in `S`. Its lemmas are restated with
`Lists(T, list, X)` ("list is a sequence over T without repetitions whose
members are X"), and with `KeepsOrder(list, list')` ("of two that are on both, the one
ahead stays ahead"), the forms the next modules need.

| Theorem | States |
|---|---|
| `ProcessesProofs!Inductive` | `Spec => []IInv` |
| `TypeCorrect`, `ListsAgreeWithStates`, `RunningProcess`, `FrameIsCurrents`, `PNumCounts` | `[]TypeOK`, `[]OnListOfState`, `[]OneRuns`, `[]FrameOfCurrent`, `[]CountsProcesses` |
| `NobodyOvertakes` | `Spec => FirstComeFirstServed` |
| `ProcessesProofs!InductiveDiscipline` | `Spec => []DInv`, if `Disciplined` |
| `WaitersStayListed`, `ValuesCountWaiters`, `KernelStaysUp` | `[]NoWaiterLost`, `[]WaitersAccounted`, `[]NeverPanics`, if `Disciplined` |
| `ImplementsSemaphore` | `Spec => CountsItsUnits`, if `Disciplined` and there is a semaphore |

The inductive invariant `IInv` of `ProcessesProofs` is the conjunction of the properties. None of
them is inductive alone: that `schedule()` may put `current` on a list needs
that it is on none (`OnListOfState` and `OneRuns`); that the head of the
runnable list can be made RUNNING needs that it is RUNNABLE; that a slice is
never charged below 0 needs that `current` has time left; that the lone process
may keep the old `esp0` needs `FrameOfCurrent`. `SchedInv` collects what
`schedule()` re-establishes, with two relaxations a handler needs while it
prepares the call, and `ScheduleKeeps` proves it once for all callers. Then
there is one lemma for each action, and `NextKeeps` joins them.

`NobodyOvertakes` is an action property and rests on `IInv`: `schedule()` adds the
current process at the end and takes the head away, the wake-up walk appends
those it keeps, and each of these operators keeps the order of what stays.

The discipline adds to `IInv`, in `DInv`, why each assertion cannot fail:
`SlotsInOrder`, that the dead slots are those from `p_num` on, so that `fork` finds its
slot on the free list; `WaitersListed`, that whoever is SEM_BLOCKED is on `dummysem`;
`Initialised`, that `psem` points into the father's memory at an initialised semaphore,
so that no list pointer is NULL; and `Accounted`, that `dummysem` is as long as the
set `Promised` of the units owed is large (the sum of the negative values, taken
as a set of pairs so that it can be added to one at a time), so that `V` finds a head when it finds
a negative value. `ImplementsSemaphore` maps the steps of `Processes` to those of
`Semaphore`; that the first waiter is the one served is `list_head`, and the units
are the value because all that is owed is owed by the one semaphore.

### Lists as pointers

| Theorem of `PcbLinksProofs` | States |
|---|---|
| `InductiveLinks` | `Spec => []IInv` |
| `TypeCorrect`, `ChainsSeparate` | `[]TypeOK`, `[]Separate` |
| `WalksSplit` | `[]WalkSplitsTheList` |
| `LinksImplementQueues` | `Spec => ImplementsQueues` |

`Holds(next, L)` says that the pointers hold the lists `L`: every place on the chain
of a head points to the next one and the last to NULL (`Linked`), no PCB is twice
on a list or on two. It is what makes one assignment of a pointer local: the
place before a PCB is on that PCB's own list (`BeforeFinds`), and nothing points to one
that is added, whatever stale pointer it has. `AddedChain` and `DeletedChain` are the two ways in
which `list.c` changes a chain. `Chain`, the `while` loops over `next`, is a
recursive function; that it exists and ends is shown by bounding the steps it may take
(`Trail` is what `n` steps can see of a chain; a chain without repetitions has
no more places than there are PCBs).

`WalkInv` is the invariant of `try_to_wakeup`'s loop: the blocked list is what the
walk has passed, then what it has not come to, whose first is the saved cursor; the
runnable list is the old one, then what the walk has woken. `Separate` alone is not
inductive, as it does not say that stale pointers are not followed, and neither is
`WalkSplitsTheList`, which speaks of the end of the walk only. The one
assumption, `LinksAssumption`, is that there are finitely many PCBs and that they
are neither heads nor NULL.

### Files

| Theorem of `OpenFilesProofs` | States | If |
|---|---|---|
| `InductiveTyped` | `[]Typed` | |
| `SearchesAreComplete` | `[]SearchesReachAll` | |
| `InductiveLinked` | `[](Typed /\ Linked)` | `NoPathIsRoot` |
| `TypeCorrect`, `LinksCover`, `CountersCount` | `[]TypeOK`, `[]LinksCoverReferences`, `[]CountersAgree` | `NoPathIsRoot` |
| `OthersStayUndisturbed` | `OthersUndisturbed` | `NoPathIsRoot` |
| `LinksStayExact` | `[]LinksExact` | `NoPathIsRoot`, `Disciplined` |
| `InductiveTame` | `[]Tame` | `NoPathIsRoot`, `Disciplined` |
| `SizesStayInBounds`, `KernelStaysTame` | `[]SizesFit`, `[]NeverWild` | `NoPathIsRoot`, `Disciplined` |
| `InductiveConsistent`, `NamesMatch` | `[]Consistent(fs)`, `[]NamesMatchInodes` | `FilesOnly` |
| `OpenFilesStay` | `[]OpenFilesExist` | `FilesOnly`, `Disciplined` |

The invariant comes in three layers. `Typed` says that the image is well formed,
most of all that no directory has more entries in use than `filenum` counts, which
is what makes a counting search complete (`SearchReachesAll` of
`FileSystemProofs`), and that sizes and offsets are what their C types hold. `Linked`
adds that each slot has at least as many links as descriptors, that a free slot has neither, and that the
counters count; the cardinalities change by one in `Open` and `Close` and
by `Links` in `Fork`. `Consistent` adds that each file in use has one entry, under its
own name, and that each name occurs once in a directory: `remove` looks for the
entry by the inode's name, and clears the right one only for this reason.
`LinksExact`, `Tame` and `OpenFilesExist` are inductive relative to these layers. `Tame` is
three facts that need each other: a size within the block, as a read past the end sets the
offset to it; no offset below 0, as a write from there would pass the assertion; and a
kernel that has not gone wild. That lengths are not negative and sums do not wrap are rules
of the discipline, and both are needed, as the assertion of `writeF` compares a
sum of two ints (fs.c:363): of other programs `write(fd, buf, -1)` at offset 0 stores nothing but
leaves a `filesz` of 0xFFFFFFFF, and after `lseek(fd, 0x7FFFFFFF, SEEK_SET)` one byte is stored far
outside the block. With `Disciplined = FALSE` TLC refutes `SizesFit` by an `open` and such a write.

The hypotheses on the paths are not for convenience. `open("/")` makes a file that
no search finds and leaves `inode_index` -1 in a slot it counts; `open("/usr/")` makes
a file with a directory's name, and `remove("/usr/")` then clears the directory's
entry. With such a path among `Paths`, TLC refutes `LinksCoverReferences` and `NamesMatchInodes`;
`PROJECT.json` lists both as hazards. `NoPathIsRoot` and `FilesOnly` exclude them,
and the instances of the runs fulfil both.

### Disk and persistence

| Theorem of `PersistenceProofs` | States | If |
|---|---|---|
| `InductiveImage` | `[]IInv` | |
| `TypeCorrect`, `SearchesReachTornEntries` | `[]TypeOK`, `[]SearchesSurvive` | |
| `DiskIsStable` | `KeepsItsPromise` | |
| `ProgramIsKept` | `[]ProgramKept` | |
| `FirstSectorNamesSurvive` | `[]RootNamesSurvive` | `FilesOnly` |

The invariant says what the disk holds at every moment, in closed form
(`DiskOf`): the programs, then the bytes of the image in memory up to the sector
that `writeBack` writes next, then those of the image saved last. `SectorWritten`
moves that border by one sector, and `LoadFSReads` shows that a start reads the
image's bytes and no others although `readBytes` moves whole sectors. A torn image is read
field by field, each from one of the two (`IsMixture`), and `MixtureBytes` shows that
writing it out again gives back the very bytes it was read from, so that the disk
is the same whether it is described by two images or by the one they have left.

`Covers(fs, saved)` is why the searches survive: the image in memory counts, in
each directory, its own entries and those still on the disk. `rmFL` does not
decrement `filenum`, and so a mixture, which has one of the two counts and a part of each image's
entries, counts enough (`MixtureWellFormed`). For the names in the first sector more is
needed, that both images are `Sound` (one entry for each file, subdirectories in their
places) and that the sector holds `inode_map` and those entries together
(`MixtureNames`); after a second tear this is lost, and `RInv` says so with `torn`.

`ProgramIsKept` goes through `loadUMain` header by header: each turn puts its segment
in place (`SegmentInPlace`) and leaves the earlier ones (`SegmentStays`). This is
where `SegmentsAssumption` is needed: what `readBytes` spills over a segment's ends, and the part it
clears, must not lie on an earlier segment. The linker's default layout, with every segment on
pages of its own and in ascending order, gives that; the code does not check it. An
assumption about what is read alone would not do: the clearing of a `.bss` can overwrite
an earlier segment as well. `LayoutAssumption` says where the image lies, whole
sectors with room for `x86/fs.h`'s structures, and `WorkAssumption` that paths are not
empty.

### Paths and the composition

| Theorem | States |
|---|---|
| `KernelProofs!NamesAreComponents` | `Names(path, path_offset) = Components(path)` for every absolute path and every offset |
| `SearchesFollowPaths` | `KernelSpec => []PathsResolve` |
| `FilesAsAlone` | `KernelSpec => ImplementsOpenFiles` |
| `MemoriesArePrivate` | `KernelSpec => PrivateMemories` |

`Components` says what the names of a path are without a loop: the n-th name ends at
the n-th `/` behind the first, or at the end. `KernelProofs` gives
what the loop finds from each place on (`FromHere`), shows that one turn (`Turn`)
takes the first name off it, and that no other function does the same, which is
an argument by the last place where two could differ.

`KInv` is `IInv` and `TwoRegions`, that the live processes are among `pcb[1]` and
`pcb[2]`: with `p_num = 2` while the father is alone (`CountsProcesses`), a fork
takes `pcb[2]`, which is then on the free list (`OnListOfState`), and so it cannot fail. `FilesAsAlone` needs
that `current` is live or idle after every step of the scheduler, and that the
paths the file calls get are among `Components` of the strings, which is
`NamesAreComponents`. `MemoriesArePrivate` needs that `Region` is one to one
on `{1, 2}` and that `BufferRegion` agrees with it.

### Console

| Theorem of `ConsoleProofs` | States |
|---|---|
| `IndicesNeverCross` | `Spec => []CInv` |
| `TypedIsRead` | `Spec => ReadsInOrder` |
| `InductivePrograms` | `Spec => []ProgramsInv` |
| `TypeCorrect` | `Spec => []TypeOK` |
| `ScreenShowsText` | `Spec => []TextOnScreen` |
| `NumbersReadBack` | `Spec => []NumbersRoundTrip` |
| `InductiveWords` | `Spec => [](ProgramsInv /\ WordsInv)` |
| `ReadsGetTokens` | `Spec => []WordsAreTokens` |

They hold for every size of `BUF` and of the screen, every width of an int, every
set of scan codes and all programs.

**Input.** `CInv` has two parts. `BufferInv` says that `buf_out <= buf_in <= MaxBuf + 1` and
that `wild` is set exactly when `buf_in` is beyond `BUF`; without it `Deliver` could not be
said to take the front of the queue. `ReadInv` says that a read in progress belongs
to the current process and that this process still has the call to do: `timerHandle` must
not pass the CPU on between `Read` and `Deliver`, hence `kernel = "halt" => intr_nesting`.
There is one lemma for each action: `Deliver` is a `Take`, `Keyboard` a `Type`, an
`Overrun` or a stutter, and the rest are stutters.

**Loops over texts.** The prover has no induction over data with an operator as its
parameter, but a set will do: `UpTo` is induction for the members of a set
`{n \in 0 .. N : ...}`, by the least number that is not in it. `Iterates` shows from
it that the recursive function of a loop exists and what each of its turns does.
Each loop then gets a lemma of its own form (`WrittenSteps`, `ItemsSteps`,
`NumberSteps`, ...), and what is claimed of the loop is proved turn by turn.

**Screen.** `ProgramsInv` adds to `CInv` that results, current state and what is left
of a program belong together (`StepsInv`, `ScanInv`) and are of the types the formats promise, so
that what is printed is always text; and `ScreenInv`, that the screen `Matches`
the layout of all that was shown. `Matches` ties the cursor to the page: it stands behind the
last line, on the row that follows the finished ones, and each cell shows its place
of the page or a blank. `PutMatches` shows that
`screen_put` keeps this for one character; the case that is easy to get wrong is a
tab or a character that ends exactly at the last column. `TextOnScreen` is about texts
that are `Plain`, with no backspace and no carriage return: both take the cursor back over what
is there, which a layout does not know. The keyboard driver produces neither.

**Numbers.** `NumeralSteps` shows what `print_dec` and `print_hex` print, digit by digit;
`NumeralsReadBack` that the scanning loop gets the number back, by a descent from `n`
to `n \div base`; `IntsReadBack` adds the sign, and the smallest int, which has no negative.

**Words.** `TokensGrow` and `WordGrows` say what one more character makes of the
tokens of a text and of `Word`, the characters behind its last blank. A piece is
a token or that word, and the pieces `Fit` a process as far as each is made of the characters the
read at its place asks for. `WordsInv` says that as long as they fit, as many reads have
returned as there are tokens, the scan function holds exactly `Word` (`InTurn`), and every
read that has returned has its token's value. It is not inductive without `Fit`
for the word that is still growing: a letter where a digit is asked for ends the read early, and from there
on reads and tokens differ. What was returned before stays (`ReturnsStay`).
`NumberDenoted` shows that the remainder an int takes at every digit is that of the
number denoted.

The assumptions are what the C compiler or the caller answers for: that programs
consist of library calls with arguments of their types (`ProgramsAssumption`),
that a conversion of `printf` gets an argument of the kind it asks for (`ArgumentsAssumption`;
the code cannot check it), that the characters of keys, digits and signs are characters
(`CharactersAssumption`, `KeysAssumption`), which characters take no cell (`ControlsAssumption`), and that the sizes are positive and the
tabs divide the columns, 80 by 8 in the code (`ConsoleAssumption`).

### Only model-checked

Liveness (`RunnableRuns`, `SleeperWakes`, `ReaderServed`): a proof from weak
fairness needs `ENABLED`, which is out of the prover's reach. The three runs that
expect a violation are counterexamples and need no proof.

## 5. Plan

Done: lists, processes with semaphores, open files over the image, disk and
power loss, console and library, paths and the composed kernel, five abstract
specifications, the proofs of section 4. Left: file bytes in `OpenFiles`, so that
what is read can be compared with what was written.

## 6. Not modelled

Descriptor encodings, PIC, PIT and serial set-up, the switch to protected mode
(`start.S`) and port I/O, the drive's included, are straight-line initialisation
or pure I/O. `printk` writes to the serial port and changes nothing. `makeDir`,
`makeRootDir`, `ls` and `testfs` of `fs.c` are never called. Of the screen,
colours and the cursor the hardware shows; of names, `MAX_FILENAME_LEN`, and what
a longer one would overwrite; descriptors outside a PCB's table; of the library, the sizes of `inbuf` and `outbuf`,
formats that end in `%`, and the one-line wrappers of `int $0x80`. The bytes of
files, except those of the user program. The sample application is one
straight-line use of calls that `OpenFiles` and `Console` allow. `PROJECT.json`
lists as hazards without a property what goes wrong at these places.
