----------------------------- MODULE OpenFiles -----------------------------
(***************************************************************************)
(* Open files: the file system calls of irqHandle.c (open_aux, read_aux,   *)
(* write_aux, lseek_aux, close_aux, remove_aux) and the file half of       *)
(* fork_aux, over the image of FileSystem.tla.                             *)
(*                                                                         *)
(* Processes share sysFileTable; each PCB has a table filepointer of       *)
(* indices into it.  A call runs with interrupts disabled, so it is one    *)
(* action.  Scheduling is any choice among the live processes: Switch      *)
(* stands for schedule(), which Processes.tla models, as it does for the   *)
(* PCB a fork takes.                                                       *)
(***************************************************************************)
EXTENDS FileSystem

CONSTANTS
  MaxPcb,        \* MAX_PCB_NUM
  MaxFp,         \* MAX_FP_NUM
  MaxSysFile,    \* MAX_SYS_FILE_NUM
  Paths,         \* arguments of open and remove
  Lens,          \* lengths for read and write
  Seeks,         \* offsets for lseek
  MaxFilenum,    \* bound on filenum, which nothing decrements
  MaxLinks,      \* bound on link_num, which an exit does not decrement
  Disciplined    \* TRUE if programs keep the rules listed under Discipline

Pcbs     == 1 .. MaxPcb - 1
stdin    == 0
stdout   == 1
FirstFd  == 3
Fds      == 0 .. MaxFp - 1
SysFiles == 0 .. MaxSysFile - 1
Whences  == {"SEEK_SET", "SEEK_CUR", "SEEK_END", "other"}

ASSUME TablesAssumption ==
  /\ MaxPcb \in Nat /\ MaxPcb >= 2
  /\ MaxFp \in Nat /\ MaxFp > FirstFd
  /\ MaxSysFile \in Nat \ {0}
  /\ Paths \subseteq Seq(STRING) \ {<< >>}
  /\ Lens \subseteq Ints /\ Seeks \subseteq Ints
  /\ MaxFilenum \in Nat /\ MaxLinks \in Nat
  /\ Disciplined \in BOOLEAN

VARIABLES
  fs,             \* the image in memory
  sysFileTable,   \* inode_index, link_num and offset of each slot
  sys_file_num,
  filepointer,    \* filepointer[p][fd]: a slot of sysFileTable, or -1
  fp_num,
  live,           \* the processes
  current,        \* the one that runs, or 0 for idle
  panic           \* "none", or why the kernel has stopped

tables == <<fs, sysFileTable, sys_file_num, filepointer, fp_num>>
vars   == <<tables, live, current, panic>>

-----------------------------------------------------------------------------
(* initPcb, preparePCB and loadFS. *)
Init ==
  /\ fs = Image
  /\ sysFileTable = [s \in SysFiles |-> [inode_index |-> -1, link_num |-> 0, offset |-> 0]]
  /\ sys_file_num = 0
  /\ filepointer = [p \in Pcbs |-> [fd \in Fds |-> -1]]
  /\ fp_num = [p \in Pcbs |-> FirstFd]
  /\ live = {1}
  /\ current \in {0, 1}
  /\ panic = "none"

(***************************************************************************)
(* "assert": an assertion fails and the machine halts.  "wild": the kernel *)
(* uses sysFileTable[-1], an inode -1 of that table, or a byte outside a   *)
(* datablock; what follows is undefined and not modelled.                  *)
(***************************************************************************)
Panic(why) == panic' = why /\ UNCHANGED <<tables, live, current>>

Up == panic = "none"

(***************************************************************************)
(* Discipline.  With Disciplined = TRUE programs use the descriptors they  *)
(* have opened and no others, close them before they exit, remove only     *)
(* files nobody has open, pass no negative length, and neither seek before *)
(* the start of a file nor move an offset beyond the largest int.          *)
(***************************************************************************)
Rule(condition) == Disciplined => condition

Slot(fd) == filepointer[current][fd]
Inode(fd) == sysFileTable[Slot(fd)].inode_index
Offset(fd) == sysFileTable[Slot(fd)].offset

\* The descriptors that name a slot; and those that name one with a file.
Opened(p) == {fd \in Fds : filepointer[p][fd] # -1}
HasFile(fd) == Slot(fd) # -1 /\ Inode(fd) # -1

InRange(fd, len) == len >= 0 /\ Offset(fd) + len <= IntMax

MoveTo(fd, position) ==
  sysFileTable' = [sysFileTable EXCEPT ![Slot(fd)].offset = position]

getAvlSystemFileUnlinked == First({s \in SysFiles : sysFileTable[s].link_num <= 1})
getAvlSystemFile == First({s \in SysFiles : sysFileTable[s].inode_index = -1})
getAvlFilepointer == First({fd \in Fds \ 0 .. FirstFd - 1 : Slot(fd) = -1})

\* open_aux: a file that does not exist is made, before the tables are searched.
Open(path) ==
  LET exists == isFLExist(fs, path)
      now    == IF exists THEN fs ELSE makeFL(fs, path)
      s      == getAvlSystemFile
      fd     == getAvlFilepointer
  IN  /\ Up /\ current # 0
      /\ \/ /\ findUpperDirPos(fs, path) = -1
            /\ Panic("assert")
         \/ /\ findUpperDirPos(fs, path) # -1
            /\ ~exists /\ ~canMakeFL(fs, path)
            /\ Panic("assert")
         \/ /\ findUpperDirPos(fs, path) # -1
            /\ exists \/ canMakeFL(fs, path)
            /\ exists \/ fs.size[findUpperDirPos(fs, path)] < MaxFilenum
            /\ fs' = now
            /\ \/ /\ s = -1 \/ fd = -1
                  /\ panic' = "assert"
                  /\ UNCHANGED <<sysFileTable, sys_file_num, filepointer, fp_num>>
               \/ /\ s # -1 /\ fd # -1
                  /\ sysFileTable' = [sysFileTable EXCEPT
                       ![s] = [inode_index |-> findCurrentFLPos(now, path),
                               link_num |-> 1, offset |-> 0]]
                  /\ filepointer' = [filepointer EXCEPT ![current][fd] = s]
                  /\ sys_file_num' = sys_file_num + 1
                  /\ fp_num' = [fp_num EXCEPT ![current] = @ + 1]
                  /\ UNCHANGED panic
            /\ UNCHANGED <<live, current>>

\* write_aux, other than to stdout.  The assertion comes before the inode is used.
Write(fd, len) ==
  /\ Up /\ current # 0 /\ fd # stdout
  /\ Rule(Slot(fd) # -1 /\ InRange(fd, len))
  /\ \/ /\ Slot(fd) = -1
        /\ Panic("wild")
     \/ /\ Slot(fd) # -1 /\ ~canWriteF(len, Offset(fd))
        /\ Panic("assert")
     \/ /\ Slot(fd) # -1 /\ canWriteF(len, Offset(fd))
        /\ Inode(fd) = -1 \/ ~storesInside(len, Offset(fd))
        /\ Panic("wild")
     \/ /\ HasFile(fd) /\ canWriteF(len, Offset(fd)) /\ storesInside(len, Offset(fd))
        /\ fs' = writeF(fs, Inode(fd), len, Offset(fd))
        /\ MoveTo(fd, Signed(Offset(fd) + len))
        /\ UNCHANGED <<sys_file_num, filepointer, fp_num, live, current, panic>>

\* Reading past the end moves to the end, backwards if the offset was beyond it.
\* Here filesz is an int.
AfterRead(fd, len) ==
  LET filesz == Signed(fs.size[Inode(fd)])
      end    == Signed(Offset(fd) + len)
  IN  IF end > filesz THEN filesz ELSE end

\* read_aux, other than from stdin.
Read(fd, len) ==
  /\ Up /\ current # 0 /\ fd # stdin
  /\ Rule(Slot(fd) # -1 /\ InRange(fd, len))
  /\ \/ /\ HasFile(fd) => ~readsInside(fs, Inode(fd), len, Offset(fd))
        /\ Panic("wild")
     \/ /\ HasFile(fd) /\ readsInside(fs, Inode(fd), len, Offset(fd))
        /\ MoveTo(fd, AfterRead(fd, len))
        /\ UNCHANGED <<fs, sys_file_num, filepointer, fp_num, live, current, panic>>

\* lseek_aux.  Only SEEK_END looks at the inode.
Target(fd, offset, whence) ==
  CASE whence = "SEEK_SET" -> offset
    [] whence = "SEEK_CUR" -> Offset(fd) + offset
    [] whence = "SEEK_END" -> fs.size[Inode(fd)] + offset

Lseek(fd, offset, whence) ==
  LET valid == IF whence = "SEEK_END" THEN HasFile(fd) ELSE Slot(fd) # -1
  IN  /\ Up /\ current # 0
      /\ Rule(Slot(fd) # -1 /\ whence # "other")
      /\ \/ /\ whence = "other"
            /\ Panic("assert")
         \/ /\ whence # "other" /\ ~valid
            /\ Panic("wild")
         \/ /\ whence # "other" /\ valid
            /\ Rule(Target(fd, offset, whence) \in 0 .. IntMax)
            /\ MoveTo(fd, Signed(Target(fd, offset, whence)))
            /\ UNCHANGED <<fs, sys_file_num, filepointer, fp_num, live, current, panic>>

\* close_aux; left is the number of links that remain.
CountAlways(left) == sys_file_num - 1
CountIfFreed(left) == IF left = 0 THEN sys_file_num - 1 ELSE sys_file_num
Close(fd) ==
  LET s    == Slot(fd)
      left == sysFileTable[s].link_num - 1
  IN  /\ Up /\ current # 0
      /\ Rule(Slot(fd) # -1)
      /\ \/ /\ s = -1
            /\ Panic("wild")
         \/ /\ s # -1
            /\ sysFileTable' = [sysFileTable EXCEPT
                 ![s] = IF left = 0 THEN [inode_index |-> -1, link_num |-> 0, offset |-> 0]
                        ELSE [@ EXCEPT !.link_num = left]]
            /\ sys_file_num' = CountIfFreed(left)
            /\ filepointer' = [filepointer EXCEPT ![current][fd] = -1]
            /\ fp_num' = [fp_num EXCEPT ![current] = @ - 1]
            /\ UNCHANGED <<fs, live, current, panic>>

\* remove_aux.
Unlink(path) ==
  /\ Up /\ current # 0
  /\ \/ /\ findUpperDirPos(fs, path) = -1
        /\ Panic("assert")
     \/ /\ findUpperDirPos(fs, path) # -1
        /\ Rule(~\E s \in SysFiles :
                  /\ sysFileTable[s].inode_index # -1
                  /\ sysFileTable[s].inode_index = findCurrentFLPos(fs, path))
        /\ fs' = rmFL(fs, path)
        /\ UNCHANGED <<sysFileTable, sys_file_num, filepointer, fp_num, live, current, panic>>

\* ls_aux and cat_aux print, names or the filesz bytes of a file; like every search
\* they stop at a missing directory.
Oversized == {i \in Inodes \ Dirs : fs.size[i] > MaxFile}
Show(path) ==
  /\ Up /\ current # 0
  /\ \/ /\ findUpperDirPos(fs, path) = -1
        /\ Panic("assert")
     \/ /\ findUpperDirPos(fs, path) # -1
        /\ findCurrentFLPos(fs, path) \in Oversized
        /\ Panic("wild")
     \/ /\ findUpperDirPos(fs, path) # -1
        /\ UNCHANGED vars

\* cat of a relative path: the search begins at the offset the last path has left,
\* behind the end of the string even (fs.c:168), and finds a directory, a file of
\* any name in it, or neither.
CatRelative ==
  /\ Up /\ current # 0
  /\ \/ Panic("assert")
     \/ Oversized # {} /\ Panic("wild")
     \/ UNCHANGED vars

\* The file half of fork_aux; child is the PCB taken from the free list.
Links(table) == [s \in SysFiles |-> Cardinality({fd \in Fds : table[fd] = s})]
ForkTablesUnlinked(child) ==
  /\ filepointer' = [filepointer EXCEPT ![child] = filepointer[current]]
  /\ fp_num' = [fp_num EXCEPT ![child] = fp_num[current]]
  /\ UNCHANGED <<fs, sysFileTable, sys_file_num>>
ForkTables(child) ==
  /\ filepointer' = [filepointer EXCEPT ![child] = filepointer[current]]
  /\ fp_num' = [fp_num EXCEPT ![child] = fp_num[current]]
  /\ sysFileTable' = [s \in SysFiles |->
       [sysFileTable[s] EXCEPT !.link_num = @ + Links(filepointer[current])[s]]]
  /\ \A s \in SysFiles : sysFileTable'[s].link_num <= MaxLinks
  /\ UNCHANGED <<fs, sys_file_num>>
Fork(child) ==
  /\ Up /\ current # 0 /\ child \notin live
  /\ ForkTables(child)
  /\ live' = live \cup {child}
  /\ UNCHANGED <<current, panic>>

\* exit_aux closes no file.
Exit ==
  /\ Up /\ current # 0
  /\ Rule(Opened(current) = {})
  /\ live' = live \ {current}
  /\ current' \in live' \cup {0}
  /\ UNCHANGED <<tables, panic>>

\* schedule(), to idle when nobody else is runnable.
Switch ==
  /\ Up
  /\ current' \in (live \cup {0}) \ {current}
  /\ UNCHANGED <<tables, live, panic>>

\* abort(), or idle for ever.
Halted == (~Up \/ live = {}) /\ UNCHANGED vars

Next ==
  \/ \E path \in Paths : Open(path) \/ Unlink(path) \/ Show(path)
  \/ \E fd \in Fds, len \in Lens : Read(fd, len) \/ Write(fd, len)
  \/ \E fd \in Fds, offset \in Seeks, whence \in Whences : Lseek(fd, offset, whence)
  \/ \E fd \in Fds : Close(fd)
  \/ \E child \in Pcbs : Fork(child)
  \/ CatRelative \/ Exit \/ Switch \/ Halted

Spec == Init /\ [][Next]_vars

-----------------------------------------------------------------------------
(* Every table holds values of its type, and every inode an entry names is one. *)
TypeOK ==
  /\ fs.inode_map \in [Inodes -> BOOLEAN]
  /\ fs.type \in [Inodes -> {"UNUSED", "FL", "DIR"}]
  /\ fs.size \in [Inodes -> Nat]
  /\ \A i \in Inodes \ Dirs : Unsigned(fs.size[i]) = fs.size[i]
  /\ \A d \in Dirs : fs.type[d] = "DIR"
                   /\ \A s \in Slots : fs.dirdata[d][s].inode_no \in Inodes
  /\ \A s \in SysFiles : /\ sysFileTable[s].inode_index \in Inodes \cup {-1}
                        /\ sysFileTable[s].link_num \in Nat
                        /\ sysFileTable[s].offset \in Ints
  /\ filepointer \in [Pcbs -> [Fds -> SysFiles \cup {-1}]]
  /\ fp_num \in [Pcbs -> Nat] /\ sys_file_num \in Nat
  /\ live \subseteq Pcbs /\ current \in live \cup {0}
  /\ panic \in {"none", "assert", "wild"}

(***************************************************************************)
(* Every inode's size, the one an unused inode keeps for its next file     *)
(* included, leaves room in its block, as the assertion of writeF wants    *)
(* it (fs.c:305, 363).  Under the discipline it does, wherever lseek and   *)
(* reads of processes that share the offset have left it; without, the sum *)
(* the assertion looks at wraps, or a negative length brings it below.     *)
(***************************************************************************)
SizesFit == \A i \in Inodes \ Dirs : fs.size[i] < MaxFile

(***************************************************************************)
(* The names and the inode map agree, through every create, remove and     *)
(* reuse of an inode: each inode in use that is a file has exactly one     *)
(* directory entry, under its own name, and every entry of a directory     *)
(* names an inode in use (fs.c:299-314, 333-342).                          *)
(***************************************************************************)
Entries == {e \in Dirs \X Slots : e[2] \in InUse(fs, e[1])}
InodeOf(e) == fs.dirdata[e[1]][e[2]].inode_no
NamesMatchInodes ==
  /\ \A e \in Entries : fs.inode_map[InodeOf(e)]
  /\ \A i \in Inodes \ Dirs : fs.inode_map[i] =>
       \E e \in Entries :
         /\ {f \in Entries : InodeOf(f) = i} = {e}
         /\ fs.type[i] = "FL"
         /\ fs.dirdata[e[1]][e[2]].filename = fs.filename[i]

(***************************************************************************)
(* filenum, which remove never decrements, still makes every search reach  *)
(* every entry, wherever the free entries lie (fs.c:122, 180, 202, 328).   *)
(***************************************************************************)
SearchesReachAll == \A d \in Dirs : Searched(fs, d) = InUse(fs, d)

(***************************************************************************)
(* A loop that counts filenum entries ends inside the directory, so that   *)
(* ls lists "all files in the directory" and nothing else (app/main.c:12,  *)
(* irqHandle.c:77).                                                        *)
(***************************************************************************)
ScansEndInside == \A d \in Dirs : fs.size[d] <= Cardinality(InUse(fs, d))

(***************************************************************************)
(* No slot of sysFileTable has more descriptors of live processes than     *)
(* link_num says, and a free slot has none: so a close never frees the     *)
(* slot under another process, whatever was inherited or left open at an   *)
(* exit (irqHandle.c:113-117, 150-158, process.c:18-26).                   *)
(***************************************************************************)
Referring(s) == {r \in live \X Fds : filepointer[r[1]][r[2]] = s}
References(s) == Cardinality(Referring(s))
LinksCoverReferences ==
  \A s \in SysFiles :
    /\ References(s) <= sysFileTable[s].link_num
    /\ sysFileTable[s].inode_index = -1 => References(s) = 0

(***************************************************************************)
(* The two counters agree with the tables they count: sys_file_num with    *)
(* the slots in use, fp_num of a live process with its descriptors         *)
(* (irqHandle.c:121-122, 156-160, process.c:15).                           *)
(***************************************************************************)
CountersAgree ==
  /\ sys_file_num = Cardinality({s \in SysFiles : sysFileTable[s].inode_index # -1})
  /\ \A p \in live : fp_num[p] = FirstFd + Cardinality(Opened(p))

(***************************************************************************)
(* What a process does never moves, retargets or closes an open file of a  *)
(* process it does not share the file with.                                *)
(***************************************************************************)
OthersUndisturbed ==
  [][\A p \in live \cap live' : \A fd \in Opened(p) :
       /\ p # current => filepointer'[p][fd] = filepointer[p][fd]
       /\ (current # 0 => \A g \in Fds : Slot(g) # filepointer[p][fd])
            => sysFileTable'[filepointer[p][fd]] = sysFileTable[filepointer[p][fd]]]_vars

(***************************************************************************)
(* Under the discipline link_num is exact: a slot is free as soon as, and  *)
(* not before, the last process that shares it has closed it.              *)
(***************************************************************************)
LinksExact ==
  \A s \in SysFiles :
    /\ sysFileTable[s].link_num = References(s)
    /\ sysFileTable[s].inode_index = -1 <=> References(s) = 0

(***************************************************************************)
(* Under the discipline an open file stays a file: its inode is in use,    *)
(* and two slots hold it only if it was opened twice under its one name.   *)
(***************************************************************************)
OpenFilesExist ==
  \A s \in SysFiles : sysFileTable[s].inode_index # -1 =>
    /\ fs.inode_map[sysFileTable[s].inode_index]
    /\ fs.type[sysFileTable[s].inode_index] = "FL"

(***************************************************************************)
(* Under the discipline the kernel never follows an index that names       *)
(* nothing, and neither stores nor loads outside a datablock: at worst it  *)
(* runs out of slots or of space and halts.                                *)
(***************************************************************************)
NeverWild == panic # "wild"
=============================================================================
