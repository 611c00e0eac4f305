-------------------------- MODULE OpenFilesProofs --------------------------
(***************************************************************************)
(* The invariants of OpenFiles.tla, in three layers, each resting on the   *)
(* one before:                                                             *)
(*   Typed       the image is well formed, the tables hold what they may;  *)
(*   Linked      the counts agree with the tables;                         *)
(*   Consistent  the names in the image agree with its inodes.             *)
(* The first holds for all paths, the second if no path is "/", the third  *)
(* if the paths are names of files.                                        *)
(***************************************************************************)
EXTENDS OpenFiles, FileSystemProofs

NoPathIsRoot == \A path \in Paths : Last(path) # ""
FilesOnly == \A path \in Paths : FileName(path)

Files == Inodes \ Dirs
SlotRecords == [inode_index : Files \cup {-1}, link_num : Int, offset : Ints]

TablesTyped ==
  /\ sysFileTable \in [SysFiles -> SlotRecords]
  /\ sys_file_num \in Int
  /\ filepointer \in [Pcbs -> [Fds -> SysFiles \cup {-1}]]
  /\ fp_num \in [Pcbs -> Int]
  /\ live \in SUBSET Pcbs /\ current \in live \cup {0}
  /\ panic \in {"none", "assert", "wild"}
SizesTyped == \A i \in Files : fs.size[i] \in 0 .. 2 * IntMax + 1
Typed == WellFormed(fs) /\ SizesTyped /\ TablesTyped

-----------------------------------------------------------------------------
(* The constants. *)
LEMMA Numbers ==
  /\ IsFiniteSet(SysFiles) /\ IsFiniteSet(Fds) /\ IsFiniteSet(Pcbs)
  /\ SysFiles \subseteq Nat /\ Fds \subseteq Nat
  /\ -1 \notin SysFiles /\ -1 \notin Fds /\ 0 \notin Pcbs
  /\ 1 \in Pcbs /\ 0 \in Ints
  /\ IntMax \in Nat /\ FirstFd \in Nat /\ MaxFile \in Nat /\ MaxFile > 0 /\ MaxFile <= IntMax
  <1>1. /\ MaxPcb \in Nat /\ MaxPcb >= 2 /\ MaxFp \in Nat /\ MaxSysFile \in Nat
        /\ IntMax \in Nat /\ MaxFile \in Nat \ {0} /\ MaxFile <= IntMax
    BY TablesAssumption, ImageAssumption
  <1>2. /\ 0 \in Int /\ 1 \in Int
        /\ MaxPcb - 1 \in Int /\ MaxFp - 1 \in Int /\ MaxSysFile - 1 \in Int
    BY <1>1
  <1>3. /\ IsFiniteSet(0 .. MaxSysFile - 1) /\ IsFiniteSet(0 .. MaxFp - 1)
        /\ IsFiniteSet(1 .. MaxPcb - 1)
    BY <1>2, FS_Interval
  <1>4. /\ 0 .. MaxSysFile - 1 \subseteq Nat /\ 0 .. MaxFp - 1 \subseteq Nat
        /\ -1 \notin 0 .. MaxSysFile - 1 /\ -1 \notin 0 .. MaxFp - 1
        /\ 0 \notin 1 .. MaxPcb - 1 /\ 1 \in 1 .. MaxPcb - 1
        /\ 0 \in -IntMax - 1 .. IntMax
        /\ MaxFile > 0
    BY <1>1
  <1> QED BY <1>1, <1>3, <1>4 DEF SysFiles, Fds, Pcbs, Ints, FirstFd

(* The paths are sequences of names, and not empty. *)
LEMMA PathsAreOne == ASSUME NEW path \in Paths PROVE APath(path)
  BY TablesAssumption DEF APath

(* A search of sysFileTable or of filepointer. *)
LEMMA SlotFound ==
  /\ getAvlSystemFile # -1 => /\ getAvlSystemFile \in SysFiles
                             /\ sysFileTable[getAvlSystemFile].inode_index = -1
  /\ getAvlFilepointer # -1 => /\ getAvlFilepointer \in Fds
                              /\ Slot(getAvlFilepointer) = -1
  <1> DEFINE S == {s \in SysFiles : sysFileTable[s].inode_index = -1}
             T == {fd \in Fds \ 0 .. FirstFd - 1 : Slot(fd) = -1}
  <1>1. S \in SUBSET Nat /\ T \in SUBSET Nat
    BY Numbers
  <1>2. First(S) # -1 => First(S) \in S
    BY <1>1, FirstProperties
  <1>3. First(T) # -1 => First(T) \in T
    BY <1>1, FirstProperties
  <1> QED BY <1>2, <1>3 DEF getAvlSystemFile, getAvlFilepointer

(* The descriptors of the process that runs. *)
LEMMA CurrentRuns ==
  ASSUME TablesTyped, current # 0
  PROVE  /\ current \in live /\ current \in Pcbs
         /\ \A fd \in Fds : /\ Slot(fd) \in SysFiles \cup {-1}
                            /\ Slot(fd) # -1 => sysFileTable[Slot(fd)] \in SlotRecords
  BY DEF TablesTyped, Slot

-----------------------------------------------------------------------------
(* Init establishes Typed. *)
LEMMA InitTyped == Init => Typed
  <1> SUFFICES ASSUME Init PROVE Typed
    OBVIOUS
  <1>1. WellFormed(fs)
    BY ImageConsistent DEF Init, Consistent
  <1>2. SizesTyped
    <2> SUFFICES ASSUME NEW i \in Files PROVE fs.size[i] = 0
      BY Numbers DEF SizesTyped
    <2>1. i \in Inodes /\ i \notin Dirs /\ i # Root
      BY Indices DEF Files
    <2>2. fs.size = [j \in Inodes |-> IF j = Root THEN 2 + Len(SubDirs)
                                    ELSE IF j \in Dirs THEN 2 ELSE 0]
      BY DEF Init, Image
    <2> QED BY <2>1, <2>2
  <1>3. TablesTyped
    <2>1. [inode_index |-> -1, link_num |-> 0, offset |-> 0] \in SlotRecords
      BY Numbers DEF SlotRecords
    <2>2. sysFileTable \in [SysFiles -> SlotRecords]
      BY <2>1 DEF Init
    <2> QED BY <2>2, Numbers DEF Init, TablesTyped
  <1> QED BY <1>1, <1>2, <1>3 DEF Typed

(* A stop of the kernel leaves everything but panic as it is. *)
LEMMA PanicTyped ==
  ASSUME Typed, NEW why \in {"assert", "wild"}, Panic(why) PROVE Typed'
  BY DEF Typed, Panic, SizesTyped, TablesTyped, tables

\* open in three parts: the search and the making of the file; the refusal when a
\* table is full; the slot s and the descriptor fd taken for the inode pos.
Finds(path) ==
  \/ isFLExist(fs, path) /\ fs' = fs
  \/ ~isFLExist(fs, path) /\ MayMake(fs, path) /\ fs' = makeFL(fs, path)
Refuses ==
  panic' = "assert" /\ UNCHANGED <<sysFileTable, sys_file_num, filepointer, fp_num>>
Takes(s, fd, pos) ==
  /\ s \in SysFiles /\ sysFileTable[s].inode_index = -1
  /\ fd \in Fds /\ Slot(fd) = -1
  /\ pos \in Files \cup {-1}
  /\ sysFileTable' = [sysFileTable EXCEPT
       ![s] = [inode_index |-> pos, link_num |-> 1, offset |-> 0]]
  /\ filepointer' = [filepointer EXCEPT ![current][fd] = s]
  /\ sys_file_num' = sys_file_num + 1
  /\ fp_num' = [fp_num EXCEPT ![current] = @ + 1]
  /\ UNCHANGED panic

(* What an open that gets past the search does. *)
LEMMA OpenEffect ==
  ASSUME Typed, NEW path \in Paths, Open(path)
  PROVE  \/ Panic("assert")
         \/ /\ current # 0 /\ UNCHANGED <<live, current>>
            /\ Finds(path)
            /\ WellFormed(fs') /\ (\A i \in Files : fs'.size[i] = fs.size[i])
            /\ findUpperDirPos(fs', path) \in Dirs
            /\ Last(path) # "" => findCurrentFLPos(fs', path) # -1
            /\ Refuses \/ \E s, fd : Takes(s, fd, findCurrentFLPos(fs', path))
  <1> DEFINE s == getAvlSystemFile
             fd == getAvlFilepointer
             pos == findCurrentFLPos(fs', path)
             Taken == /\ s # -1 /\ fd # -1
                      /\ sysFileTable' = [sysFileTable EXCEPT
                           ![s] = [inode_index |-> pos, link_num |-> 1, offset |-> 0]]
                      /\ filepointer' = [filepointer EXCEPT ![current][fd] = s]
                      /\ sys_file_num' = sys_file_num + 1
                      /\ fp_num' = [fp_num EXCEPT ![current] = @ + 1]
                      /\ UNCHANGED panic
  <1>1. APath(path) /\ WellFormed(fs)
    BY PathsAreOne DEF Typed
  <1>2. CASE /\ current # 0 /\ UNCHANGED <<live, current>>
             /\ findUpperDirPos(fs, path) # -1
             /\ isFLExist(fs, path) \/ canMakeFL(fs, path)
             /\ fs' = IF isFLExist(fs, path) THEN fs ELSE makeFL(fs, path)
             /\ Refuses \/ Taken
    <2>1. Finds(path)
      BY <1>1, <1>2 DEF Finds, MayMake
    <2>2. /\ WellFormed(fs')
          /\ \A i \in Files : fs'.size[i] = fs.size[i]
          /\ findUpperDirPos(fs', path) \in Dirs
          /\ Last(path) # "" => pos # -1
      <3>1. CASE isFLExist(fs, path) /\ fs' = fs
        <4>1. pos # -1
          BY <3>1 DEF isFLExist
        <4> QED BY <1>1, <1>2, <3>1, <4>1, UpperDir
      <3>2. CASE MayMake(fs, path) /\ fs' = makeFL(fs, path)
        <4>1. PICK d, x, n, name : /\ Added(fs, makeFL(fs, path), d, x, n, name)
                                   /\ d = findUpperDirPos(fs, path)
          BY <3>2, MakeAdds
        <4>2. Added(fs, fs', d, x, n, name)
          BY <3>2, <4>1
        <4>3. WellFormed(fs')
          BY <1>1, <4>2, AddedWellFormed
        <4>4. findUpperDirPos(fs', path) = d
          <5>1. \A e \in Dirs : \A nm : Lookup(fs, e, nm, "DIR") = Lookup(fs', e, nm, "DIR")
            BY <1>1, <4>2, AddedDirs
          <5> QED BY <1>1, <4>1, <4>3, <5>1, SameWalk
        <4>5. (\A i \in Files : fs'.size[i] = fs.size[i]) /\ d \in Dirs
          BY <4>2 DEF Added, Files
        <4>6. Last(path) # "" => pos # -1
          BY <3>2, MakeFinds
        <4> QED BY <4>3, <4>4, <4>5, <4>6
      <3> QED BY <2>1, <3>1, <3>2 DEF Finds
    <2>3. pos \in Files \cup {-1}
      BY <2>2, FilePos DEF Files
    <2>4. Taken => Takes(s, fd, pos)
      BY <2>3, SlotFound DEF Takes
    <2> QED BY <1>2, <2>1, <2>2, <2>4
  <1> QED BY <1>2 DEF Open, Refuses

(* open. *)
LEMMA OpenTyped ==
  ASSUME Typed, NEW path \in Paths, Open(path) PROVE Typed'
  <1>1. CASE Panic("assert")
    BY <1>1, PanicTyped
  <1>2. ASSUME /\ current # 0 /\ UNCHANGED <<live, current>>
               /\ WellFormed(fs') /\ (\A i \in Files : fs'.size[i] = fs.size[i])
               /\ Refuses \/ \E s, fd : Takes(s, fd, findCurrentFLPos(fs', path))
        PROVE  Typed'
    <2>1. SizesTyped'
      BY <1>2 DEF Typed, SizesTyped
    <2>2. TablesTyped /\ current \in Pcbs
      BY <1>2, CurrentRuns DEF Typed
    <2>3. CASE Refuses
      <3>1. TablesTyped'
        BY <1>2, <2>2, <2>3 DEF Refuses, TablesTyped
      <3> QED BY <1>2, <2>1, <3>1 DEF Typed
    <2>4. CASE \E s, fd : Takes(s, fd, findCurrentFLPos(fs', path))
      <3>1. PICK s, fd, pos : Takes(s, fd, pos)
        BY <2>4
      <3>2. [inode_index |-> pos, link_num |-> 1, offset |-> 0] \in SlotRecords
        BY <3>1, Numbers DEF Takes, SlotRecords
      <3>3. sysFileTable' \in [SysFiles -> SlotRecords]
        BY <2>2, <3>1, <3>2 DEF Takes, TablesTyped
      <3>4. filepointer' \in [Pcbs -> [Fds -> SysFiles \cup {-1}]]
        BY <2>2, <3>1 DEF Takes, TablesTyped
      <3>5. fp_num' \in [Pcbs -> Int] /\ sys_file_num' \in Int
        BY <2>2, <3>1 DEF Takes, TablesTyped
      <3>6. TablesTyped'
        BY <1>2, <2>2, <3>1, <3>3, <3>4, <3>5 DEF Takes, TablesTyped
      <3> QED BY <1>2, <2>1, <3>6 DEF Typed
    <2> QED BY <1>2, <2>3, <2>4
  <1> QED BY <1>1, <1>2, OpenEffect

(* An offset set by write, read or lseek. *)
LEMMA MoveTyped ==
  ASSUME TablesTyped, current # 0, NEW fd \in Fds, Slot(fd) # -1,
         NEW position \in Ints, MoveTo(fd, position),
         UNCHANGED <<sys_file_num, filepointer, fp_num, live, current, panic>>
  PROVE  /\ TablesTyped'
         /\ \A s \in SysFiles : sysFileTable'[s] =
              IF s = Slot(fd) THEN [sysFileTable[s] EXCEPT !.offset = position]
              ELSE sysFileTable[s]
  <1>1. Slot(fd) \in SysFiles /\ sysFileTable \in [SysFiles -> SlotRecords]
    BY CurrentRuns DEF TablesTyped
  <1>2. sysFileTable' = [sysFileTable EXCEPT ![Slot(fd)] = [@ EXCEPT !.offset = position]]
    BY DEF MoveTo
  <1>3. \A r \in SlotRecords : [r EXCEPT !.offset = position] \in SlotRecords
    BY DEF SlotRecords
  <1>4. sysFileTable' \in [SysFiles -> SlotRecords]
    BY <1>1, <1>2, <1>3
  <1>5. \A s \in SysFiles : sysFileTable'[s] =
          IF s = Slot(fd) THEN [sysFileTable[s] EXCEPT !.offset = position] ELSE sysFileTable[s]
    BY <1>1, <1>2
  <1> QED BY <1>4, <1>5 DEF TablesTyped

(* What a call that uses the file of a descriptor works on. *)
LEMMA FileOfDescriptor ==
  ASSUME TablesTyped, current # 0, NEW fd \in Fds, HasFile(fd)
  PROVE  /\ Slot(fd) # -1 /\ Slot(fd) \in SysFiles
         /\ Inode(fd) \in Files /\ Inode(fd) \in Inodes \ Dirs
         /\ Offset(fd) \in Ints /\ Offset(fd) \in Int
  <1>1. Slot(fd) # -1 /\ Slot(fd) \in SysFiles /\ sysFileTable[Slot(fd)] \in SlotRecords
    BY CurrentRuns DEF HasFile
  <1>2. Ints \subseteq Int
    BY DEF Ints
  <1> QED BY <1>1, <1>2 DEF HasFile, Inode, Offset, SlotRecords, Files

(* A length is an int, and so is an offset to lseek. *)
LEMMA ArgumentsAreInts ==
  Lens \subseteq Ints /\ Seeks \subseteq Ints /\ Ints \subseteq Int
  BY TablesAssumption DEF Ints

\* What a write stores, and where it moves to.
Writes(fd, len) ==
  /\ HasFile(fd) /\ current # 0
  /\ canWriteF(len, Offset(fd)) /\ storesInside(len, Offset(fd))
  /\ fs' = writeF(fs, Inode(fd), len, Offset(fd))
  /\ MoveTo(fd, Signed(Offset(fd) + len))
  /\ UNCHANGED <<sys_file_num, filepointer, fp_num, live, current, panic>>

LEMMA WriteEffect ==
  ASSUME Typed, NEW fd \in Fds, NEW len \in Lens, Writes(fd, len)
  PROVE  /\ WellFormed(fs')
         /\ fs'.inode_map = fs.inode_map /\ fs'.type = fs.type
         /\ \A i \in Files : fs'.size[i] \in {fs.size[i], Unsigned(Offset(fd) + len)}
  <1>1. Inode(fd) \in Inodes \ Dirs /\ Offset(fd) \in Int /\ len \in Int
    BY FileOfDescriptor, ArgumentsAreInts DEF Typed, Writes
  <1>2. /\ WellFormed(fs')
        /\ fs'.inode_map = fs.inode_map /\ fs'.type = fs.type
        /\ \A j \in Inodes : fs'.size[j] = IF j # Inode(fd) THEN fs.size[j]
                                            ELSE IF fs.size[j] > Unsigned(Offset(fd) + len)
                                            THEN fs.size[j]
                                            ELSE Unsigned(Offset(fd) + len)
    BY <1>1, WriteProperties DEF Typed, Writes
  <1> QED BY <1>2 DEF Files

(* write. *)
LEMMA WriteTyped ==
  ASSUME Typed, NEW fd \in Fds, NEW len \in Lens, Write(fd, len) PROVE Typed'
  <1>1. CASE Panic("wild") \/ Panic("assert")
    BY <1>1, PanicTyped
  <1>2. CASE Writes(fd, len)
    <2>1. Slot(fd) # -1 /\ Offset(fd) \in Int /\ len \in Int
      BY <1>2, FileOfDescriptor, ArgumentsAreInts DEF Typed, Writes
    <2>2. /\ Signed(Offset(fd) + len) \in Ints
          /\ Unsigned(Offset(fd) + len) \in 0 .. 2 * IntMax + 1
      BY <2>1, Wrapping
    <2>3. TablesTyped'
      BY <1>2, <2>1, <2>2, MoveTyped DEF Typed, Writes
    <2>4. WellFormed(fs') /\ SizesTyped'
      BY <1>2, <2>2, WriteEffect DEF Typed, SizesTyped
    <2> QED BY <2>3, <2>4 DEF Typed
  <1> QED BY <1>1, <1>2 DEF Write, Writes

(* read. *)
LEMMA ReadTyped ==
  ASSUME Typed, NEW fd \in Fds, NEW len \in Lens, Read(fd, len) PROVE Typed'
  <1>1. CASE Panic("wild")
    BY <1>1, PanicTyped
  <1>2. CASE /\ HasFile(fd) /\ current # 0
             /\ MoveTo(fd, AfterRead(fd, len))
             /\ UNCHANGED <<fs, sys_file_num, filepointer, fp_num, live, current, panic>>
    <2>1. Slot(fd) # -1 /\ Inode(fd) \in Inodes /\ Offset(fd) \in Int /\ len \in Int
      BY <1>2, FileOfDescriptor, ArgumentsAreInts DEF Typed
    <2>2. fs.size[Inode(fd)] \in Int
      BY <2>1 DEF Typed, WellFormed, Images
    <2>3. AfterRead(fd, len) \in Ints
      BY <2>1, <2>2, Wrapping DEF AfterRead
    <2>4. TablesTyped'
      BY <1>2, <2>1, <2>3, MoveTyped DEF Typed
    <2> QED BY <1>2, <2>4 DEF Typed, SizesTyped
  <1> QED BY <1>1, <1>2 DEF Read

(* lseek. *)
LEMMA LseekTyped ==
  ASSUME Typed, NEW fd \in Fds, NEW offset \in Seeks, NEW whence \in Whences,
         Lseek(fd, offset, whence)
  PROVE  Typed'
  <1>1. CASE Panic("wild") \/ Panic("assert")
    BY <1>1, PanicTyped
  <1>2. CASE /\ IF whence = "SEEK_END" THEN HasFile(fd) ELSE Slot(fd) # -1
             /\ current # 0 /\ whence # "other"
             /\ MoveTo(fd, Signed(Target(fd, offset, whence)))
             /\ UNCHANGED <<fs, sys_file_num, filepointer, fp_num, live, current, panic>>
    <2>1. TablesTyped /\ Slot(fd) # -1 /\ offset \in Int
      BY <1>2, ArgumentsAreInts DEF Typed, HasFile
    <2>2. Offset(fd) \in Int
      BY <1>2, <2>1, CurrentRuns, ArgumentsAreInts DEF Offset, SlotRecords
    <2>3. whence = "SEEK_END" => fs.size[Inode(fd)] \in Int
      BY <1>2, <2>1, FileOfDescriptor DEF Typed, WellFormed, Images
    <2>4. Target(fd, offset, whence) \in Int
      BY <1>2, <2>1, <2>2, <2>3 DEF Target, Whences
    <2>5. Signed(Target(fd, offset, whence)) \in Ints
      BY <2>4, Wrapping
    <2>6. TablesTyped'
      BY <1>2, <2>1, <2>5, MoveTyped
    <2> QED BY <1>2, <2>6 DEF Typed, SizesTyped
  <1> QED BY <1>1, <1>2 DEF Lseek

\* What close leaves in the slot.
Closed(slot) ==
  IF slot.link_num - 1 = 0 THEN [inode_index |-> -1, link_num |-> 0, offset |-> 0]
  ELSE [slot EXCEPT !.link_num = @ - 1]

(* close. *)
LEMMA CloseEffect ==
  ASSUME TablesTyped, NEW fd \in Fds, Close(fd), Slot(fd) # -1
  PROVE  /\ current \in live /\ current \in Pcbs /\ Slot(fd) \in SysFiles
         /\ TablesTyped'
         /\ sysFileTable' = [sysFileTable EXCEPT ![Slot(fd)] = Closed(@)]
         /\ filepointer' = [filepointer EXCEPT ![current][fd] = -1]
         /\ fp_num' = [fp_num EXCEPT ![current] = @ - 1]
         /\ sys_file_num' = IF sysFileTable[Slot(fd)].link_num - 1 = 0 THEN sys_file_num - 1
                            ELSE sys_file_num
         /\ UNCHANGED <<fs, live, current, panic>>
  <1> DEFINE s == Slot(fd)
             left == sysFileTable[s].link_num - 1
  <1>1. current \in live /\ current \in Pcbs /\ s \in SysFiles /\ sysFileTable[s] \in SlotRecords
    BY CurrentRuns DEF Close
  <1>2. /\ sysFileTable' = [sysFileTable EXCEPT
             ![s] = IF left = 0 THEN [inode_index |-> -1, link_num |-> 0, offset |-> 0]
                    ELSE [@ EXCEPT !.link_num = left]]
        /\ sys_file_num' = IF left = 0 THEN sys_file_num - 1 ELSE sys_file_num
        /\ filepointer' = [filepointer EXCEPT ![current][fd] = -1]
        /\ fp_num' = [fp_num EXCEPT ![current] = @ - 1]
        /\ UNCHANGED <<fs, live, current, panic>>
    BY DEF Close, Panic, CountIfFreed
  <1> HIDE DEF s
  <1>3. \A r \in SlotRecords : Closed(r) \in SlotRecords
    BY Numbers DEF Closed, SlotRecords
  <1>4. sysFileTable' = [sysFileTable EXCEPT ![s] = Closed(@)]
    BY <1>1, <1>2 DEF Closed, SlotRecords
  <1>5. sysFileTable' \in [SysFiles -> SlotRecords]
    BY <1>1, <1>3, <1>4 DEF TablesTyped
  <1>6. filepointer' \in [Pcbs -> [Fds -> SysFiles \cup {-1}]]
    BY <1>1, <1>2 DEF TablesTyped
  <1>7. fp_num' \in [Pcbs -> Int] /\ sys_file_num' \in Int
    BY <1>1, <1>2 DEF TablesTyped
  <1>8. TablesTyped'
    BY <1>2, <1>5, <1>6, <1>7 DEF TablesTyped
  <1> QED BY <1>1, <1>2, <1>4, <1>8 DEF s

LEMMA CloseTyped ==
  ASSUME Typed, NEW fd \in Fds, Close(fd) PROVE Typed'
  <1>1. CASE Slot(fd) = -1
    BY <1>1, PanicTyped DEF Close
  <1>2. CASE Slot(fd) # -1
    BY <1>2, CloseEffect DEF Typed, SizesTyped
  <1> QED BY <1>1, <1>2

(* remove. *)
LEMMA RemoveKeepsSizes ==
  ASSUME Typed, NEW path \in Paths, findUpperDirPos(fs, path) # -1, fs' = rmFL(fs, path)
  PROVE  WellFormed(fs') /\ fs'.size = fs.size
  <1>1. APath(path) /\ WellFormed(fs)
    BY PathsAreOne DEF Typed
  <1>2. CASE findCurrentFLPos(fs, path) = -1
    BY <1>1, <1>2, RemoveDrops
  <1>3. CASE findCurrentFLPos(fs, path) # -1
    <2>1. PICK d, S, n : Dropped(fs, rmFL(fs, path), d, S, n)
      BY <1>1, <1>3, RemoveDrops
    <2>2. Dropped(fs, fs', d, S, n)
      BY <2>1
    <2>3. WellFormed(fs')
      BY <1>1, <2>2, DroppedWellFormed
    <2> QED BY <2>2, <2>3 DEF Dropped
  <1> QED BY <1>2, <1>3

LEMMA UnlinkTyped ==
  ASSUME Typed, NEW path \in Paths, Unlink(path) PROVE Typed'
  <1>1. CASE Panic("assert")
    BY <1>1, PanicTyped
  <1>2. CASE /\ findUpperDirPos(fs, path) # -1
             /\ fs' = rmFL(fs, path)
             /\ UNCHANGED <<sysFileTable, sys_file_num, filepointer, fp_num, live, current, panic>>
    BY <1>2, RemoveKeepsSizes DEF Typed, SizesTyped, TablesTyped
  <1> QED BY <1>1, <1>2 DEF Unlink

(* The links of a table of descriptors are numbers of descriptors. *)
LEMMA LinksAreNumbers ==
  ASSUME NEW table, NEW s \in SysFiles
  PROVE  /\ Links(table)[s] = Cardinality({fd \in Fds : table[fd] = s})
         /\ Links(table)[s] \in Nat
         /\ IsFiniteSet({fd \in Fds : table[fd] = s})
         /\ (\A fd \in Fds : table[fd] # s) => Links(table)[s] = 0
  <1> DEFINE S == {fd \in Fds : table[fd] = s}
  <1>1. Links(table)[s] = Cardinality(S)
    BY DEF Links
  <1>2. S \in SUBSET Fds
    OBVIOUS
  <1>3. IsFiniteSet(S) /\ Cardinality(S) \in Nat
    BY <1>2, Numbers, FS_Subset, FS_CardinalityType
  <1>4. (\A fd \in Fds : table[fd] # s) => S = {}
    OBVIOUS
  <1> QED BY <1>1, <1>3, <1>4, FS_EmptySet

(* The file half of fork. *)
LEMMA ForkEffect ==
  ASSUME TablesTyped, NEW child \in Pcbs, Fork(child)
  PROVE  /\ current \in live /\ current \in Pcbs /\ child \notin live
         /\ TablesTyped'
         /\ live' = live \cup {child}
         /\ UNCHANGED <<fs, sys_file_num, current, panic>>
         /\ \A s \in SysFiles : sysFileTable'[s] =
              [sysFileTable[s] EXCEPT !.link_num = @ + Links(filepointer[current])[s]]
         /\ filepointer' = [filepointer EXCEPT ![child] = filepointer[current]]
         /\ fp_num' = [fp_num EXCEPT ![child] = fp_num[current]]
  <1>1. /\ current \in live /\ current \in Pcbs /\ child \notin live
        /\ live' = live \cup {child}
        /\ UNCHANGED <<fs, sys_file_num, current, panic>>
        /\ filepointer' = [filepointer EXCEPT ![child] = filepointer[current]]
        /\ fp_num' = [fp_num EXCEPT ![child] = fp_num[current]]
        /\ sysFileTable' = [s \in SysFiles |->
             [sysFileTable[s] EXCEPT !.link_num = @ + Links(filepointer[current])[s]]]
    BY CurrentRuns DEF Fork, ForkTables
  <1>2. ASSUME NEW s \in SysFiles
        PROVE  [sysFileTable[s] EXCEPT !.link_num = @ + Links(filepointer[current])[s]] \in SlotRecords
    <2>1. Links(filepointer[current])[s] \in Nat
      BY LinksAreNumbers
    <2>2. sysFileTable[s] \in SlotRecords
      BY DEF TablesTyped
    <2> QED BY <2>1, <2>2 DEF SlotRecords
  <1>3. sysFileTable' \in [SysFiles -> SlotRecords]
    BY <1>1, <1>2
  <1>4. filepointer' \in [Pcbs -> [Fds -> SysFiles \cup {-1}]]
    BY <1>1 DEF TablesTyped
  <1>5. fp_num' \in [Pcbs -> Int]
    BY <1>1 DEF TablesTyped
  <1>6. TablesTyped'
    BY <1>1, <1>3, <1>4, <1>5 DEF TablesTyped
  <1> QED BY <1>1, <1>6

LEMMA ForkTyped ==
  ASSUME Typed, NEW child \in Pcbs, Fork(child) PROVE Typed'
  BY ForkEffect DEF Typed, SizesTyped

(* exit, the scheduler's choice, ls and cat, and nothing. *)
LEMMA ExitTyped == ASSUME Typed, Exit PROVE Typed'
  BY DEF Exit, tables, Typed, SizesTyped, TablesTyped
LEMMA SwitchTyped == ASSUME Typed, Switch PROVE Typed'
  BY DEF Switch, tables, Typed, SizesTyped, TablesTyped
LEMMA ShowTyped == ASSUME Typed, NEW path, Show(path) PROVE Typed'
  BY PanicTyped DEF Show, vars, tables, Typed, SizesTyped, TablesTyped
LEMMA CatTyped == ASSUME Typed, CatRelative PROVE Typed'
  BY PanicTyped DEF CatRelative, vars, tables, Typed, SizesTyped, TablesTyped
LEMMA StutterTyped == ASSUME Typed, UNCHANGED vars PROVE Typed'
  BY DEF vars, tables, Typed, SizesTyped, TablesTyped

(***************************************************************************)
(* Whatever paths the programs use, and however they use the calls: the    *)
(* directories stay directories, filenum counts at least their entries,    *)
(* slots hold inodes of files, and sizes and offsets wrap as their types   *)
(* do (fs.c, irqHandle.c:100-214).                                         *)
(***************************************************************************)
THEOREM InductiveTyped == Spec => []Typed
  <1>1. ASSUME Typed, [Next]_vars PROVE Typed'
    <2>1. ASSUME NEW path \in Paths, Open(path) \/ Unlink(path) \/ Show(path)
          PROVE  Typed'
      BY <1>1, <2>1, OpenTyped, UnlinkTyped, ShowTyped
    <2>2. ASSUME NEW fd \in Fds, NEW len \in Lens, Read(fd, len) \/ Write(fd, len)
          PROVE  Typed'
      BY <1>1, <2>2, ReadTyped, WriteTyped
    <2>3. ASSUME NEW fd \in Fds, NEW offset \in Seeks, NEW whence \in Whences,
                 Lseek(fd, offset, whence)
          PROVE  Typed'
      BY <1>1, <2>3, LseekTyped
    <2>4. ASSUME NEW fd \in Fds, Close(fd) PROVE Typed'
      BY <1>1, <2>4, CloseTyped
    <2>5. ASSUME NEW child \in Pcbs, Fork(child) PROVE Typed'
      BY <1>1, <2>5, ForkTyped
    <2>6. CASE CatRelative \/ Exit \/ Switch \/ Halted \/ UNCHANGED vars
      BY <1>1, <2>6, CatTyped, ExitTyped, SwitchTyped, StutterTyped DEF Halted
    <2> QED BY <1>1, <2>1, <2>2, <2>3, <2>4, <2>5, <2>6 DEF Next
  <1> QED BY InitTyped, <1>1, PTL DEF Spec

(***************************************************************************)
(* A search that counts filenum entries reaches them all (fs.c:122, 180,   *)
(* 202, 328).                                                              *)
(***************************************************************************)
THEOREM SearchesAreComplete == Spec => []SearchesReachAll
  <1>1. Typed => SearchesReachAll
    BY SearchReachesAll DEF Typed, SearchesReachAll
  <1> QED BY <1>1, InductiveTyped, PTL

-----------------------------------------------------------------------------
(* One process with some of the descriptors: as many pairs as descriptors. *)
LEMMA Row ==
  ASSUME NEW p, NEW S \in SUBSET Fds
  PROVE  /\ IsFiniteSet({p} \X S)
         /\ Cardinality({p} \X S) = Cardinality(S)
  <1> DEFINE f == [fd \in S |-> <<p, fd>>]
  <1>1. IsFiniteSet(S)
    BY Numbers, FS_Subset
  <1>2. f \in [S -> {p} \X S]
    OBVIOUS
  <1>3. f \in Injection(S, {p} \X S)
    BY <1>2 DEF Injection, IsInjective
  <1>4. f \in Surjection(S, {p} \X S)
    BY <1>2 DEF Surjection
  <1>5. ExistsBijection(S, {p} \X S)
    BY <1>3, <1>4 DEF ExistsBijection, Bijection
  <1> QED BY <1>1, <1>5, FS_Bijection

(* There are finitely many pairs of a process and a descriptor. *)
LEMMA PairsFinite == IsFiniteSet(Pcbs \X Fds)
  <1> DEFINE n == MaxPcb - 1
             Bad == {m \in 0 .. n : ~IsFiniteSet((1 .. m) \X Fds)}
  <1>1. n \in Nat /\ Pcbs = 1 .. n
    BY TablesAssumption DEF Pcbs
  <1> HIDE DEF n
  <1>2. Bad = {}
    <2> SUFFICES ASSUME Bad # {} PROVE FALSE
      OBVIOUS
    <2>1. Bad \in SUBSET Nat
      BY <1>1
    <2>2. PICK m \in Bad : \A k \in Bad : m <= k
      <3> HIDE DEF Bad
      <3> QED BY <2>1, LeastNat
    <2>3. m \in Nat /\ m <= n /\ ~IsFiniteSet((1 .. m) \X Fds)
      BY <1>1, <2>2
    <2> HIDE DEF Bad
    <2>4. CASE m = 0
      <3>1. (1 .. m) \X Fds = {}
        BY <2>4
      <3> QED BY <2>3, <3>1, FS_EmptySet
    <2>5. CASE m > 0
      <3>1. m - 1 \in 0 .. n /\ m - 1 \notin Bad
        BY <1>1, <2>1, <2>2, <2>3, <2>5
      <3>2. IsFiniteSet((1 .. m - 1) \X Fds) /\ IsFiniteSet({m} \X Fds)
        <4>1. IsFiniteSet((1 .. m - 1) \X Fds)
          BY <3>1 DEF Bad
        <4> QED BY <4>1, Row
      <3>3. 1 .. m = (1 .. m - 1) \cup {m}
        BY <2>3, <2>5
      <3>4. (1 .. m) \X Fds = ((1 .. m - 1) \X Fds) \cup ({m} \X Fds)
        BY <3>3
      <3>5. IsFiniteSet(((1 .. m - 1) \X Fds) \cup ({m} \X Fds))
        BY <3>2, FS_Union, Zenon
      <3>6. IsFiniteSet((1 .. m) \X Fds)
        BY <3>4, <3>5, Zenon
      <3> QED BY <2>3, <3>6
    <2> QED BY <2>3, <2>4, <2>5
  <1>3. n \in 0 .. n
    BY <1>1
  <1> QED BY <1>1, <1>2, <1>3

(* References and descriptors in use are finitely many, in any state. *)
LEMMA Finite ==
  ASSUME live \in SUBSET Pcbs
  PROVE  /\ \A s : IsFiniteSet(Referring(s)) /\ References(s) \in Nat
         /\ \A p : IsFiniteSet(Opened(p)) /\ Cardinality(Opened(p)) \in Nat
  <1>1. \A s : Referring(s) \in SUBSET (Pcbs \X Fds)
    BY DEF Referring
  <1>2. \A p : Opened(p) \in SUBSET Fds
    BY DEF Opened
  <1> QED BY <1>1, <1>2, PairsFinite, Numbers, FS_Subset, FS_CardinalityType DEF References

(* The slots in use. *)
Busy == {s \in SysFiles : sysFileTable[s].inode_index # -1}
LEMMA BusyFinite == IsFiniteSet(Busy) /\ Cardinality(Busy) \in Nat
  <1>1. Busy \in SUBSET SysFiles
    BY DEF Busy
  <1> QED BY <1>1, Numbers, FS_Subset, FS_CardinalityType

\* A step that leaves links, inodes and descriptors as they are.
Quiet ==
  /\ UNCHANGED <<sys_file_num, filepointer, fp_num, live>>
  /\ \A s \in SysFiles : /\ sysFileTable'[s].inode_index = sysFileTable[s].inode_index
                          /\ sysFileTable'[s].link_num = sysFileTable[s].link_num

Linked == LinksCoverReferences /\ CountersAgree /\ fp_num \in [Pcbs -> Nat]
Exact == \A s \in SysFiles : /\ sysFileTable[s].link_num = References(s)
                             /\ References(s) = 0 => sysFileTable[s].inode_index = -1

LEMMA QuietLinked ==
  ASSUME Quiet
  PROVE  (Linked => Linked') /\ (Exact => Exact')
  <1>1. \A s : References(s)' = References(s)
    BY DEF Quiet, References, Referring
  <1>2. Busy' = Busy
    BY DEF Quiet, Busy
  <1>3. \A p : Opened(p)' = Opened(p)
    BY DEF Quiet, Opened
  <1>4. Linked => Linked'
    <2>1. LinksCoverReferences => LinksCoverReferences'
      BY <1>1 DEF LinksCoverReferences, Quiet
    <2>2. CountersAgree => CountersAgree'
      BY <1>2, <1>3 DEF CountersAgree, Busy, Quiet
    <2> QED BY <2>1, <2>2 DEF Linked, Quiet
  <1>5. Exact => Exact'
    BY <1>1 DEF Exact, Quiet
  <1> QED BY <1>4, <1>5

(* open takes a free slot and a free descriptor. *)
LEMMA TakesReferences ==
  ASSUME TablesTyped, current # 0, NEW s, NEW fd, NEW pos, Takes(s, fd, pos), UNCHANGED live
  PROVE  /\ \A t \in SysFiles : References(t)' = IF t = s THEN References(t) + 1 ELSE References(t)
         /\ \A p \in live : Cardinality(Opened(p))' =
              IF p = current THEN Cardinality(Opened(p)) + 1 ELSE Cardinality(Opened(p))
  <1>1. /\ current \in live /\ current \in Pcbs /\ fd \in Fds /\ s \in SysFiles /\ s # -1
        /\ filepointer[current][fd] = -1
        /\ live \in SUBSET Pcbs
    BY CurrentRuns, Numbers DEF Takes, Slot, TablesTyped
  <1>2. \A p \in Pcbs : \A g \in Fds :
          filepointer'[p][g] = IF p = current /\ g = fd THEN s ELSE filepointer[p][g]
    BY <1>1 DEF Takes, TablesTyped
  <1>3. ASSUME NEW t \in SysFiles
        PROVE  References(t)' = IF t = s THEN References(t) + 1 ELSE References(t)
    <2>1. t # -1
      BY Numbers
    <2>2. Referring(t)' = IF t = s THEN Referring(t) \cup {<<current, fd>>} ELSE Referring(t)
      BY <1>1, <1>2, <2>1 DEF Referring
    <2>3. <<current, fd>> \notin Referring(t)
      BY <1>1, <2>1 DEF Referring
    <2>4. IsFiniteSet(Referring(t)) /\ Cardinality(Referring(t)) \in Nat
      BY <1>1, Finite DEF References
    <2>5. Cardinality(Referring(t) \cup {<<current, fd>>}) = Cardinality(Referring(t)) + 1
      BY <2>3, <2>4, FS_AddElement
    <2> QED BY <2>2, <2>5 DEF References
  <1>4. ASSUME NEW p \in live
        PROVE  Cardinality(Opened(p))' =
                 IF p = current THEN Cardinality(Opened(p)) + 1 ELSE Cardinality(Opened(p))
    <2>1. Opened(p)' = IF p = current THEN Opened(p) \cup {fd} ELSE Opened(p)
      BY <1>1, <1>2 DEF Opened
    <2>2. p = current => fd \notin Opened(p)
      BY <1>1 DEF Opened
    <2>3. p = current => Cardinality(Opened(p) \cup {fd}) = Cardinality(Opened(p)) + 1
      BY <1>1, <2>2, Finite, FS_AddElement
    <2> QED BY <2>1, <2>3
  <1> QED BY <1>3, <1>4

(* close gives a descriptor back. *)
LEMMA CloseReferences ==
  ASSUME TablesTyped, NEW fd \in Fds, Close(fd), Slot(fd) # -1
  PROVE  /\ References(Slot(fd)) >= 1
         /\ \A t \in SysFiles : References(t)' = IF t = Slot(fd) THEN References(t) - 1
                                                 ELSE References(t)
         /\ \A p \in live : Cardinality(Opened(p))' =
              IF p = current THEN Cardinality(Opened(p)) - 1 ELSE Cardinality(Opened(p))
         /\ Cardinality(Opened(current)) >= 1
  <1> DEFINE s == filepointer[current][fd]
  <1>1. /\ current \in live /\ current \in Pcbs /\ s \in SysFiles /\ s # -1 /\ Slot(fd) = s
        /\ filepointer' = [filepointer EXCEPT ![current][fd] = -1] /\ live' = live
        /\ live \in SUBSET Pcbs
    BY CloseEffect DEF Slot, TablesTyped
  <1>2. \A p \in Pcbs : \A g \in Fds :
          filepointer'[p][g] = IF p = current /\ g = fd THEN -1 ELSE filepointer[p][g]
    BY <1>1 DEF TablesTyped
  <1>3. ASSUME NEW t \in SysFiles
        PROVE  /\ References(t)' = IF t = s THEN References(t) - 1 ELSE References(t)
               /\ t = s => References(t) >= 1
    <2>1. t # -1
      BY Numbers
    <2>2. Referring(t)' = IF t = s THEN Referring(t) \ {<<current, fd>>} ELSE Referring(t)
      BY <1>1, <1>2, <2>1 DEF Referring
    <2>3. t = s => <<current, fd>> \in Referring(t)
      BY <1>1 DEF Referring
    <2>4. IsFiniteSet(Referring(t)) /\ Cardinality(Referring(t)) \in Nat
      BY <1>1, Finite DEF References
    <2>5. t = s => Cardinality(Referring(t) \ {<<current, fd>>}) = Cardinality(Referring(t)) - 1
      BY <2>3, <2>4, FS_RemoveElement
    <2>6. t = s => Cardinality(Referring(t)) # 0
      BY <2>3, <2>4, FS_EmptySet
    <2> QED BY <2>2, <2>4, <2>5, <2>6 DEF References
  <1>4. ASSUME NEW p \in live
        PROVE  /\ Cardinality(Opened(p))' =
                    IF p = current THEN Cardinality(Opened(p)) - 1 ELSE Cardinality(Opened(p))
               /\ p = current => Cardinality(Opened(p)) >= 1
    <2>1. Opened(p)' = IF p = current THEN Opened(p) \ {fd} ELSE Opened(p)
      BY <1>1, <1>2 DEF Opened
    <2>2. p = current => fd \in Opened(p)
      BY <1>1 DEF Opened
    <2>3. IsFiniteSet(Opened(p)) /\ Cardinality(Opened(p)) \in Nat
      BY <1>1, Finite
    <2>4. p = current => /\ Cardinality(Opened(p) \ {fd}) = Cardinality(Opened(p)) - 1
                         /\ Cardinality(Opened(p)) # 0
      BY <2>2, <2>3, FS_RemoveElement, FS_EmptySet
    <2> QED BY <2>1, <2>3, <2>4
  <1> QED BY <1>1, <1>3, <1>4

(* fork gives the child the father's descriptors. *)
LEMMA ForkReferences ==
  ASSUME TablesTyped, NEW child \in Pcbs, Fork(child)
  PROVE  /\ \A t \in SysFiles : References(t)' = References(t) + Links(filepointer[current])[t]
         /\ \A p \in live' : Cardinality(Opened(p))' =
              IF p = child THEN Cardinality(Opened(current)) ELSE Cardinality(Opened(p))
  <1>1. /\ current \in live /\ current \in Pcbs /\ child \notin live
        /\ filepointer' = [filepointer EXCEPT ![child] = filepointer[current]]
        /\ live' = live \cup {child}
        /\ live \in SUBSET Pcbs
    BY ForkEffect DEF TablesTyped
  <1>2. \A p \in Pcbs :
          filepointer'[p] = IF p = child THEN filepointer[current] ELSE filepointer[p]
    BY <1>1 DEF TablesTyped
  <1>3. ASSUME NEW t \in SysFiles
        PROVE  References(t)' = References(t) + Links(filepointer[current])[t]
    <2> DEFINE S == {fd \in Fds : filepointer[current][fd] = t}
    <2>1. Referring(t)' = Referring(t) \cup ({child} \X S)
      <3>1. ASSUME NEW r \in live' \X Fds
            PROVE  r \in Referring(t)' <=> r \in Referring(t) \cup ({child} \X S)
        <4>1. r = <<r[1], r[2]>> /\ r[1] \in live' /\ r[2] \in Fds
          OBVIOUS
        <4>2. CASE r[1] = child
          <5>1. r \in {child} \X S <=> filepointer[current][r[2]] = t
            BY <4>1, <4>2
          <5>2. r \in Referring(t)' <=> filepointer[current][r[2]] = t
            BY <1>2, <4>1, <4>2 DEF Referring
          <5>3. r \notin Referring(t)
            BY <1>1, <4>2 DEF Referring
          <5> QED BY <5>1, <5>2, <5>3
        <4>3. CASE r[1] # child
          <5>1. r \notin {child} \X S /\ r[1] \in live
            BY <1>1, <4>1, <4>3
          <5>2. filepointer'[r[1]] = filepointer[r[1]]
            BY <1>1, <1>2, <4>3, <5>1
          <5>3. r \in Referring(t)' <=> r \in Referring(t)
            BY <4>1, <5>1, <5>2 DEF Referring
          <5> QED BY <5>1, <5>3
        <4> QED BY <4>2, <4>3
      <3>2. Referring(t)' \subseteq live' \X Fds
        BY DEF Referring
      <3>3. Referring(t) \cup ({child} \X S) \subseteq live' \X Fds
        BY <1>1 DEF Referring
      <3> QED BY <3>1, <3>2, <3>3
    <2>2. Referring(t) \cap ({child} \X S) = {}
      BY <1>1 DEF Referring
    <2>3. IsFiniteSet(Referring(t)) /\ Cardinality(Referring(t)) \in Nat
      BY <1>1, Finite DEF References
    <2>4. /\ IsFiniteSet({child} \X S) /\ Cardinality({child} \X S) = Links(filepointer[current])[t]
          /\ Links(filepointer[current])[t] \in Nat
      <3>1. S \in SUBSET Fds
        OBVIOUS
      <3>2. IsFiniteSet({child} \X S) /\ Cardinality({child} \X S) = Cardinality(S)
        BY <3>1, Row
      <3> QED BY <3>2, LinksAreNumbers
    <2> HIDE DEF S
    <2>5. Cardinality(Referring(t) \cup ({child} \X S))
            = Cardinality(Referring(t)) + Cardinality({child} \X S)
      BY <2>2, <2>3, <2>4, FS_Union, FS_EmptySet
    <2> QED BY <2>1, <2>4, <2>5 DEF References
  <1>4. \A p \in live' : Opened(p)' = IF p = child THEN Opened(current) ELSE Opened(p)
    BY <1>1, <1>2 DEF Opened
  <1> QED BY <1>3, <1>4

(* exit takes its descriptors along. *)
LEMMA ExitReferences ==
  ASSUME TablesTyped, Exit
  PROVE  /\ \A t : References(t)' <= References(t)
         /\ Opened(current) = {} => \A t \in SysFiles : References(t)' = References(t)
         /\ \A p : Opened(p)' = Opened(p)
  <1>1. /\ live' = live \ {current} /\ filepointer' = filepointer /\ live \in SUBSET Pcbs
    BY DEF Exit, tables, TablesTyped
  <1>2. \A t : Referring(t)' \in SUBSET Referring(t)
    BY <1>1 DEF Referring
  <1>3. \A t : References(t)' <= References(t)
    BY <1>1, <1>2, Finite, FS_Subset DEF References
  <1>4. ASSUME Opened(current) = {}, NEW t \in SysFiles
        PROVE  References(t)' = References(t)
    <2>1. \A fd \in Fds : filepointer[current][fd] # t
      BY <1>4, Numbers DEF Opened
    <2>2. Referring(t)' = Referring(t)
      BY <1>1, <2>1 DEF Referring
    <2> QED BY <2>2 DEF References
  <1> QED BY <1>1, <1>3, <1>4 DEF Opened

-----------------------------------------------------------------------------
(* Init establishes the counts. *)
LEMMA InitLinked == Init => Linked /\ Exact
  <1> SUFFICES ASSUME Init PROVE Linked /\ Exact
    OBVIOUS
  <1>1. TablesTyped
    BY InitTyped DEF Typed
  <1>2. \A s \in SysFiles : Referring(s) = {}
    <2>1. \A s \in SysFiles : s # -1
      BY Numbers
    <2> QED BY <2>1, Numbers DEF Init, Referring
  <1>3. \A s \in SysFiles : References(s) = 0
    BY <1>2, FS_EmptySet DEF References
  <1>4. Opened(1) = {} /\ Busy = {} /\ live = {1}
    BY Numbers DEF Init, Opened, Busy
  <1>5. Cardinality(Opened(1)) = 0 /\ Cardinality(Busy) = 0
    BY <1>4, FS_EmptySet
  <1>6. fp_num = [p \in Pcbs |-> FirstFd] /\ FirstFd \in Nat /\ sys_file_num = 0
    BY Numbers DEF Init
  <1>7. CountersAgree
    BY <1>4, <1>5, <1>6, Numbers DEF CountersAgree, Busy
  <1>8. LinksCoverReferences /\ Exact
    BY <1>3 DEF Init, LinksCoverReferences, Exact
  <1> QED BY <1>6, <1>7, <1>8 DEF Linked

(* open keeps the counts; the inode it takes is one. *)
LEMMA TakesLinked ==
  ASSUME TablesTyped, Linked, current # 0, NEW s, NEW fd, NEW pos, pos # -1,
         Takes(s, fd, pos), UNCHANGED live
  PROVE  Linked' /\ (Exact => Exact')
  <1>1. /\ s \in SysFiles /\ sysFileTable[s].inode_index = -1
        /\ current \in live /\ current \in Pcbs /\ live \in SUBSET Pcbs
    BY CurrentRuns DEF Takes, TablesTyped
  <1>2. \A t \in SysFiles : sysFileTable'[t] =
          IF t = s THEN [inode_index |-> pos, link_num |-> 1, offset |-> 0] ELSE sysFileTable[t]
    BY <1>1 DEF Takes, TablesTyped
  <1>3. \A t \in SysFiles : References(t)' = IF t = s THEN References(t) + 1 ELSE References(t)
    BY TakesReferences
  <1>4. References(s) = 0
    BY <1>1 DEF Linked, LinksCoverReferences
  <1>5. LinksCoverReferences'
    <2> SUFFICES ASSUME NEW t \in SysFiles
                 PROVE  /\ References(t)' <= sysFileTable'[t].link_num
                        /\ sysFileTable'[t].inode_index = -1 => References(t)' = 0
      BY DEF LinksCoverReferences
    <2>1. CASE t = s
      BY <1>2, <1>3, <1>4, <2>1
    <2>2. CASE t # s
      BY <1>2, <1>3, <2>2 DEF Linked, LinksCoverReferences
    <2> QED BY <2>1, <2>2
  <1>6. Exact => Exact'
    <2> SUFFICES ASSUME Exact, NEW t \in SysFiles
                 PROVE  /\ sysFileTable'[t].link_num = References(t)'
                        /\ References(t)' = 0 => sysFileTable'[t].inode_index = -1
      BY DEF Exact
    <2>1. CASE t = s
      BY <1>2, <1>3, <1>4, <2>1
    <2>2. CASE t # s
      BY <1>2, <1>3, <2>2 DEF Exact
    <2> QED BY <2>1, <2>2
  <1>7. Cardinality(Busy)' = Cardinality(Busy) + 1
    <2>1. Busy' = Busy \cup {s} /\ s \notin Busy
      BY <1>1, <1>2 DEF Busy
    <2> QED BY <2>1, BusyFinite, FS_AddElement
  <1>8. \A p \in live : Cardinality(Opened(p))' =
          IF p = current THEN Cardinality(Opened(p)) + 1 ELSE Cardinality(Opened(p))
    BY TakesReferences
  <1>9. /\ \A p \in Pcbs : fp_num'[p] = IF p = current THEN fp_num[p] + 1 ELSE fp_num[p]
        /\ fp_num' \in [Pcbs -> Nat]
    BY <1>1 DEF Takes, Linked
  <1>10. CountersAgree'
    <2>1. sys_file_num' = Cardinality(Busy)'
      BY <1>7 DEF Takes, Linked, CountersAgree, Busy
    <2>2. ASSUME NEW p \in live
          PROVE  fp_num'[p] = FirstFd + Cardinality(Opened(p))'
      <3>1. fp_num[p] = FirstFd + Cardinality(Opened(p)) /\ Cardinality(Opened(p)) \in Nat
        BY <1>1, Finite DEF Linked, CountersAgree
      <3> QED BY <1>1, <1>8, <1>9, <3>1, Numbers
    <2> QED BY <2>1, <2>2 DEF CountersAgree, Busy
  <1> QED BY <1>5, <1>6, <1>9, <1>10 DEF Linked

(* close frees a slot with the last reference only. *)
LEMMA CloseLinked ==
  ASSUME TablesTyped, Linked, NEW fd \in Fds, Close(fd), Slot(fd) # -1
  PROVE  Linked' /\ (Exact => Exact')
  <1> DEFINE s == Slot(fd)
             left == sysFileTable[s].link_num - 1
  <1>1. /\ s \in SysFiles /\ current \in live /\ current \in Pcbs /\ live' = live
        /\ sysFileTable' = [sysFileTable EXCEPT ![s] = Closed(@)]
        /\ fp_num' = [fp_num EXCEPT ![current] = @ - 1]
        /\ sys_file_num' = IF left = 0 THEN sys_file_num - 1 ELSE sys_file_num
        /\ live \in SUBSET Pcbs /\ sysFileTable \in [SysFiles -> SlotRecords]
    BY CloseEffect DEF TablesTyped
  <1>2. /\ References(s) >= 1
        /\ \A t \in SysFiles : References(t)' = IF t = s THEN References(t) - 1 ELSE References(t)
        /\ \A p \in live : Cardinality(Opened(p))' =
             IF p = current THEN Cardinality(Opened(p)) - 1 ELSE Cardinality(Opened(p))
        /\ Cardinality(Opened(current)) >= 1
    BY CloseReferences
  <1> HIDE DEF s
  <1>3. /\ References(s) <= sysFileTable[s].link_num /\ References(s) # 0
        /\ sysFileTable[s].inode_index # -1
        /\ sysFileTable[s].link_num \in Int /\ References(s) \in Nat
    BY <1>1, <1>2, Finite DEF Linked, LinksCoverReferences, SlotRecords
  <1>4. \A t \in SysFiles :
          /\ sysFileTable'[t].link_num = IF t = s THEN left ELSE sysFileTable[t].link_num
          /\ sysFileTable'[t].inode_index = IF t = s /\ left = 0 THEN -1
                                            ELSE sysFileTable[t].inode_index
    BY <1>1 DEF Closed, SlotRecords
  <1>5. LinksCoverReferences'
    <2> SUFFICES ASSUME NEW t \in SysFiles
                 PROVE  /\ References(t)' <= sysFileTable'[t].link_num
                        /\ sysFileTable'[t].inode_index = -1 => References(t)' = 0
      BY DEF LinksCoverReferences
    <2>1. CASE t = s
      BY <1>2, <1>3, <1>4, <2>1
    <2>2. CASE t # s
      BY <1>2, <1>4, <2>2 DEF Linked, LinksCoverReferences
    <2> QED BY <2>1, <2>2
  <1>6. Exact => Exact'
    <2> SUFFICES ASSUME Exact, NEW t \in SysFiles
                 PROVE  /\ sysFileTable'[t].link_num = References(t)'
                        /\ References(t)' = 0 => sysFileTable'[t].inode_index = -1
      BY DEF Exact
    <2>1. CASE t = s
      BY <1>1, <1>2, <1>3, <1>4, <2>1 DEF Exact
    <2>2. CASE t # s
      BY <1>2, <1>4, <2>2 DEF Exact
    <2> QED BY <2>1, <2>2
  <1>7. sys_file_num' = Cardinality(Busy)'
    <2>1. sys_file_num = Cardinality(Busy)
      BY DEF Linked, CountersAgree, Busy
    <2>2. CASE left = 0
      <3>1. Busy' = Busy \ {s} /\ s \in Busy
        BY <1>1, <1>3, <1>4, <2>2 DEF Busy
      <3>2. Cardinality(Busy \ {s}) = Cardinality(Busy) - 1
        BY <3>1, BusyFinite, FS_RemoveElement
      <3> QED BY <1>1, <2>1, <2>2, <3>1, <3>2
    <2>3. CASE left # 0
      <3>1. Busy' = Busy
        BY <1>4, <2>3 DEF Busy
      <3> QED BY <1>1, <2>1, <2>3, <3>1
    <2> QED BY <2>2, <2>3
  <1>8. ASSUME NEW p \in live
        PROVE  fp_num'[p] = FirstFd + Cardinality(Opened(p))'
    <2>1. fp_num[p] = FirstFd + Cardinality(Opened(p)) /\ Cardinality(Opened(p)) \in Nat
      BY <1>1, Finite DEF Linked, CountersAgree
    <2>2. fp_num'[p] = IF p = current THEN fp_num[p] - 1 ELSE fp_num[p]
      BY <1>1 DEF Linked
    <2> QED BY <1>2, <2>1, <2>2, Numbers
  <1>9. fp_num' \in [Pcbs -> Nat]
    <2>1. fp_num[current] = FirstFd + Cardinality(Opened(current)) /\ Cardinality(Opened(current)) \in Nat
      BY <1>1, Finite DEF Linked, CountersAgree
    <2>2. fp_num[current] - 1 \in Nat
      BY <1>2, <2>1, Numbers
    <2> QED BY <1>1, <2>2 DEF Linked
  <1>10. CountersAgree'
    BY <1>1, <1>7, <1>8 DEF CountersAgree, Busy
  <1> QED BY <1>5, <1>6, <1>9, <1>10 DEF Linked

(* fork counts the links of the child. *)
LEMMA ForkLinked ==
  ASSUME TablesTyped, Linked, NEW child \in Pcbs, Fork(child)
  PROVE  Linked' /\ (Exact => Exact')
  <1>1. /\ current \in live /\ current \in Pcbs /\ child \notin live
        /\ live' = live \cup {child} /\ live \in SUBSET Pcbs
        /\ UNCHANGED sys_file_num
        /\ \A s \in SysFiles : sysFileTable'[s] =
             [sysFileTable[s] EXCEPT !.link_num = @ + Links(filepointer[current])[s]]
        /\ fp_num' = [fp_num EXCEPT ![child] = fp_num[current]]
        /\ sysFileTable \in [SysFiles -> SlotRecords]
    BY ForkEffect DEF TablesTyped
  <1>2. /\ \A t \in SysFiles : References(t)' = References(t) + Links(filepointer[current])[t]
        /\ \A p \in live' : Cardinality(Opened(p))' =
             IF p = child THEN Cardinality(Opened(current)) ELSE Cardinality(Opened(p))
    BY ForkReferences
  <1>3. ASSUME NEW t \in SysFiles
        PROVE  /\ sysFileTable'[t].link_num
                    = sysFileTable[t].link_num + Links(filepointer[current])[t]
               /\ sysFileTable'[t].inode_index = sysFileTable[t].inode_index
               /\ sysFileTable[t].link_num \in Int
               /\ Links(filepointer[current])[t] \in Nat /\ References(t) \in Nat
               /\ References(t) = 0 => Links(filepointer[current])[t] = 0
    <2>1. sysFileTable[t] \in SlotRecords
      BY <1>1
    <2>2. Links(filepointer[current])[t] \in Nat /\ References(t) \in Nat
      BY <1>1, LinksAreNumbers, Finite
    <2>3. ASSUME NEW fd \in Fds, filepointer[current][fd] = t
          PROVE  References(t) # 0
      <3>1. <<current, fd>> \in Referring(t)
        BY <1>1, <2>3 DEF Referring
      <3>2. IsFiniteSet(Referring(t))
        BY <1>1, Finite
      <3> QED BY <3>1, <3>2, FS_EmptySet DEF References
    <2>4. References(t) = 0 => Links(filepointer[current])[t] = 0
      BY <2>3, LinksAreNumbers
    <2> QED BY <1>1, <2>1, <2>2, <2>4 DEF SlotRecords
  <1>4. LinksCoverReferences'
    <2> SUFFICES ASSUME NEW t \in SysFiles
                 PROVE  /\ References(t)' <= sysFileTable'[t].link_num
                        /\ sysFileTable'[t].inode_index = -1 => References(t)' = 0
      BY DEF LinksCoverReferences
    <2>1. /\ References(t) <= sysFileTable[t].link_num
          /\ sysFileTable[t].inode_index = -1 => References(t) = 0
      BY DEF Linked, LinksCoverReferences
    <2> QED BY <1>2, <1>3, <2>1
  <1>5. Exact => Exact'
    <2> SUFFICES ASSUME Exact, NEW t \in SysFiles
                 PROVE  /\ sysFileTable'[t].link_num = References(t)'
                        /\ References(t)' = 0 => sysFileTable'[t].inode_index = -1
      BY DEF Exact
    <2>1. /\ sysFileTable[t].link_num = References(t)
          /\ References(t) = 0 => sysFileTable[t].inode_index = -1
      BY DEF Exact
    <2> QED BY <1>2, <1>3, <2>1
  <1>6. Busy' = Busy
    BY <1>3 DEF Busy
  <1>7. fp_num' \in [Pcbs -> Nat] /\ \A p \in Pcbs :
          fp_num'[p] = IF p = child THEN fp_num[current] ELSE fp_num[p]
    BY <1>1 DEF Linked
  <1>8. CountersAgree'
    BY <1>1, <1>2, <1>6, <1>7 DEF Linked, CountersAgree, Busy
  <1> QED BY <1>4, <1>5, <1>7, <1>8 DEF Linked

(* exit leaves the links as they are. *)
LEMMA ExitLinked ==
  ASSUME TablesTyped, Linked, Exit
  PROVE  Linked' /\ (Disciplined /\ Exact => Exact')
  <1>1. /\ UNCHANGED <<sysFileTable, sys_file_num, filepointer, fp_num>>
        /\ live' \in SUBSET live /\ live \in SUBSET Pcbs /\ live' \in SUBSET Pcbs
        /\ Disciplined => Opened(current) = {}
    BY DEF Exit, tables, TablesTyped, Rule
  <1>2. /\ \A t : References(t)' <= References(t)
        /\ Opened(current) = {} => \A t \in SysFiles : References(t)' = References(t)
        /\ \A p : Opened(p)' = Opened(p)
    BY ExitReferences
  <1>3. \A t : References(t) \in Nat /\ References(t)' \in Nat
    <2>1. \A t : References(t) \in Nat
      BY <1>1, Finite
    <2>2. \A t : Referring(t)' \in SUBSET Referring(t)
      BY <1>1 DEF Referring
    <2>3. \A t : References(t)' \in Nat
      BY <1>1, <2>2, Finite, FS_Subset, FS_CardinalityType DEF References
    <2> QED BY <2>1, <2>3
  <1>4. LinksCoverReferences'
    <2> SUFFICES ASSUME NEW t \in SysFiles
                 PROVE  /\ References(t)' <= sysFileTable[t].link_num
                        /\ sysFileTable[t].inode_index = -1 => References(t)' = 0
      BY <1>1 DEF LinksCoverReferences
    <2>1. /\ References(t) <= sysFileTable[t].link_num
          /\ sysFileTable[t].inode_index = -1 => References(t) = 0
          /\ sysFileTable[t].link_num \in Int
      BY DEF Linked, LinksCoverReferences, TablesTyped, SlotRecords
    <2> QED BY <1>2, <1>3, <2>1
  <1>5. CountersAgree'
    BY <1>1, <1>2 DEF Linked, CountersAgree
  <1>6. Disciplined /\ Exact => Exact'
    BY <1>1, <1>2 DEF Exact
  <1> QED BY <1>1, <1>4, <1>5, <1>6 DEF Linked

(* An offset that moves is nothing to the counts. *)
LEMMA MoveQuiet ==
  ASSUME TablesTyped, current # 0, NEW fd \in Fds, Slot(fd) # -1,
         NEW position, MoveTo(fd, position),
         UNCHANGED <<sys_file_num, filepointer, fp_num, live>>
  PROVE  Quiet
  <1>1. Slot(fd) \in SysFiles /\ sysFileTable \in [SysFiles -> SlotRecords]
    BY CurrentRuns DEF TablesTyped
  <1>2. \A r \in SlotRecords : /\ [r EXCEPT !.offset = position].inode_index = r.inode_index
                               /\ [r EXCEPT !.offset = position].link_num = r.link_num
    BY DEF SlotRecords
  <1>3. \A s \in SysFiles : sysFileTable'[s] =
          IF s = Slot(fd) THEN [sysFileTable[s] EXCEPT !.offset = position] ELSE sysFileTable[s]
    BY <1>1 DEF MoveTo
  <1>4. \A s \in SysFiles : /\ sysFileTable'[s].inode_index = sysFileTable[s].inode_index
                            /\ sysFileTable'[s].link_num = sysFileTable[s].link_num
    BY <1>1, <1>2, <1>3
  <1> QED BY <1>4 DEF Quiet

(* The calls that neither take nor give back a descriptor. *)
LEMMA OthersQuiet ==
  ASSUME TablesTyped
  PROVE  /\ \A why : Panic(why) => Quiet
         /\ UNCHANGED vars \/ CatRelative \/ Switch \/ Halted => Quiet
         /\ \A path : Show(path) \/ Unlink(path) => Quiet
         /\ \A fd \in Fds, len \in Lens : Read(fd, len) \/ Write(fd, len) => Quiet
         /\ \A fd \in Fds, offset \in Seeks, whence \in Whences :
              Lseek(fd, offset, whence) => Quiet
  <1>1. \A why : Panic(why) => Quiet
    BY DEF Panic, Quiet, tables
  <1>2. UNCHANGED vars \/ CatRelative \/ Switch \/ Halted => Quiet
    BY <1>1 DEF vars, CatRelative, Switch, Halted, Quiet, tables
  <1>3. \A path : Show(path) \/ Unlink(path) => Quiet
    BY <1>1 DEF Show, Unlink, vars, tables, Quiet
  <1>4. ASSUME NEW fd \in Fds, NEW len \in Lens, Read(fd, len) \/ Write(fd, len)
        PROVE  Quiet
    <2>1. CASE \E why : Panic(why)
      BY <1>1, <2>1
    <2>2. CASE /\ HasFile(fd) /\ current # 0 /\ \E position : MoveTo(fd, position)
               /\ UNCHANGED <<sys_file_num, filepointer, fp_num, live, current, panic>>
      BY <2>2, MoveQuiet DEF HasFile
    <2> QED BY <1>4, <2>1, <2>2 DEF Read, Write
  <1>5. ASSUME NEW fd \in Fds, NEW offset \in Seeks, NEW whence \in Whences,
               Lseek(fd, offset, whence)
        PROVE  Quiet
    <2>1. CASE \E why : Panic(why)
      BY <1>1, <2>1
    <2>2. CASE /\ Slot(fd) # -1 /\ current # 0 /\ \E position : MoveTo(fd, position)
               /\ UNCHANGED <<sys_file_num, filepointer, fp_num, live, current, panic>>
      BY <2>2, MoveQuiet
    <2> QED BY <1>5, <2>1, <2>2 DEF Lseek, HasFile
  <1> QED BY <1>1, <1>2, <1>3, <1>4, <1>5

(* Every step keeps the counts; under the discipline they stay exact. *)
LEMMA OpenLinked ==
  ASSUME NoPathIsRoot, Typed, Linked, NEW path \in Paths, Open(path)
  PROVE  Linked' /\ (Exact => Exact')
  <1>1. TablesTyped
    BY DEF Typed
  <1>2. CASE Panic("assert")
    BY <1>1, <1>2, OthersQuiet, QuietLinked
  <1>3. CASE UNCHANGED live /\ Refuses
    <2>1. Quiet
      BY <1>3 DEF Refuses, Quiet
    <2> QED BY <2>1, QuietLinked
  <1>4. CASE /\ current # 0 /\ UNCHANGED live /\ findCurrentFLPos(fs', path) # -1
             /\ \E s, fd : Takes(s, fd, findCurrentFLPos(fs', path))
    <2>1. PICK s, fd : Takes(s, fd, findCurrentFLPos(fs', path))
      BY <1>4
    <2>2. PICK pos : pos # -1 /\ Takes(s, fd, pos)
      BY <1>4, <2>1
    <2> QED BY <1>1, <1>4, <2>2, TakesLinked
  <1>5. Last(path) # ""
    BY DEF NoPathIsRoot
  <1> QED BY <1>2, <1>3, <1>4, <1>5, OpenEffect

LEMMA NextLinked ==
  ASSUME NoPathIsRoot, Typed, Linked, [Next]_vars
  PROVE  Linked' /\ (Disciplined /\ Exact => Exact')
  <1>1. TablesTyped
    BY DEF Typed
  <1>2. CASE Quiet
    BY <1>2, QuietLinked
  <1>3. ASSUME NEW path \in Paths, Open(path) PROVE Linked' /\ (Exact => Exact')
    BY <1>3, OpenLinked
  <1>4. ASSUME NEW fd \in Fds, Close(fd) PROVE Linked' /\ (Exact => Exact')
    <2>1. CASE Slot(fd) = -1
      BY <1>1, <1>4, <2>1, OthersQuiet, QuietLinked DEF Close
    <2>2. CASE Slot(fd) # -1
      BY <1>1, <1>4, <2>2, CloseLinked
    <2> QED BY <2>1, <2>2
  <1>5. ASSUME NEW child \in Pcbs, Fork(child) PROVE Linked' /\ (Exact => Exact')
    BY <1>1, <1>5, ForkLinked
  <1>6. CASE Exit
    BY <1>1, <1>6, ExitLinked
  <1>7. \/ Quiet \/ Exit
        \/ \E path \in Paths : Open(path)
        \/ \E fd \in Fds : Close(fd)
        \/ \E child \in Pcbs : Fork(child)
    BY <1>1, OthersQuiet DEF Next
  <1> QED BY <1>2, <1>3, <1>4, <1>5, <1>6, <1>7

(***************************************************************************)
(* The counts agree with the tables, whatever the programs do with their   *)
(* descriptors.  An open("/") would break them: it makes a file that no    *)
(* search finds and leaves the inode -1 in the slot it takes.              *)
(***************************************************************************)
THEOREM InductiveLinked ==
  ASSUME NoPathIsRoot
  PROVE  Spec => [](Typed /\ Linked)
  <1>1. Init => Linked
    BY InitLinked
  <1>2. Typed /\ Linked /\ [Next]_vars => Linked'
    BY NextLinked
  <1> QED BY <1>1, <1>2, InductiveTyped, PTL DEF Spec

(***************************************************************************)
(* Every table keeps its type, and no count is negative.                   *)
(***************************************************************************)
THEOREM TypeCorrect ==
  ASSUME NoPathIsRoot
  PROVE  Spec => []TypeOK
  <1>1. ASSUME Typed, Linked PROVE TypeOK
    <2>1. /\ fs.inode_map \in [Inodes -> BOOLEAN]
          /\ fs.type \in [Inodes -> {"UNUSED", "FL", "DIR"}]
          /\ fs.size \in [Inodes -> Nat]
          /\ \A i \in Inodes \ Dirs : Unsigned(fs.size[i]) = fs.size[i]
      BY <1>1, Wrapping DEF Typed, SizesTyped, WellFormed, Images, Kinds, Files
    <2>2. ASSUME NEW d \in Dirs
          PROVE  fs.type[d] = "DIR" /\ \A s \in Slots : fs.dirdata[d][s].inode_no \in Inodes
      BY <1>1, <2>2, Indices DEF Typed, WellFormed, Images
    <2>3. ASSUME NEW s \in SysFiles
          PROVE  /\ sysFileTable[s].inode_index \in Inodes \cup {-1}
                 /\ sysFileTable[s].link_num \in Nat
                 /\ sysFileTable[s].offset \in Ints
      <3>1. sysFileTable[s] \in SlotRecords /\ live \in SUBSET Pcbs
        BY <1>1 DEF Typed, TablesTyped
      <3>2. References(s) \in Nat /\ References(s) <= sysFileTable[s].link_num
        BY <1>1, <3>1, Finite DEF Linked, LinksCoverReferences
      <3> QED BY <3>1, <3>2 DEF SlotRecords, Files
    <2>4. sys_file_num \in Nat
      BY <1>1, BusyFinite DEF Linked, CountersAgree, Busy
    <2> QED BY <1>1, <2>1, <2>2, <2>3, <2>4 DEF Typed, TablesTyped, Linked, TypeOK
  <1> QED BY <1>1, InductiveLinked, PTL

(***************************************************************************)
(* A close never frees a slot that another descriptor of a live process    *)
(* names (irqHandle.c:150-158), however forks and exits are mixed in.      *)
(***************************************************************************)
THEOREM LinksCover ==
  ASSUME NoPathIsRoot
  PROVE  Spec => []LinksCoverReferences
  <1>1. Linked => LinksCoverReferences
    BY DEF Linked
  <1> QED BY <1>1, InductiveLinked, PTL

(***************************************************************************)
(* sys_file_num and fp_num count what they are named for (irqHandle.c:121, *)
(* 156-160).                                                               *)
(***************************************************************************)
THEOREM CountersCount ==
  ASSUME NoPathIsRoot
  PROVE  Spec => []CountersAgree
  <1>1. Linked => CountersAgree
    BY DEF Linked
  <1> QED BY <1>1, InductiveLinked, PTL

-----------------------------------------------------------------------------
\* What a step does to the others, as OthersUndisturbed says it.
Undisturbed ==
  \A p \in live \cap live' : \A fd \in Opened(p) :
    /\ p # current => filepointer'[p][fd] = filepointer[p][fd]
    /\ (current # 0 => \A g \in Fds : Slot(g) # filepointer[p][fd])
         => sysFileTable'[filepointer[p][fd]] = sysFileTable[filepointer[p][fd]]

(* A slot that a descriptor of a live process names is in use. *)
LEMMA NamedIsBusy ==
  ASSUME TablesTyped, Linked, NEW p \in live, NEW fd \in Fds, filepointer[p][fd] # -1
  PROVE  /\ filepointer[p][fd] \in SysFiles
         /\ sysFileTable[filepointer[p][fd]].inode_index # -1
  <1> DEFINE s == filepointer[p][fd]
  <1>1. s \in SysFiles /\ live \in SUBSET Pcbs
    BY DEF TablesTyped
  <1>2. <<p, fd>> \in Referring(s)
    BY DEF Referring
  <1> HIDE DEF s
  <1>3. References(s) # 0
    BY <1>1, <1>2, Finite, FS_EmptySet DEF References
  <1>4. sysFileTable[s].inode_index # -1
    BY <1>1, <1>3 DEF Linked, LinksCoverReferences
  <1> QED BY <1>1, <1>4 DEF s

(* Nothing but the slots of the running process, and free slots, changes. *)
LEMMA SameIsUndisturbed ==
  ASSUME UNCHANGED filepointer,
         \A s : (current # 0 => \A g \in Fds : Slot(g) # s) => sysFileTable'[s] = sysFileTable[s]
  PROVE  Undisturbed
  BY DEF Undisturbed

LEMMA OpenUndisturbed ==
  ASSUME Typed, Linked, NEW path \in Paths, Open(path) PROVE Undisturbed
  <1>1. CASE Panic("assert") \/ Refuses
    BY <1>1, SameIsUndisturbed DEF Panic, tables, Refuses
  <1>2. ASSUME current # 0, UNCHANGED live, NEW s, NEW fd, NEW pos, Takes(s, fd, pos)
        PROVE  Undisturbed
    <2>1. TablesTyped /\ current \in Pcbs
      BY <1>2, CurrentRuns DEF Typed
    <2>2. /\ \A t \in SysFiles \ {s} : sysFileTable'[t] = sysFileTable[t]
          /\ \A p \in Pcbs \ {current} : filepointer'[p] = filepointer[p]
          /\ sysFileTable[s].inode_index = -1
      BY <1>2, <2>1 DEF Takes, TablesTyped
    <2>3. ASSUME NEW p \in live, NEW g \in Opened(p)
          PROVE  filepointer[p][g] \in SysFiles \ {s} /\ p \in Pcbs
      BY <2>1, <2>2, <2>3, NamedIsBusy DEF Opened, TablesTyped
    <2> QED BY <2>2, <2>3 DEF Undisturbed
  <1> QED BY <1>1, <1>2, OpenEffect

LEMMA CloseUndisturbed ==
  ASSUME Typed, Linked, NEW fd \in Fds, Close(fd) PROVE Undisturbed
  <1>1. CASE Slot(fd) = -1
    BY <1>1, SameIsUndisturbed DEF Close, Panic, tables
  <1>2. CASE Slot(fd) # -1
    <2>1. TablesTyped
      BY DEF Typed
    <2>2. /\ current \in live /\ current \in Pcbs /\ 0 \notin Pcbs /\ Slot(fd) \in SysFiles
          /\ sysFileTable' = [sysFileTable EXCEPT ![Slot(fd)] = Closed(@)]
          /\ filepointer' = [filepointer EXCEPT ![current][fd] = -1]
      BY <1>2, <2>1, CloseEffect, Numbers
    <2>3. /\ \A t \in SysFiles \ {Slot(fd)} : sysFileTable'[t] = sysFileTable[t]
          /\ \A p \in Pcbs \ {current} : filepointer'[p] = filepointer[p]
      BY <2>1, <2>2 DEF TablesTyped
    <2>4. ASSUME NEW p \in live, NEW g \in Opened(p)
          PROVE  filepointer[p][g] \in SysFiles /\ p \in Pcbs
      BY <2>1, <2>4 DEF Opened, TablesTyped
    <2> QED BY <2>2, <2>3, <2>4 DEF Undisturbed
  <1> QED BY <1>1, <1>2

LEMMA ForkUndisturbed ==
  ASSUME Typed, NEW child \in Pcbs, Fork(child) PROVE Undisturbed
  <1>1. TablesTyped
    BY DEF Typed
  <1>2. /\ current \in live /\ 0 \notin Pcbs /\ live \in SUBSET Pcbs /\ child \notin live
        /\ \A s \in SysFiles : sysFileTable'[s] =
             [sysFileTable[s] EXCEPT !.link_num = @ + Links(filepointer[current])[s]]
        /\ filepointer' = [filepointer EXCEPT ![child] = filepointer[current]]
        /\ sysFileTable \in [SysFiles -> SlotRecords]
    BY <1>1, ForkEffect, Numbers DEF TablesTyped
  <1>3. ASSUME NEW s \in SysFiles, \A g \in Fds : Slot(g) # s
        PROVE  sysFileTable'[s] = sysFileTable[s]
    <2>1. Links(filepointer[current])[s] = 0
      BY <1>3, LinksAreNumbers DEF Slot
    <2>2. \A r \in SlotRecords : [r EXCEPT !.link_num = @ + 0] = r
      BY DEF SlotRecords
    <2> QED BY <1>2, <2>1, <2>2
  <1>4. \A p \in live : filepointer'[p] = filepointer[p]
    BY <1>1, <1>2 DEF TablesTyped
  <1>5. ASSUME NEW p \in live, NEW g \in Opened(p)
        PROVE  filepointer[p][g] \in SysFiles
    BY <1>1, <1>2, <1>5 DEF Opened, TablesTyped
  <1> QED BY <1>2, <1>3, <1>4, <1>5 DEF Undisturbed

(* read, write and lseek move the offset of a slot the running process names. *)
LEMMA MoveUndisturbed ==
  ASSUME TablesTyped, current # 0, NEW fd \in Fds, NEW position, MoveTo(fd, position),
         UNCHANGED filepointer
  PROVE  Undisturbed
  <1>1. \A p \in live : \A g \in Opened(p) : filepointer[p][g] \in SysFiles
    BY DEF TablesTyped, Opened
  <1>2. \A t \in SysFiles \ {Slot(fd)} : sysFileTable'[t] = sysFileTable[t]
    BY DEF TablesTyped, MoveTo
  <1> QED BY <1>1, <1>2 DEF Undisturbed

LEMMA NextUndisturbed ==
  ASSUME Typed, Linked, [Next]_vars PROVE Undisturbed
  <1>1. TablesTyped
    BY DEF Typed
  <1>2. CASE UNCHANGED <<filepointer, sysFileTable>>
    BY <1>2, SameIsUndisturbed
  <1>3. ASSUME NEW path \in Paths, Open(path) PROVE Undisturbed
    BY <1>3, OpenUndisturbed
  <1>4. ASSUME NEW path \in Paths, Unlink(path) \/ Show(path) PROVE Undisturbed
    BY <1>2, <1>4 DEF Unlink, Show, Panic, vars, tables
  <1>5. ASSUME NEW fd \in Fds, NEW len \in Lens, Read(fd, len) \/ Write(fd, len)
        PROVE  Undisturbed
    BY <1>1, <1>2, <1>5, MoveUndisturbed DEF Read, Write, Panic, tables
  <1>6. ASSUME NEW fd \in Fds, NEW offset \in Seeks, NEW whence \in Whences,
               Lseek(fd, offset, whence)
        PROVE  Undisturbed
    BY <1>1, <1>2, <1>6, MoveUndisturbed DEF Lseek, Panic, tables
  <1>7. ASSUME NEW fd \in Fds, Close(fd) PROVE Undisturbed
    BY <1>7, CloseUndisturbed
  <1>8. ASSUME NEW child \in Pcbs, Fork(child) PROVE Undisturbed
    BY <1>8, ForkUndisturbed
  <1>9. CASE CatRelative \/ Exit \/ Switch \/ Halted \/ UNCHANGED vars
    BY <1>2, <1>9 DEF CatRelative, Panic, Exit, Switch, Halted, vars, tables
  <1> QED BY <1>3, <1>4, <1>5, <1>6, <1>7, <1>8, <1>9 DEF Next

(***************************************************************************)
(* What a process does never moves, retargets or closes an open file of a  *)
(* process it does not share the file with.                                *)
(***************************************************************************)
THEOREM OthersStayUndisturbed ==
  ASSUME NoPathIsRoot
  PROVE  Spec => OthersUndisturbed
  <1>1. Typed /\ Linked /\ [Next]_vars => Undisturbed
    BY NextUndisturbed
  <1>2. Spec => [][Undisturbed]_vars
    BY <1>1, InductiveLinked, PTL DEF Spec
  <1> QED BY <1>2, PTL DEF OthersUndisturbed, Undisturbed

-----------------------------------------------------------------------------
(***************************************************************************)
(* Under the discipline nobody exits with a descriptor, and every count is *)
(* exact.                                                                  *)
(***************************************************************************)
THEOREM LinksStayExact ==
  ASSUME NoPathIsRoot, Disciplined
  PROVE  Spec => []LinksExact
  <1>1. Init => Exact
    BY InitLinked
  <1>2. Typed /\ Linked /\ Exact /\ [Next]_vars => Exact'
    BY NextLinked
  <1>3. Linked /\ Exact => LinksExact
    BY DEF Linked, LinksCoverReferences, Exact, LinksExact
  <1> QED BY <1>1, <1>2, <1>3, InductiveLinked, PTL DEF Spec

(***************************************************************************)
(* The kernel goes wild by a descriptor that is not open, an inode that is *)
(* not there, an offset below 0 or a byte outside a block.  The discipline *)
(* rules out the first; the second is a slot in use without a file, which  *)
(* no live descriptor names; the third needs a seek, a negative length or  *)
(* a sum beyond the ints, and the last one of them or a size that does not *)
(* fit.                                                                    *)
(***************************************************************************)
Tame == /\ panic # "wild"
        /\ \A s \in SysFiles : sysFileTable[s].offset >= 0
        /\ SizesFit

\* A step that keeps the offsets and does not go wild.
Calm == /\ panic' # "wild"
        /\ \A s \in SysFiles : sysFileTable'[s].offset = sysFileTable[s].offset
                               \/ sysFileTable'[s].offset >= 0

LEMMA CalmTame ==
  ASSUME TablesTyped, Tame, Calm, SizesFit' PROVE Tame'
  BY DEF Calm, Tame, TablesTyped, SlotRecords

(* A step that halts, or leaves sysFileTable alone. *)
LEMMA SameIsCalm ==
  ASSUME Tame
  PROVE  /\ Panic("assert") => Calm
         /\ UNCHANGED <<sysFileTable, panic>> => Calm
         /\ UNCHANGED sysFileTable /\ panic' = "assert" => Calm
  BY DEF Panic, tables, Calm, Tame

(* An offset that is moved to 0 or above. *)
LEMMA MoveCalm ==
  ASSUME TablesTyped, Tame, current # 0, NEW fd \in Fds, Slot(fd) # -1,
         NEW position, position >= 0, MoveTo(fd, position), UNCHANGED panic
  PROVE  Calm
  <1>1. Slot(fd) \in SysFiles /\ sysFileTable \in [SysFiles -> SlotRecords]
    BY CurrentRuns DEF TablesTyped
  <1>2. \A r \in SlotRecords : [r EXCEPT !.offset = position].offset = position
    BY DEF SlotRecords
  <1>3. \A s \in SysFiles : sysFileTable'[s] =
          IF s = Slot(fd) THEN [sysFileTable[s] EXCEPT !.offset = position] ELSE sysFileTable[s]
    BY <1>1 DEF MoveTo
  <1>4. \A s \in SysFiles : sysFileTable'[s].offset = sysFileTable[s].offset
                            \/ sysFileTable'[s].offset >= 0
    BY <1>1, <1>2, <1>3, ZenonT(60)
  <1> QED BY <1>4 DEF Calm, Tame

(* A descriptor of the running process has a file that fits, and an offset. *)
LEMMA DescriptorHasFile ==
  ASSUME Typed, Linked, Tame, current # 0, NEW fd \in Fds, Slot(fd) # -1
  PROVE  /\ HasFile(fd) /\ Inode(fd) \in Files /\ Offset(fd) \in Nat
         /\ fs.size[Inode(fd)] \in Nat /\ fs.size[Inode(fd)] < MaxFile
  <1>1. TablesTyped /\ current \in live /\ Slot(fd) \in SysFiles
    BY CurrentRuns DEF Typed
  <1>2. HasFile(fd)
    BY <1>1, NamedIsBusy DEF Slot, Inode, HasFile
  <1>3. Inode(fd) \in Files /\ Offset(fd) \in Int
    BY <1>1, <1>2, FileOfDescriptor
  <1>4. Offset(fd) >= 0
    BY <1>1 DEF Tame, Offset
  <1>5. fs.size[Inode(fd)] \in Nat /\ fs.size[Inode(fd)] < MaxFile
    BY <1>3 DEF Typed, WellFormed, Images, Files, Tame, SizesFit
  <1> QED BY <1>2, <1>3, <1>4, <1>5

(* Within the rules a length takes the offset to another one that is an int. *)
LEMMA EndInRange ==
  ASSUME Disciplined, Typed, Linked, Tame, NEW fd \in Fds, NEW len \in Lens,
         current # 0, Slot(fd) # -1, InRange(fd, len)
  PROVE  /\ len \in Nat /\ Offset(fd) \in Nat
         /\ Offset(fd) + len \in 0 .. IntMax
         /\ Signed(Offset(fd) + len) = Offset(fd) + len
         /\ Unsigned(Offset(fd) + len) = Offset(fd) + len
         /\ Signed(len + Offset(fd)) = Offset(fd) + len
  <1>1. len \in Nat /\ Offset(fd) \in Nat /\ Offset(fd) + len <= IntMax /\ IntMax \in Nat
    BY DescriptorHasFile, ArgumentsAreInts, Numbers DEF InRange
  <1>2. Offset(fd) + len \in 0 .. IntMax /\ len + Offset(fd) = Offset(fd) + len
    BY <1>1
  <1>3. Offset(fd) + len \in Ints /\ Offset(fd) + len \in 0 .. 2 * IntMax + 1
    BY <1>1, <1>2 DEF Ints
  <1> QED BY <1>1, <1>2, <1>3, Wrapping

LEMMA ReadCalm ==
  ASSUME Disciplined, Typed, Linked, Tame, NEW fd \in Fds, NEW len \in Lens, Read(fd, len)
  PROVE  Calm
  <1>1. TablesTyped /\ current # 0 /\ Slot(fd) # -1 /\ InRange(fd, len)
    BY DEF Typed, Read, Rule
  <1>2. /\ HasFile(fd) /\ fs.size[Inode(fd)] \in Nat /\ fs.size[Inode(fd)] < MaxFile
        /\ Offset(fd) \in Nat
    BY <1>1, DescriptorHasFile
  <1>3. readsInside(fs, Inode(fd), len, Offset(fd))
    BY <1>2, Numbers DEF readsInside
  <1>4. Signed(fs.size[Inode(fd)]) = fs.size[Inode(fd)]
    <2>1. fs.size[Inode(fd)] \in Ints
      BY <1>2, Numbers DEF Ints
    <2> QED BY <2>1, Wrapping
  <1>5. AfterRead(fd, len) >= 0
    BY <1>1, <1>2, <1>4, EndInRange DEF AfterRead
  <1>6. MoveTo(fd, AfterRead(fd, len)) /\ UNCHANGED panic
    BY <1>2, <1>3 DEF Read
  <1> QED BY <1>1, <1>5, <1>6, MoveCalm

LEMMA WriteCalm ==
  ASSUME Disciplined, Typed, Linked, Tame, NEW fd \in Fds, NEW len \in Lens, Write(fd, len)
  PROVE  Calm /\ SizesFit'
  <1>1. TablesTyped /\ current # 0 /\ Slot(fd) # -1 /\ InRange(fd, len)
    BY DEF Typed, Write, Rule
  <1>2. HasFile(fd)
    BY <1>1, DescriptorHasFile
  <1>3. /\ len \in Nat /\ Offset(fd) \in Nat
        /\ Signed(Offset(fd) + len) = Offset(fd) + len
        /\ Unsigned(Offset(fd) + len) = Offset(fd) + len
        /\ Signed(len + Offset(fd)) = Offset(fd) + len
    BY <1>1, EndInRange
  <1>4. canWriteF(len, Offset(fd)) => /\ Offset(fd) + len < MaxFile
                                      /\ storesInside(len, Offset(fd))
    BY <1>3, Numbers DEF canWriteF, storesInside
  <1>5. CASE Panic("assert")
    BY <1>5, SameIsCalm DEF Panic, tables, Tame, SizesFit
  <1>6. CASE Writes(fd, len)
    <2>1. MoveTo(fd, Offset(fd) + len) /\ UNCHANGED panic /\ Offset(fd) + len < MaxFile
      BY <1>3, <1>4, <1>6 DEF Writes
    <2>2. Offset(fd) + len >= 0
      BY <1>3
    <2>3. Calm
      BY <1>1, <2>1, <2>2, MoveCalm
    <2>4. \A i \in Files : fs'.size[i] \in {fs.size[i], Offset(fd) + len}
      BY <1>3, <1>6, WriteEffect
    <2>5. SizesFit'
      BY <2>1, <2>4 DEF Tame, SizesFit, Files
    <2> QED BY <2>3, <2>5
  <1>7. Panic("assert") \/ Writes(fd, len)
    BY <1>1, <1>2, <1>4 DEF Write, Writes, HasFile
  <1> QED BY <1>5, <1>6, <1>7

LEMMA LseekCalm ==
  ASSUME Disciplined, Typed, Linked, Tame,
         NEW fd \in Fds, NEW offset \in Seeks, NEW whence \in Whences, Lseek(fd, offset, whence)
  PROVE  Calm
  <1>1. TablesTyped /\ current # 0 /\ Slot(fd) # -1 /\ whence # "other"
    BY DEF Typed, Lseek, Rule
  <1>2. HasFile(fd)
    BY <1>1, DescriptorHasFile
  <1>3. /\ Target(fd, offset, whence) \in 0 .. IntMax
        /\ MoveTo(fd, Signed(Target(fd, offset, whence))) /\ UNCHANGED panic
    BY <1>1, <1>2 DEF Lseek, Rule
  <1>4. Signed(Target(fd, offset, whence)) >= 0
    <2>1. Target(fd, offset, whence) \in Ints
      BY <1>3, Numbers DEF Ints
    <2> QED BY <1>3, <2>1, Wrapping
  <1> QED BY <1>1, <1>3, <1>4, MoveCalm

LEMMA OpenCalm ==
  ASSUME Typed, Tame, NEW path \in Paths, Open(path) PROVE Calm
  <1>1. CASE Panic("assert") \/ Refuses
    BY <1>1, SameIsCalm DEF Refuses
  <1>2. ASSUME NEW s, NEW fd, NEW pos, Takes(s, fd, pos) PROVE Calm
    <2>1. /\ sysFileTable \in [SysFiles -> SlotRecords] /\ s \in SysFiles
          /\ sysFileTable' = [sysFileTable EXCEPT
               ![s] = [inode_index |-> pos, link_num |-> 1, offset |-> 0]]
          /\ panic' = panic
      BY <1>2 DEF Typed, TablesTyped, Takes
    <2>2. \A t \in SysFiles : sysFileTable'[t].offset = sysFileTable[t].offset
                              \/ sysFileTable'[t].offset >= 0
      BY <2>1
    <2> QED BY <2>1, <2>2 DEF Calm, Tame
  <1> QED BY <1>1, <1>2, OpenEffect

LEMMA CloseCalm ==
  ASSUME Disciplined, Typed, Tame, NEW fd \in Fds, Close(fd) PROVE Calm
  <1>1. TablesTyped /\ Slot(fd) # -1
    BY DEF Typed, Close, Rule
  <1>2. /\ Slot(fd) \in SysFiles /\ sysFileTable \in [SysFiles -> SlotRecords]
        /\ sysFileTable' = [sysFileTable EXCEPT ![Slot(fd)] = Closed(@)] /\ panic' = panic
    BY <1>1, CloseEffect DEF TablesTyped
  <1>3. \A r \in SlotRecords : Closed(r).offset = r.offset \/ Closed(r).offset >= 0
    BY DEF Closed, SlotRecords
  <1>4. \A t \in SysFiles : sysFileTable'[t].offset = sysFileTable[t].offset
                            \/ sysFileTable'[t].offset >= 0
    BY <1>2, <1>3
  <1> QED BY <1>2, <1>4 DEF Calm, Tame

LEMMA ForkCalm ==
  ASSUME Typed, Tame, NEW child \in Pcbs, Fork(child) PROVE Calm
  <1>1. /\ sysFileTable \in [SysFiles -> SlotRecords] /\ panic' = panic
        /\ \A s \in SysFiles : sysFileTable'[s] =
             [sysFileTable[s] EXCEPT !.link_num = @ + Links(filepointer[current])[s]]
    BY ForkEffect DEF Typed, TablesTyped
  <1>2. \A r \in SlotRecords : \A n : [r EXCEPT !.link_num = n].offset = r.offset
    BY DEF SlotRecords
  <1>3. ASSUME NEW t \in SysFiles PROVE sysFileTable'[t].offset = sysFileTable[t].offset
    <2>1. sysFileTable[t] \in SlotRecords
      BY <1>1
    <2>2. sysFileTable'[t] = [sysFileTable[t] EXCEPT
            !.link_num = sysFileTable[t].link_num + Links(filepointer[current])[t]]
      BY <1>1
    <2> QED BY <1>2, <2>1, <2>2
  <1> QED BY <1>1, <1>3 DEF Calm, Tame

(* The other calls store nothing in a file. *)
LEMMA OthersFit ==
  ASSUME Typed, SizesFit,
         \/ \E path \in Paths : Open(path) \/ Unlink(path) \/ Show(path)
         \/ \E fd \in Fds, len \in Lens : Read(fd, len)
         \/ \E fd \in Fds, offset \in Seeks, whence \in Whences : Lseek(fd, offset, whence)
         \/ \E fd \in Fds : Close(fd)
         \/ \E child \in Pcbs : Fork(child)
         \/ CatRelative \/ Exit \/ Switch \/ Halted \/ UNCHANGED vars
  PROVE  SizesFit'
  <1>1. CASE fs' = fs
    BY <1>1 DEF SizesFit
  <1>2. ASSUME NEW path \in Paths, Open(path) PROVE SizesFit'
    <2>1. CASE Panic("assert")
      BY <1>1, <2>1 DEF Panic, tables
    <2>2. CASE \A i \in Files : fs'.size[i] = fs.size[i]
      BY <2>2 DEF SizesFit, Files
    <2> QED BY <1>2, <2>1, <2>2, OpenEffect
  <1>3. ASSUME NEW path \in Paths, Unlink(path) PROVE SizesFit'
    <2>1. CASE Panic("assert")
      BY <1>1, <2>1 DEF Panic, tables
    <2>2. CASE findUpperDirPos(fs, path) # -1 /\ fs' = rmFL(fs, path)
      BY <2>2, RemoveKeepsSizes DEF SizesFit
    <2> QED BY <1>3, <2>1, <2>2 DEF Unlink
  <1>4. ASSUME \/ \E path \in Paths : Show(path)
               \/ \E fd \in Fds, len \in Lens : Read(fd, len)
               \/ \E fd \in Fds, offset \in Seeks, whence \in Whences : Lseek(fd, offset, whence)
               \/ \E fd \in Fds : Close(fd)
               \/ \E child \in Pcbs : Fork(child)
               \/ CatRelative \/ Exit \/ Switch \/ Halted \/ UNCHANGED vars
        PROVE  fs' = fs
    BY <1>4 DEF Show, CatRelative, Read, Lseek, Close, Fork, ForkTables, Exit, Switch, Halted,
               Panic, vars, tables
  <1> QED BY <1>1, <1>2, <1>3, <1>4

LEMMA NextTame ==
  ASSUME Disciplined, Typed, Linked, Tame, [Next]_vars PROVE Tame'
  <1>1. ASSUME NEW path \in Paths, Open(path) PROVE Calm
    BY <1>1, OpenCalm
  <1>2. ASSUME NEW path \in Paths, Unlink(path) PROVE Calm
    BY <1>2, SameIsCalm DEF Unlink
  <1>3. ASSUME NEW fd \in Fds, NEW len \in Lens, Read(fd, len) PROVE Calm
    BY <1>3, ReadCalm
  <1>4. ASSUME NEW fd \in Fds, NEW offset \in Seeks, NEW whence \in Whences,
               Lseek(fd, offset, whence)
        PROVE  Calm
    BY <1>4, LseekCalm
  <1>5. ASSUME NEW fd \in Fds, Close(fd) PROVE Calm
    BY <1>5, CloseCalm
  <1>6. ASSUME NEW child \in Pcbs, Fork(child) PROVE Calm
    BY <1>6, ForkCalm
  <1>7. ASSUME (\E path \in Paths : Show(path)) \/ CatRelative \/ Exit \/ Switch \/ Halted
                 \/ UNCHANGED vars
        PROVE  Calm
    <2>1. Oversized = {}
      <3>1. ASSUME NEW i \in Inodes \ Dirs PROVE ~(fs.size[i] > MaxFile)
        <4>1. fs.size[i] \in Nat /\ fs.size[i] < MaxFile
          BY DEF Typed, WellFormed, Images, Tame, SizesFit
        <4> QED BY <4>1, Numbers
      <3> QED BY <3>1 DEF Oversized
    <2>2. Panic("assert") \/ UNCHANGED <<sysFileTable, panic>>
      BY <1>7, <2>1 DEF Show, CatRelative, Exit, Switch, Halted, vars, tables
    <2> QED BY <2>2, SameIsCalm
  <1>8. ASSUME NEW fd \in Fds, NEW len \in Lens, Write(fd, len) PROVE Tame'
    BY <1>8, WriteCalm, CalmTame DEF Typed
  <1>9. CASE \/ \E path \in Paths : Open(path) \/ Unlink(path) \/ Show(path)
             \/ \E fd \in Fds, len \in Lens : Read(fd, len)
             \/ \E fd \in Fds, offset \in Seeks, whence \in Whences : Lseek(fd, offset, whence)
             \/ \E fd \in Fds : Close(fd)
             \/ \E child \in Pcbs : Fork(child)
             \/ CatRelative \/ Exit \/ Switch \/ Halted \/ UNCHANGED vars
    <2>1. Calm
      BY <1>1, <1>2, <1>3, <1>4, <1>5, <1>6, <1>7, <1>9
    <2>2. SizesFit'
      BY <1>9, OthersFit DEF Tame
    <2> QED BY <2>1, <2>2, CalmTame DEF Typed
  <1> QED BY <1>8, <1>9 DEF Next

(***************************************************************************)
(* Under the rules the files always fit their blocks, no offset is below 0 *)
(* and the kernel has not gone wild: each of the three rests on the other  *)
(* two (fs.c:363-368, irqHandle.c:137-139, 205-224).                       *)
(***************************************************************************)
THEOREM InductiveTame ==
  ASSUME NoPathIsRoot, Disciplined
  PROVE  Spec => []Tame
  <1>1. Init => Tame
    <2> SUFFICES ASSUME Init PROVE Tame
      OBVIOUS
    <2>1. SizesFit
      <3> SUFFICES ASSUME NEW i \in Inodes \ Dirs PROVE fs.size[i] = 0
        BY Numbers DEF SizesFit
      <3>1. fs.size = [k \in Inodes |-> IF k = Root THEN 2 + Len(SubDirs)
                                      ELSE IF k \in Dirs THEN 2 ELSE 0]
        BY DEF Init, Image
      <3> QED BY <3>1, Indices
    <2> QED BY <2>1 DEF Init, Tame
  <1>2. Typed /\ Linked /\ Tame /\ [Next]_vars => Tame'
    BY NextTame
  <1> QED BY <1>1, <1>2, InductiveLinked, PTL DEF Spec

(***************************************************************************)
(* Programs that keep to their open descriptors, never seek below 0, pass  *)
(* no negative length and take no offset beyond the ints never send the    *)
(* kernel behind an index that names nothing, nor outside a datablock      *)
(* (fs.c:360-389, irqHandle.c:87-224).                                     *)
(***************************************************************************)
THEOREM KernelStaysTame ==
  ASSUME NoPathIsRoot, Disciplined
  PROVE  Spec => []NeverWild
  <1>1. Tame => NeverWild
    BY DEF Tame, NeverWild
  <1> QED BY <1>1, InductiveTame, PTL

(***************************************************************************)
(* Under the same rules every file keeps within its block, whatever an     *)
(* unused inode's size was and wherever lseek, or a process that shares    *)
(* the offset, has been (fs.c:305, 363).                                   *)
(***************************************************************************)
THEOREM SizesStayInBounds ==
  ASSUME NoPathIsRoot, Disciplined
  PROVE  Spec => []SizesFit
  <1>1. Tame => SizesFit
    BY DEF Tame
  <1> QED BY <1>1, InductiveTame, PTL

-----------------------------------------------------------------------------
(* A path that names a file is not "/". *)
LEMMA FilesAreNotRoot == FilesOnly => NoPathIsRoot
  BY DEF FilesOnly, NoPathIsRoot, FileName, Reserved

(* open, write and remove keep the names and the inodes in agreement. *)
LEMMA FindsConsistent ==
  ASSUME FilesOnly, Consistent(fs), NEW path \in Paths, Finds(path)
  PROVE  Consistent(fs')
  <1>1. FileName(path)
    BY DEF FilesOnly
  <1> QED BY <1>1, MakeConsistent DEF Finds

LEMMA NextConsistent ==
  ASSUME FilesOnly, Typed, Consistent(fs), [Next]_vars
  PROVE  Consistent(fs')
  <1>1. CASE fs' = fs
    BY <1>1
  <1>2. ASSUME NEW path \in Paths, Open(path) PROVE Consistent(fs')
    <2>1. CASE Panic("assert")
      BY <1>1, <2>1 DEF Panic, tables
    <2>2. CASE Finds(path)
      BY <2>2, FindsConsistent
    <2> QED BY <1>2, <2>1, <2>2, OpenEffect
  <1>3. ASSUME NEW path \in Paths, Unlink(path) PROVE Consistent(fs')
    <2>1. CASE Panic("assert")
      BY <1>1, <2>1 DEF Panic, tables
    <2>2. CASE findUpperDirPos(fs, path) # -1 /\ fs' = rmFL(fs, path)
      <3>1. APath(path) /\ FileName(path)
        BY PathsAreOne DEF FilesOnly
      <3> QED BY <2>2, <3>1, RemoveConsistent
    <2> QED BY <1>3, <2>1, <2>2 DEF Unlink
  <1>4. ASSUME NEW fd \in Fds, NEW len \in Lens, Write(fd, len) PROVE Consistent(fs')
    <2>1. CASE \E why : Panic(why)
      BY <1>1, <2>1 DEF Panic, tables
    <2>2. CASE /\ HasFile(fd) /\ current # 0
               /\ fs' = writeF(fs, Inode(fd), len, Offset(fd))
      <3>1. Inode(fd) \in Inodes \ Dirs /\ Offset(fd) \in Int /\ len \in Int
        BY <2>2, FileOfDescriptor, ArgumentsAreInts DEF Typed
      <3> QED BY <2>2, <3>1, WriteConsistent
    <2> QED BY <1>4, <2>1, <2>2 DEF Write
  <1>5. ASSUME \/ \E path \in Paths : Show(path)
               \/ \E fd \in Fds, len \in Lens : Read(fd, len)
               \/ \E fd \in Fds, offset \in Seeks, whence \in Whences : Lseek(fd, offset, whence)
               \/ \E fd \in Fds : Close(fd)
               \/ \E child \in Pcbs : Fork(child)
               \/ CatRelative \/ Exit \/ Switch \/ Halted \/ UNCHANGED vars
        PROVE  fs' = fs
    BY <1>5 DEF Show, CatRelative, Read, Lseek, Close, Fork, ForkTables, Exit, Switch, Halted,
               Panic, vars, tables
  <1> QED BY <1>1, <1>2, <1>3, <1>4, <1>5 DEF Next

(***************************************************************************)
(* If the paths name files: an open("/usr/") would make a file with the    *)
(* name of a directory, and remove would then free the directory's entry.  *)
(***************************************************************************)
THEOREM InductiveConsistent ==
  ASSUME FilesOnly
  PROVE  Spec => []Consistent(fs)
  <1>1. Init => Consistent(fs)
    BY ImageConsistent DEF Init
  <1>2. Typed /\ Consistent(fs) /\ [Next]_vars => Consistent(fs)'
    BY NextConsistent
  <1> QED BY <1>1, <1>2, InductiveTyped, PTL DEF Spec

(***************************************************************************)
(* Every file in use has one entry, under its own name, and every entry    *)
(* names an inode in use (fs.c:299-314, 333-342).                          *)
(***************************************************************************)
THEOREM NamesMatch ==
  ASSUME FilesOnly
  PROVE  Spec => []NamesMatchInodes
  <1>1. ASSUME Consistent(fs) PROVE NamesMatchInodes
    <2>1. ASSUME NEW e \in Entries PROVE /\ e[1] \in Dirs /\ e[2] \in InUse(fs, e[1])
                                         /\ e = <<e[1], e[2]>>
      BY <2>1 DEF Entries
    <2>2. ASSUME NEW e \in Entries PROVE fs.inode_map[InodeOf(e)]
      BY <1>1, <2>1 DEF Consistent, EntriesInUse, InodeOf
    <2>3. ASSUME NEW i \in Inodes \ Dirs, fs.inode_map[i]
          PROVE  \E e \in Entries : /\ {f \in Entries : InodeOf(f) = i} = {e}
                                    /\ fs.type[i] = "FL"
                                    /\ fs.dirdata[e[1]][e[2]].filename = fs.filename[i]
      <3>1. PICK d \in Dirs : \E s \in InUse(fs, d) : fs.dirdata[d][s].inode_no = i
        BY <1>1, <2>3 DEF Consistent, EveryFile
      <3>2. PICK s \in InUse(fs, d) : fs.dirdata[d][s].inode_no = i
        BY <3>1
      <3>3. <<d, s>> \in Entries /\ InodeOf(<<d, s>>) = i
        BY <3>2 DEF Entries, InUse, InodeOf
      <3>4. ASSUME NEW f \in Entries, InodeOf(f) = i PROVE f = <<d, s>>
        BY <1>1, <2>1, <2>3, <3>2, <3>4 DEF Consistent, OneEntry, InodeOf
      <3>5. fs.type[i] = "FL" /\ fs.dirdata[d][s].filename = fs.filename[i]
        BY <1>1, <2>3, <3>2 DEF Consistent, EntriesNamed
      <3> QED BY <3>3, <3>4, <3>5
    <2> QED BY <2>2, <2>3 DEF NamesMatchInodes
  <1> QED BY <1>1, InductiveConsistent, PTL

(* The inode a search finds is in use. *)
LEMMA FoundIsInUse ==
  ASSUME NEW f, Consistent(f), NEW path, findUpperDirPos(f, path) \in Dirs,
         findCurrentFLPos(f, path) # -1
  PROVE  /\ f.inode_map[findCurrentFLPos(f, path)]
         /\ f.type[findCurrentFLPos(f, path)] = "FL"
  <1> DEFINE d == findUpperDirPos(f, path)
  <1>1. WellFormed(f)
    BY DEF Consistent
  <1>2. \E s \in Matching(f, d, Last(path), "FL") :
          findCurrentFLPos(f, path) = f.dirdata[d][s].inode_no
    BY <1>1, LookupProperties DEF findCurrentFLPos
  <1>3. PICK s \in InUse(f, d) : findCurrentFLPos(f, path) = f.dirdata[d][s].inode_no
    BY <1>2 DEF Matching
  <1>4. f.inode_map[findCurrentFLPos(f, path)]
    BY <1>3 DEF Consistent, EntriesInUse
  <1> QED BY <1>1, <1>4, FilePos

\* Each slot loses its file or keeps it, and the file stays one.
SlotsKeep ==
  \A s \in SysFiles : sysFileTable'[s].inode_index # -1 =>
    /\ sysFileTable'[s].inode_index = sysFileTable[s].inode_index
    /\ fs'.inode_map[sysFileTable[s].inode_index] = fs.inode_map[sysFileTable[s].inode_index]
    /\ fs'.type[sysFileTable[s].inode_index] = fs.type[sysFileTable[s].inode_index]

(* The calls that leave the image as it is take no slot. *)
LEMMA OthersKeep ==
  ASSUME TablesTyped
  PROVE  /\ Quiet /\ fs' = fs => SlotsKeep
         /\ \A fd \in Fds : Close(fd) => SlotsKeep
         /\ \A child \in Pcbs : Fork(child) => SlotsKeep
         /\ Exit => SlotsKeep
  <1>1. Quiet /\ fs' = fs => SlotsKeep
    BY DEF Quiet, SlotsKeep
  <1>2. ASSUME NEW fd \in Fds, Close(fd) PROVE SlotsKeep
    <2>1. CASE Slot(fd) = -1
      BY <1>2, <2>1 DEF Close, Panic, tables, SlotsKeep
    <2>2. CASE Slot(fd) # -1
      <3>1. /\ Slot(fd) \in SysFiles /\ sysFileTable \in [SysFiles -> SlotRecords]
            /\ sysFileTable' = [sysFileTable EXCEPT ![Slot(fd)] = Closed(@)] /\ fs' = fs
        BY <1>2, <2>2, CloseEffect DEF TablesTyped
      <3>2. \A r \in SlotRecords : Closed(r).inode_index # -1 =>
              Closed(r).inode_index = r.inode_index
        BY DEF Closed, SlotRecords
      <3>3. \A s \in SysFiles : sysFileTable'[s].inode_index # -1 =>
              sysFileTable'[s].inode_index = sysFileTable[s].inode_index
        BY <3>1, <3>2
      <3> QED BY <3>1, <3>3 DEF SlotsKeep
    <2> QED BY <2>1, <2>2
  <1>3. ASSUME NEW child \in Pcbs, Fork(child) PROVE SlotsKeep
    <2>1. /\ fs' = fs /\ sysFileTable \in [SysFiles -> SlotRecords]
          /\ \A s \in SysFiles : sysFileTable'[s] =
               [sysFileTable[s] EXCEPT !.link_num = @ + Links(filepointer[current])[s]]
      BY <1>3, ForkEffect DEF TablesTyped
    <2>2. \A r \in SlotRecords : \A n : [r EXCEPT !.link_num = n].inode_index = r.inode_index
      BY DEF SlotRecords
    <2>3. ASSUME NEW s \in SysFiles
          PROVE  sysFileTable'[s].inode_index = sysFileTable[s].inode_index
      <3>1. sysFileTable[s] \in SlotRecords
        BY <2>1
      <3>2. sysFileTable'[s] = [sysFileTable[s] EXCEPT
              !.link_num = sysFileTable[s].link_num + Links(filepointer[current])[s]]
        BY <2>1
      <3> QED BY <2>2, <3>1, <3>2
    <2> QED BY <2>1, <2>3 DEF SlotsKeep
  <1>4. Exit => SlotsKeep
    BY DEF Exit, tables, SlotsKeep
  <1> QED BY <1>1, <1>2, <1>3, <1>4

(* open takes a slot for a file that is there. *)
LEMMA OpenExist ==
  ASSUME FilesOnly, Typed, Consistent(fs), OpenFilesExist, NEW path \in Paths, Open(path)
  PROVE  OpenFilesExist'
  <1>1. CASE Panic("assert")
    BY <1>1 DEF Panic, tables, OpenFilesExist
  <1>2. ASSUME Finds(path)
        PROVE  \A i \in Files : fs.inode_map[i] /\ fs.type[i] = "FL" =>
                 fs'.inode_map[i] /\ fs'.type[i] = "FL"
    <2>1. CASE fs' = fs
      BY <2>1
    <2>2. CASE MayMake(fs, path) /\ fs' = makeFL(fs, path)
      <3>1. PICK d, x, n, name : Added(fs, makeFL(fs, path), d, x, n, name)
        BY <2>2, MakeAdds
      <3>2. Added(fs, fs', d, x, n, name)
        BY <2>2, <3>1
      <3> QED BY <3>2 DEF Added, Files
    <2> QED BY <1>2, <2>1, <2>2 DEF Finds
  <1>3. \A s \in SysFiles : sysFileTable[s].inode_index \in Files \cup {-1}
    BY DEF Typed, TablesTyped, SlotRecords
  <1>4. CASE Finds(path) /\ Refuses
    BY <1>2, <1>3, <1>4 DEF Refuses, OpenFilesExist
  <1>5. CASE /\ Finds(path) /\ findUpperDirPos(fs', path) \in Dirs
             /\ findCurrentFLPos(fs', path) # -1
             /\ \E s, fd : Takes(s, fd, findCurrentFLPos(fs', path))
    <2>1. PICK s, fd : Takes(s, fd, findCurrentFLPos(fs', path))
      BY <1>5
    <2>2. Consistent(fs')
      BY <1>5, FindsConsistent
    <2>3. /\ fs'.inode_map[findCurrentFLPos(fs', path)]
          /\ fs'.type[findCurrentFLPos(fs', path)] = "FL"
      BY <1>5, <2>2, FoundIsInUse
    <2>4. PICK pos : /\ Takes(s, fd, pos) /\ fs'.inode_map[pos] /\ fs'.type[pos] = "FL"
      BY <2>1, <2>3
    <2>5. \A t \in SysFiles : sysFileTable'[t].inode_index =
            IF t = s THEN pos ELSE sysFileTable[t].inode_index
      BY <2>4 DEF Takes, Typed, TablesTyped
    <2>6. ASSUME NEW t \in SysFiles, sysFileTable'[t].inode_index # -1
          PROVE  /\ fs'.inode_map[sysFileTable'[t].inode_index]
                 /\ fs'.type[sysFileTable'[t].inode_index] = "FL"
      <3>1. CASE t = s
        BY <2>4, <2>5, <3>1
      <3>2. CASE t # s
        <4>1. /\ sysFileTable'[t].inode_index = sysFileTable[t].inode_index
              /\ sysFileTable[t].inode_index \in Files
          BY <1>3, <2>5, <2>6, <3>2
        <4>2. /\ fs.inode_map[sysFileTable[t].inode_index]
              /\ fs.type[sysFileTable[t].inode_index] = "FL"
          BY <2>6, <4>1 DEF OpenFilesExist
        <4> QED BY <1>2, <1>5, <4>1, <4>2
      <3> QED BY <3>1, <3>2
    <2> QED BY <2>6 DEF OpenFilesExist
  <1>6. Last(path) # ""
    BY FilesAreNotRoot DEF NoPathIsRoot
  <1> QED BY <1>1, <1>4, <1>5, <1>6, OpenEffect

(* remove, under the discipline, takes the inode of no open file. *)
LEMMA UnlinkExist ==
  ASSUME Disciplined, Typed, OpenFilesExist, NEW path \in Paths, Unlink(path)
  PROVE  OpenFilesExist'
  <1>1. CASE Panic("assert")
    BY <1>1 DEF Panic, tables, OpenFilesExist
  <1>2. CASE /\ findUpperDirPos(fs, path) # -1
             /\ ~\E s \in SysFiles : /\ sysFileTable[s].inode_index # -1
                                     /\ sysFileTable[s].inode_index = findCurrentFLPos(fs, path)
             /\ fs' = rmFL(fs, path) /\ UNCHANGED sysFileTable
    <2>1. APath(path) /\ WellFormed(fs)
      BY PathsAreOne DEF Typed
    <2>2. CASE fs' = fs
      BY <1>2, <2>2 DEF OpenFilesExist
    <2>3. CASE findCurrentFLPos(fs, path) # -1
      <3>1. PICK d, S : Dropped(fs, rmFL(fs, path), d, S, findCurrentFLPos(fs, path))
        BY <1>2, <2>1, <2>3, RemoveDrops
      <3>2. Dropped(fs, fs', d, S, findCurrentFLPos(fs, path))
        BY <1>2, <3>1
      <3>3. /\ fs'.type = fs.type
            /\ \A i \in Inodes : i # findCurrentFLPos(fs, path) /\ fs.inode_map[i] =>
                 fs'.inode_map[i]
        BY <3>2 DEF Dropped
      <3>4. \A s \in SysFiles : sysFileTable[s].inode_index \in Inodes \cup {-1}
        BY DEF Typed, TablesTyped, SlotRecords, Files
      <3> QED BY <1>2, <3>3, <3>4 DEF OpenFilesExist
    <2> QED BY <1>2, <2>1, <2>2, <2>3, RemoveDrops
  <1> QED BY <1>1, <1>2 DEF Unlink, Rule

(* write changes the size of the file, and no more of the image. *)
LEMMA WriteKeeps ==
  ASSUME Typed, NEW fd \in Fds, NEW len \in Lens, Write(fd, len)
  PROVE  SlotsKeep
  <1>1. TablesTyped
    BY DEF Typed
  <1>2. Quiet
    BY <1>1, OthersQuiet
  <1>3. CASE \E why : Panic(why)
    BY <1>1, <1>2, <1>3, OthersKeep DEF Panic, tables
  <1>4. CASE Writes(fd, len)
    <2>1. /\ WellFormed(fs')
          /\ fs'.inode_map = fs.inode_map /\ fs'.type = fs.type
      BY <1>4, WriteEffect
    <2> QED BY <1>2, <2>1 DEF Quiet, SlotsKeep
  <1> QED BY <1>3, <1>4 DEF Write, Writes

LEMMA NextExist ==
  ASSUME FilesOnly, Disciplined, Typed, Consistent(fs), OpenFilesExist, [Next]_vars
  PROVE  OpenFilesExist'
  <1>1. TablesTyped
    BY DEF Typed
  <1>2. CASE SlotsKeep
    BY <1>2 DEF SlotsKeep, OpenFilesExist
  <1>3. ASSUME NEW path \in Paths, Open(path) \/ Unlink(path) PROVE OpenFilesExist'
    BY <1>3, OpenExist, UnlinkExist
  <1>4. ASSUME \/ \E path \in Paths : Show(path)
               \/ \E fd \in Fds, len \in Lens : Read(fd, len)
               \/ \E fd \in Fds, offset \in Seeks, whence \in Whences : Lseek(fd, offset, whence)
               \/ CatRelative \/ Switch \/ Halted \/ UNCHANGED vars
        PROVE  SlotsKeep
    <2>1. Quiet
      BY <1>1, <1>4, OthersQuiet
    <2>2. fs' = fs
      BY <1>4 DEF Show, Read, Lseek, CatRelative, Switch, Halted, Panic, vars, tables
    <2> QED BY <1>1, <2>1, <2>2, OthersKeep
  <1>5. ASSUME \/ \E fd \in Fds, len \in Lens : Write(fd, len)
               \/ \E fd \in Fds : Close(fd)
               \/ \E child \in Pcbs : Fork(child)
               \/ Exit
        PROVE  SlotsKeep
    BY <1>1, <1>5, WriteKeeps, OthersKeep
  <1> QED BY <1>2, <1>3, <1>4, <1>5 DEF Next

(***************************************************************************)
(* A file that is open is a file: remove takes only files nobody has open, *)
(* and an open gives the slot the inode of the file that its path names.   *)
(***************************************************************************)
THEOREM OpenFilesStay ==
  ASSUME FilesOnly, Disciplined
  PROVE  Spec => []OpenFilesExist
  <1>1. Init => OpenFilesExist
    BY DEF Init, OpenFilesExist
  <1>2. Typed /\ Consistent(fs) /\ OpenFilesExist /\ [Next]_vars => OpenFilesExist'
    BY NextExist
  <1> QED BY <1>1, <1>2, InductiveTyped, InductiveConsistent, PTL DEF Spec
=============================================================================
