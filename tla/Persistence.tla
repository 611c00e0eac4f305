---------------------------- MODULE Persistence ----------------------------
(***************************************************************************)
(* The file system image between memory and disk: loadFS at the start of   *)
(* the kernel (kvm.c), writeBack in every exit (fs.c, process.c), one      *)
(* sector at a time (disk.c), and the loss of power at any moment.         *)
(*                                                                         *)
(* Fault model: the power may fail between any two sectors; a sector is    *)
(* written as a whole or not at all; the drive keeps what was written.  A  *)
(* kernel that has stopped in abort() can only be switched off, so that a  *)
(* failed assertion is a power loss as far as the image is concerned.      *)
(***************************************************************************)
EXTENDS FileSystem, Disk

CONSTANTS
  FsOffset,     \* FS_OFFSET_IN_DISK
  FsSize,       \* FS_SIZE_MB*1024*1024
  UserOffset,   \* USER_OFFSET_IN_DISK
  Segments,     \* the program headers of the user program
  UserMemory,   \* the addresses of the user program
  Paths,        \* the files programs create, remove and write
  Lens,         \* the lengths they write
  MaxWork       \* bound on the number of file operations of a behaviour

(***************************************************************************)
(* The structures of x86/fs.h in units: a byte of inode_map, a field of an *)
(* inode and a field of a directory entry are one unit each.               *)
(***************************************************************************)
InodeLen == 3 + 2 * NrEntry
InodeAt(i) == NrInode + i * InodeLen
EntryAt(d, s) == InodeAt(d) + 3 + 2 * s
ImageLen == InodeAt(NrInode)

\* Where readBytes writes when it loads a segment, and the segment itself.
Spill(ph) == {a \in UserMemory : Transferred(a, ph.paddr, UserOffset + ph.off, ph.filesz)}
Span(ph) == ph.paddr .. ph.paddr + ph.memsz - 1

Loaded == {i \in 1 .. Len(Segments) : Segments[i].type = "PT_LOAD"}

\* The image starts and ends with a sector and has room for the structures.
ASSUME LayoutAssumption ==
  /\ FsOffset \in Nat /\ canWriteBytes(FsOffset)
  /\ FsSize \in Nat /\ FsSize % SectSize = 0 /\ ImageLen <= FsSize

(***************************************************************************)
(* The user program lies on the disk before the image.  The linker puts    *)
(* its segments on pages of their own, so that no segment is read over     *)
(* one that is already there, nor cleared over one.                        *)
(***************************************************************************)
ASSUME SegmentsAssumption ==
  /\ UserOffset \in Nat
  /\ UserMemory \subseteq Nat
  /\ Segments \in Seq([type : STRING, off : Nat, paddr : Nat, filesz : Nat, memsz : Nat])
  /\ \A i \in Loaded :
       /\ Segments[i].filesz <= Segments[i].memsz
       /\ UserOffset + Segments[i].off + Segments[i].filesz <= FsOffset
       /\ Span(Segments[i]) \subseteq UserMemory
       /\ \A j \in Loaded :
            j < i => (Spill(Segments[i]) \cup Span(Segments[i])) \cap Span(Segments[j]) = {}

ASSUME WorkAssumption ==
  /\ Paths \subseteq Seq(STRING) \ {<< >>}
  /\ Lens \subseteq Ints
  /\ MaxWork \in Nat

VARIABLES
  power,      \* the machine is on
  fs,         \* the image in memory
  memory,     \* the memory of the user program as the kernel has loaded it
  disk,       \* the bytes of the disk
  section,    \* the sector writeBack writes next, or -1
  saved,      \* history: the image on the disk when no writeBack was going on
  work,       \* the number of file operations so far
  torn        \* history: "now" after a power loss within a writeBack and until
              \* the image it left is loaded, then "past"; "no" before

vars == <<power, fs, memory, disk, section, saved, work, torn>>

-----------------------------------------------------------------------------
(* The image as bytes, and the bytes as an image (initFS's casts). *)
Field(image, i, o) ==
  CASE o = 0 -> image.type[i]
    [] o = 1 -> image.size[i]
    [] o = 2 -> image.filename[i]
    [] o > 2 /\ i \notin Dirs -> 0
    [] o > 2 /\ i \in Dirs ->
         LET entry == image.dirdata[i][(o - 3) \div 2]
         IN  IF o % 2 = 1 THEN entry.inode_no ELSE entry.filename

BytesOf(image) ==
  [b \in 0 .. FsSize - 1 |->
     IF b < NrInode THEN image.inode_map[b]
     ELSE IF b >= ImageLen THEN 0
     ELSE Field(image, (b - NrInode) \div InodeLen, (b - NrInode) % InodeLen)]

ImageOf(bytes) ==
  [inode_map |-> [i \in Inodes |-> bytes[i]],
   type      |-> [i \in Inodes |-> bytes[InodeAt(i)]],
   size      |-> [i \in Inodes |-> bytes[InodeAt(i) + 1]],
   filename  |-> [i \in Inodes |-> bytes[InodeAt(i) + 2]],
   dirdata   |-> [d \in Dirs |-> [s \in Slots |->
                    Entry(bytes[EntryAt(d, s) + 1], bytes[EntryAt(d, s)])]]]

\* loadFS: the memory is cleared and the image read from the disk.
LoadFS(d) ==
  ImageOf(readBytes([b \in 0 .. FsSize - 1 |-> 0], d, 0, FsOffset, FsSize))

\* The disk as it is installed: the programs, each byte its own, and the image.
Program == [b \in 0 .. FsOffset - 1 |-> b]
Installed == [b \in 0 .. FsOffset + FsSize - 1 |->
                IF b < FsOffset THEN Program[b] ELSE BytesOf(Image)[b - FsOffset]]

Init ==
  /\ power = FALSE
  /\ fs = Image
  /\ memory = [a \in UserMemory |-> -1]
  /\ disk = Installed
  /\ section = -1
  /\ saved = Image
  /\ work = 0
  /\ torn = "no"

\* kEntry: loadFS, loadUMain.  What the memory holds before is arbitrary.
PowerOn ==
  /\ ~power
  /\ power' = TRUE
  /\ fs' = LoadFS(disk)
  /\ memory' = Load([a \in UserMemory |-> -1], disk, UserOffset, Segments)
  /\ torn' = IF torn = "no" THEN "no" ELSE "past"
  /\ UNCHANGED <<disk, section, saved, work>>

\* The loss of power; what the memory holds afterwards does not matter.
PowerOff ==
  /\ power
  /\ power' = FALSE
  /\ section' = -1
  /\ saved' = LoadFS(disk)
  /\ torn' = IF section # -1 /\ torn = "no" THEN "now" ELSE torn
  /\ UNCHANGED <<fs, memory, disk, work>>

\* A program runs: nothing is being written back, as interrupts are off then.
InUser == power /\ section = -1
FileOperation ==
  /\ InUser /\ work < MaxWork /\ work' = work + 1
  /\ UNCHANGED <<power, memory, disk, section, saved, torn>>

\* What open, remove and write do to the image.
CreateFile(path) ==
  /\ FileOperation
  /\ findUpperDirPos(fs, path) # -1 /\ ~isFLExist(fs, path) /\ canMakeFL(fs, path)
  /\ fs' = makeFL(fs, path)

RemoveFile(path) ==
  /\ FileOperation
  /\ findUpperDirPos(fs, path) # -1 /\ isFLExist(fs, path)
  /\ fs' = rmFL(fs, path)

WriteFile(path, len) ==
  /\ FileOperation
  /\ findUpperDirPos(fs, path) # -1 /\ isFLExist(fs, path) /\ canWriteF(len, 0)
  /\ fs' = writeF(fs, findCurrentFLPos(fs, path), len, 0)

\* exit_aux calls writeBack before it schedules.
StartSectionOff == FirstSection(FsOffset) - 1
StartSection == FirstSection(FsOffset)
Exit ==
  /\ InUser
  /\ section' = StartSection
  /\ UNCHANGED <<power, fs, memory, disk, saved, work, torn>>

\* A turn of the loop of writeBytes.
WriteSect ==
  /\ power /\ section # -1
  /\ disk' = writeSect(disk, BytesOf(fs), section * SectSize - FsOffset, section)
  /\ \/ /\ section < LastSection(FsOffset, FsSize)
        /\ section' = section + 1
        /\ UNCHANGED saved
     \/ /\ section = LastSection(FsOffset, FsSize)
        /\ section' = -1
        /\ saved' = LoadFS(disk')
  /\ UNCHANGED <<power, fs, memory, work, torn>>

Next ==
  \/ PowerOn \/ PowerOff \/ Exit \/ WriteSect
  \/ \E path \in Paths : CreateFile(path) \/ RemoveFile(path) \/ \E len \in Lens : WriteFile(path, len)

Spec == Init /\ [][Next]_vars

-----------------------------------------------------------------------------
(* Properties. *)

\* Type correctness; the record is compared field by field, as a torn image
\* is one too.
TypeOK ==
  /\ power \in BOOLEAN
  /\ section \in {-1} \cup FirstSection(FsOffset) .. LastSection(FsOffset, FsSize)
  /\ torn \in {"no", "now", "past"}
  /\ \A image \in {fs, saved} :
       /\ image.inode_map \in [Inodes -> BOOLEAN]
       /\ image.type \in [Inodes -> {"UNUSED", "DIR", "FL"}]
       /\ image.size \in [Inodes -> Nat]
       /\ \A d \in Dirs : \A s \in Slots : image.dirdata[d][s].inode_no \in Inodes

\* What a writeBack of image new over image old leaves when it is cut off: the
\* first k sectors are new and the others old.
CutOff(old, new) ==
  {ImageOf([b \in 0 .. FsSize - 1 |-> IF b < k * SectSize THEN BytesOf(new)[b] ELSE BytesOf(old)[b]]) :
     k \in 0 .. FsSize \div SectSize}

Store == INSTANCE StableStore WITH
  stable <- saved, volatile <- fs, Mixed <- CutOff,
  status <- IF ~power THEN "off" ELSE IF section = -1 THEN "on" ELSE "saving"

\* The disk is a stable store for the image: what an exit has written is what
\* the next start loads, whatever was changed in memory since; and a power
\* loss within writeBack leaves a prefix of the new image and the rest of the
\* old one (loadFS, writeBack, readBytes, writeBytes).
KeepsItsPromise == Store!Spec

\* After a first power loss, at any sector of a writeBack, the root entries
\* that lie in the image's first sector, with inode_map and the root's header,
\* name inodes in use, each its own; a file elsewhere may be lost or dangling.
InFirstSector(s) == EntryAt(Root, s) + 1 < SectSize
RootNamesSurvive ==
  torn # "past" =>
    LET image == LoadFS(disk)
        named == {s \in InUse(image, Root) : InFirstSector(s) /\ s > 1}
    IN  \A s \in named :
          LET i == image.dirdata[Root][s].inode_no
          IN  /\ image.inode_map[i]
              /\ \A t \in named \ {s} : image.dirdata[Root][t].inode_no # i

\* On every image a start can load, torn ones and their descendants included,
\* the search loops reach every entry of a directory: filenum lies before the
\* entries and only grows, and sectors are written in ascending order.
SearchesSurvive ==
  LET image == LoadFS(disk)
  IN  \A d \in Dirs : Searched(image, d) = InUse(image, d)

\* The user program is in memory as its file has it, the parts without file
\* contents 0, although readBytes spills up to a sector on both sides of each
\* segment; and no writeBack touches the programs on the disk.
ProgramKept ==
  /\ \A b \in DOMAIN Program : disk[b] = Program[b]
  /\ power =>
       \A i \in Loaded : \A o \in 0 .. Segments[i].memsz - 1 :
         memory[Segments[i].paddr + o] =
           IF o < Segments[i].filesz THEN Program[UserOffset + Segments[i].off + o] ELSE 0
=============================================================================
