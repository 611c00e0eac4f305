----------------------------- MODULE FileSystem -----------------------------
(***************************************************************************)
(* The file system of kernel/kernel/fs.c: one record fs for the image at   *)
(* fs_addr, and one operator for each function.  A function that changes   *)
(* the image returns the new record.                                       *)
(*                                                                         *)
(* A path is the non-empty sequence of its components behind the leading   *)
(* `/', a directory's with its trailing `/': "/usr/test" is                *)
(* <<"usr/", "test">>, and "/" is <<"">>.  The bytes of a file are left    *)
(* out; its size and everything about names, inodes and directory entries  *)
(* is kept.  Not kept: the lengths of names, and inuse_inode_num, which    *)
(* nothing reads.  makeDir and makeRootDir are never called.               *)
(***************************************************************************)
EXTENDS Integers, SequencesExt

CONSTANTS
  NrInode,    \* NR_INODE
  NrEntry,    \* the number of entries of a directory, MAX_FILE_SZ_KB*1024/32
  MaxFile,    \* the size of a datablock, MAX_FILE_SZ_KB*1024
  IntMax,     \* the largest int
  SubDirs     \* the directories below "/" in the image, inodes 1, 2, ...

Inodes == 0 .. NrInode - 1
Slots  == 0 .. NrEntry - 1
Root   == 0
Dirs   == 0 .. Len(SubDirs)

ASSUME ImageAssumption ==
  /\ NrInode \in Nat /\ NrEntry \in Nat /\ MaxFile \in Nat \ {0}
  /\ IntMax \in Nat /\ MaxFile <= IntMax
  /\ SubDirs \in Seq(STRING)
  /\ Len(SubDirs) < NrInode /\ Len(SubDirs) + 2 <= NrEntry

(***************************************************************************)
(* Lengths and offsets are ints, filesz is a uint32_t.  A sum wraps, and   *)
(* an int compared with filesz, or stored in it, becomes unsigned.         *)
(***************************************************************************)
Ints == -IntMax - 1 .. IntMax
Unsigned(n) == n % (2 * IntMax + 2)
SignedAsUnsigned(n) == Unsigned(n)
Signed(n) == IF Unsigned(n) <= IntMax THEN Unsigned(n) ELSE Unsigned(n) - (2 * IntMax + 2)

\* An entry whose filename is "\0" is free.
Free == [filename |-> "", inode_no |-> 0]
Entry(name, index) == [filename |-> name, inode_no |-> index]

\* The first index in S, or -1.
First(S) == IF S = {} THEN -1 ELSE Min(S)

(***************************************************************************)
(* The image the system is installed with: directories, and no files.      *)
(***************************************************************************)
Image ==
  [inode_map |-> [i \in Inodes |-> i \in Dirs],
   type      |-> [i \in Inodes |-> IF i \in Dirs THEN "DIR" ELSE "UNUSED"],
   \* the union of filesz and filenum
   size      |-> [i \in Inodes |-> IF i = Root THEN 2 + Len(SubDirs)
                                   ELSE IF i \in Dirs THEN 2 ELSE 0],
   filename  |-> [i \in Inodes |-> IF i = Root THEN "/"
                                   ELSE IF i \in Dirs THEN SubDirs[i] ELSE ""],
   dirdata   |-> [d \in Dirs |-> [s \in Slots |->
                    IF s = 0 THEN Entry(".", d)
                    ELSE IF s = 1 THEN Entry("..", Root)
                    ELSE IF d = Root /\ s - 1 \in Dirs THEN Entry(SubDirs[s - 1], s - 1)
                    ELSE Free]]]

InUse(fs, d) == {s \in Slots : fs.dirdata[d][s].filename # ""}

(***************************************************************************)
(* The entries a search loop, for(i=0;cont<filenum;i++), reaches: it stops *)
(* after filenum entries in use.  With fewer of them it runs past the      *)
(* directory into the following inodes; the bytes there are taken to match *)
(* no name.                                                                *)
(***************************************************************************)
Searched(fs, d) ==
  {s \in InUse(fs, d) : Cardinality({t \in InUse(fs, d) : t < s}) < fs.size[d]}

\* The inode of the first entry of directory d with that name and type, or -1.
Lookup(fs, d, name, type) ==
  LET slot == First({s \in Searched(fs, d) :
                       /\ fs.dirdata[d][s].filename = name
                       /\ fs.type[fs.dirdata[d][s].inode_no] = type})
  IN  IF slot = -1 THEN -1 ELSE fs.dirdata[d][slot].inode_no

\* The loop over the leading components, the same in all three searches; -1 is
\* the failed assert(index != -1).
findUpperDirPos(fs, path) ==
  LET dir[i \in 0 .. Len(path) - 1] ==
        IF i = 0 THEN Root
        ELSE IF dir[i - 1] = -1 THEN -1
        ELSE Lookup(fs, dir[i - 1], path[i], "DIR")
  IN  dir[Len(path) - 1]

findCurrentFLPos(fs, path) == Lookup(fs, findUpperDirPos(fs, path), Last(path), "FL")
isFLExist(fs, path) == findCurrentFLPos(fs, path) # -1

getAvlInodeAny(fs) == First({i \in Inodes : fs.type[i] # "DIR"})
getAvlInode(fs) == First({i \in Inodes : ~fs.inode_map[i]})
getAvlDirdata(fs, d) == First(Slots \ InUse(fs, d))

\* The name a new file gets; a search for "/" looks for the name "" instead.
getLastLevelName(path) == IF Last(path) = "" THEN "/" ELSE Last(path)

(***************************************************************************)
(* makeFL(path, NULL), which needs a free inode and a free entry.  The     *)
(* size of the inode is not touched: it is that of the inode's last file.  *)
(***************************************************************************)
canMakeFL(fs, path) ==
  getAvlInode(fs) # -1 /\ getAvlDirdata(fs, findUpperDirPos(fs, path)) # -1

makeFLUncounted(fs, path) ==
  LET d == findUpperDirPos(fs, path)
      index == getAvlInode(fs)
      name == getLastLevelName(path)
  IN  [fs EXCEPT !.dirdata[d][getAvlDirdata(fs, d)] = Entry(name, index),
                 !.type[index] = "FL",
                 !.filename[index] = name,
                 !.inode_map[index] = TRUE]

makeFL(fs, path) ==
  LET d == findUpperDirPos(fs, path)
      index == getAvlInode(fs)
      name == getLastLevelName(path)
  IN  [fs EXCEPT !.dirdata[d][getAvlDirdata(fs, d)] = Entry(name, index),
                 !.size[d] = @ + 1,
                 !.type[index] = "FL",
                 !.filename[index] = name,
                 !.inode_map[index] = TRUE]

(***************************************************************************)
(* rmFL frees the first entry with the file's name, and the inode.         *)
(* filenum and the inode's type, size and name stay.  No entry need have   *)
(* the inode's name in an image that a power loss has torn.  For a file    *)
(* that does not exist the index is -1, and what lies before the image's   *)
(* first inode is neither the name of an entry nor does inode_map[-1]      *)
(* matter.                                                                 *)
(***************************************************************************)
rmFLKeepsEntry(fs, path) ==
  LET index == findCurrentFLPos(fs, path)
  IN  IF index = -1 THEN fs ELSE [fs EXCEPT !.inode_map[index] = FALSE]

rmFLCountsDown(fs, path) ==
  LET index == findCurrentFLPos(fs, path)
      d == findUpperDirPos(fs, path)
      named == {s \in Searched(fs, d) : fs.dirdata[d][s].filename = fs.filename[index]}
  IN  IF index = -1 \/ named = {} THEN fs
      ELSE [fs EXCEPT !.dirdata[d][Min(named)] = Free, !.size[d] = @ - 1,
                      !.inode_map[index] = FALSE]

rmFL(fs, path) ==
  LET index == findCurrentFLPos(fs, path)
      d == findUpperDirPos(fs, path)
      named == {s \in Searched(fs, d) : fs.dirdata[d][s].filename = fs.filename[index]}
      unmapped == [fs EXCEPT !.inode_map[index] = FALSE]
  IN  IF index = -1 THEN fs
      ELSE IF named = {} THEN unmapped
      ELSE [unmapped EXCEPT !.dirdata[d][Min(named)] = Free]

(***************************************************************************)
(* writeF starts with assert(len + offset < MAX_FILE_SZ_KB*1024), a sum of *)
(* two ints.  It stores at offset, offset + 1, ... while i < len, so that  *)
(* a negative len stores nothing; the size is the larger one, compared as  *)
(* unsigned numbers.                                                       *)
(***************************************************************************)
canWriteAtOffset(len, offset) == offset < MaxFile
canWriteF(len, offset) == Signed(len + offset) < MaxFile
storesInside(len, offset) == len > 0 => offset >= 0 /\ offset + len <= MaxFile
writeF(fs, index, len, offset) ==
  LET end == Unsigned(offset + len)
  IN  [fs EXCEPT !.size[index] = IF @ > end THEN @ ELSE end]

\* readF loads from offset on while i < len and i + offset, unsigned, is below
\* filesz: from a negative offset nothing, unless filesz is beyond the ints.
readsInside(fs, index, len, offset) ==
  len > 0 /\ Unsigned(offset) < fs.size[index] =>
    /\ offset >= 0
    /\ offset + len <= MaxFile \/ fs.size[index] <= MaxFile
=============================================================================
