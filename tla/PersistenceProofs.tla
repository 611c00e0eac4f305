------------------------- MODULE PersistenceProofs -------------------------
(***************************************************************************)
(* Theorems of Persistence.tla: the disk keeps the image that the last     *)
(* exit wrote; a power loss within a writeBack leaves an image on which    *)
(* every search still works; and the programs on the disk and in memory    *)
(* stay what they are.                                                     *)
(***************************************************************************)
EXTENDS Persistence, FileSystemProofs

-----------------------------------------------------------------------------
(* Division of an offset by the length of a sector or of an inode. *)
LEMMA Division ==
  ASSUME NEW L \in Nat \ {0}, NEW x \in Int
  PROVE  /\ x \div L \in Int /\ x % L \in 0 .. L - 1
         /\ x = (x \div L) * L + (x % L)
  OBVIOUS

(* Of the i-th piece of length L, offset o. *)
LEMMA DivisionOf ==
  ASSUME NEW L \in Nat \ {0}, NEW i \in Int, NEW o \in 0 .. L - 1
  PROVE  (i * L + o) \div L = i /\ (i * L + o) % L = o
  OBVIOUS

(* A piece ends before a later one starts. *)
LEMMA PiecesInOrder ==
  ASSUME NEW L \in Nat, NEW i \in Int, NEW j \in Int, i < j
  PROVE  i * L + L <= j * L
  <1>1. (j - i - 1) * L >= 0
    OBVIOUS
  <1> QED BY <1>1

(* The sizes of the image's structures. *)
LEMMA Sizes ==
  /\ NrInode \in Nat \ {0} /\ NrEntry \in Nat /\ InodeLen \in Nat \ {0}
  /\ InodeLen = 3 + 2 * NrEntry
  /\ ImageLen = NrInode + NrInode * InodeLen
  /\ ImageLen \in Nat /\ FsSize \in Nat /\ ImageLen <= FsSize /\ NrInode < ImageLen
  <1>1. NrInode \in Nat \ {0} /\ NrEntry \in Nat
    BY ImageAssumption, LenProperties
  <1>2. InodeLen \in Nat \ {0} /\ InodeLen = 3 + 2 * NrEntry
    BY <1>1 DEF InodeLen
  <1>3. ImageLen = NrInode + NrInode * InodeLen
    BY DEF ImageLen, InodeAt
  <1>4. NrInode * InodeLen \in Nat \ {0}
    BY <1>1, <1>2
  <1> QED BY <1>1, <1>2, <1>3, <1>4, LayoutAssumption

(* Every field of every inode has its own place in the image. *)
LEMMA Units ==
  ASSUME NEW i \in Inodes, NEW o \in 0 .. InodeLen - 1
  PROVE  /\ InodeAt(i) + o \in NrInode .. ImageLen - 1
         /\ InodeAt(i) + o \in 0 .. FsSize - 1
         /\ ((InodeAt(i) + o) - NrInode) \div InodeLen = i
         /\ ((InodeAt(i) + o) - NrInode) % InodeLen = o
  <1>1. i \in Nat /\ i < NrInode /\ i * InodeLen \in Nat
    BY Sizes DEF Inodes
  <1>2. i * InodeLen + InodeLen <= NrInode * InodeLen
    BY <1>1, Sizes, PiecesInOrder
  <1>3. InodeAt(i) = NrInode + i * InodeLen
    BY DEF InodeAt
  <1>4. (InodeAt(i) + o) - NrInode = i * InodeLen + o
    BY <1>1, <1>3, Sizes
  <1>5. (i * InodeLen + o) \div InodeLen = i /\ (i * InodeLen + o) % InodeLen = o
    BY <1>1, Sizes, DivisionOf
  <1>6. NrInode * InodeLen \in Nat
    BY Sizes
  <1>7. InodeAt(i) + o \in NrInode .. ImageLen - 1
    BY <1>1, <1>2, <1>3, <1>6, Sizes
  <1> QED BY <1>4, <1>5, <1>7, Sizes

(* And every place of the image behind inode_map is that of a field. *)
LEMMA UnitOf ==
  ASSUME NEW b \in NrInode .. ImageLen - 1
  PROVE  \E i \in Inodes : \E o \in 0 .. InodeLen - 1 :
           /\ (b - NrInode) \div InodeLen = i
           /\ (b - NrInode) % InodeLen = o
           /\ b = InodeAt(i) + o
  <1> DEFINE i == (b - NrInode) \div InodeLen
             o == (b - NrInode) % InodeLen
  <1>1. b - NrInode \in Int /\ b \in Int /\ b >= NrInode /\ b < ImageLen
    BY Sizes
  <1>2. i \in Int /\ o \in 0 .. InodeLen - 1 /\ b - NrInode = i * InodeLen + o
    BY <1>1, Sizes, Division
  <1>3. i * InodeLen \in Int /\ NrInode * InodeLen \in Int
    BY <1>2, Sizes
  <1>4. ASSUME i < 0 PROVE FALSE
    <2>1. i * InodeLen + InodeLen <= 0 * InodeLen
      BY <1>2, <1>4, Sizes, PiecesInOrder
    <2> HIDE DEF i, o
    <2> QED BY <1>1, <1>2, <1>3, <2>1, Sizes
  <1>5. ASSUME NrInode <= i PROVE FALSE
    <2>1. NrInode * InodeLen <= i * InodeLen
      <3>1. CASE NrInode = i
        BY <1>3, <3>1
      <3>2. CASE NrInode < i
        BY <1>2, <1>3, <3>2, Sizes, PiecesInOrder
      <3> QED BY <1>2, <1>5, <3>1, <3>2, Sizes
    <2> HIDE DEF i, o
    <2> QED BY <1>1, <1>2, <1>3, <2>1, Sizes
  <1> HIDE DEF i, o
  <1>6. i \in Inodes
    BY <1>2, <1>4, <1>5, Sizes DEF Inodes
  <1>7. b = InodeAt(i) + o
    BY <1>1, <1>2, <1>3, Sizes DEF InodeAt
  <1> QED BY <1>2, <1>6, <1>7 DEF i, o

(* The two fields of an entry among those of its directory. *)
LEMMA EntryUnits ==
  ASSUME NEW d \in Dirs, NEW s \in Slots
  PROVE  /\ 3 + 2 * s \in 0 .. InodeLen - 1 /\ 4 + 2 * s \in 0 .. InodeLen - 1
         /\ EntryAt(d, s) = InodeAt(d) + (3 + 2 * s)
         /\ EntryAt(d, s) + 1 = InodeAt(d) + (4 + 2 * s)
         /\ ((3 + 2 * s) - 3) \div 2 = s /\ (3 + 2 * s) % 2 = 1
         /\ ((4 + 2 * s) - 3) \div 2 = s /\ (4 + 2 * s) % 2 = 0
  <1>1. s \in Nat /\ s < NrEntry /\ d \in Inodes
    BY Sizes, Indices DEF Slots
  <1>2. InodeAt(d) \in Int
    BY <1>1, Sizes DEF InodeAt, Inodes
  <1> QED BY <1>1, <1>2, Sizes DEF EntryAt

(* The fields of a directory behind its header are entries. *)
LEMMA EntryOf ==
  ASSUME NEW o \in 0 .. InodeLen - 1, o > 2
  PROVE  \E s \in Slots : /\ (o - 3) \div 2 = s
                          /\ \/ o = 3 + 2 * s /\ o % 2 = 1
                             \/ o = 4 + 2 * s /\ o % 2 # 1
  <1> DEFINE s == (o - 3) \div 2
  <1>1. s \in Nat /\ (o = 3 + 2 * s \/ o = 4 + 2 * s)
    BY Sizes
  <1>2. s < NrEntry
    BY <1>1, Sizes
  <1>3. s \in Slots
    BY <1>1, <1>2, Sizes DEF Slots
  <1>4. \/ o = 3 + 2 * s /\ o % 2 = 1
        \/ o = 4 + 2 * s /\ o % 2 # 1
    BY <1>1, Sizes
  <1> QED BY <1>3, <1>4

-----------------------------------------------------------------------------
(* The fields of the header, those of an entry, and those of a file. *)
LEMMA FieldOfHeader ==
  ASSUME NEW f, NEW i
  PROVE  Field(f, i, 0) = f.type[i] /\ Field(f, i, 1) = f.size[i] /\ Field(f, i, 2) = f.filename[i]
  BY DEF Field

LEMMA FieldOfEntry ==
  ASSUME NEW f, NEW i \in Dirs, NEW o, o > 2, o # 0, o # 1, o # 2, NEW s, (o - 3) \div 2 = s
  PROVE  /\ o % 2 = 1 => Field(f, i, o) = f.dirdata[i][s].inode_no
         /\ ~(o % 2 = 1) => Field(f, i, o) = f.dirdata[i][s].filename
  <1> DEFINE e == IF o % 2 = 1 THEN f.dirdata[i][(o - 3) \div 2].inode_no
                  ELSE f.dirdata[i][(o - 3) \div 2].filename
  <1>1. Field(f, i, o) = e
    BY Zenon DEF Field
  <1>2. /\ o % 2 = 1 => e = f.dirdata[i][(o - 3) \div 2].inode_no
        /\ ~(o % 2 = 1) => e = f.dirdata[i][(o - 3) \div 2].filename
    OBVIOUS
  <1> HIDE DEF e
  <1> QED BY <1>1, <1>2, Zenon

LEMMA FieldOfFile ==
  ASSUME NEW f, NEW i, i \notin Dirs, NEW o, o > 2, o # 0, o # 1, o # 2
  PROVE  Field(f, i, o) = 0
  BY Zenon DEF Field

(* Every field is written at its place. *)
FieldAt(f, i, o) ==
  /\ InodeAt(i) + o \in 0 .. FsSize - 1
  /\ BytesOf(f)[InodeAt(i) + o] = Field(f, i, o)

LEMMA BytesOfField ==
  ASSUME NEW f, NEW i \in Inodes, NEW o \in 0 .. InodeLen - 1
  PROVE  FieldAt(f, i, o)
  <1> DEFINE b == InodeAt(i) + o
  <1>1. /\ b \in NrInode .. ImageLen - 1 /\ b \in 0 .. FsSize - 1
        /\ (b - NrInode) \div InodeLen = i
        /\ (b - NrInode) % InodeLen = o
    BY Units
  <1> HIDE DEF b
  <1>2. ~(b < NrInode) /\ ~(b >= ImageLen)
    BY <1>1, Sizes
  <1>3. BytesOf(f)[b] = Field(f, (b - NrInode) \div InodeLen, (b - NrInode) % InodeLen)
    BY <1>1, <1>2 DEF BytesOf
  <1>4. BytesOf(f)[b] = Field(f, i, o)
    BY <1>1, <1>3
  <1> QED BY <1>1, <1>4 DEF b, FieldAt

(* BytesOf puts the fields where ImageOf looks for them. *)
LEMMA BytesOfInodes ==
  ASSUME NEW f, NEW i \in Inodes
  PROVE  /\ i \in 0 .. FsSize - 1
         /\ InodeAt(i) \in 0 .. FsSize - 1 /\ InodeAt(i) + 1 \in 0 .. FsSize - 1
         /\ InodeAt(i) + 2 \in 0 .. FsSize - 1
         /\ BytesOf(f)[i] = f.inode_map[i]
         /\ BytesOf(f)[InodeAt(i)] = f.type[i]
         /\ BytesOf(f)[InodeAt(i) + 1] = f.size[i]
         /\ BytesOf(f)[InodeAt(i) + 2] = f.filename[i]
  <1>1. /\ i \in Int /\ i < NrInode /\ i \in 0 .. FsSize - 1
        /\ 0 \in 0 .. InodeLen - 1 /\ 1 \in 0 .. InodeLen - 1 /\ 2 \in 0 .. InodeLen - 1
    BY Sizes DEF Inodes
  <1>2. InodeAt(i) \in Int
    BY <1>1, Sizes DEF InodeAt
  <1>3. ASSUME NEW o \in 0 .. InodeLen - 1
        PROVE  /\ InodeAt(i) + o \in 0 .. FsSize - 1
               /\ BytesOf(f)[InodeAt(i) + o] = Field(f, i, o)
    <2>1. FieldAt(f, i, o)
      BY BytesOfField
    <2> QED BY <2>1 DEF FieldAt
  <1>4. InodeAt(i) + 0 = InodeAt(i)
    BY <1>2
  <1>5. Field(f, i, 0) = f.type[i] /\ Field(f, i, 1) = f.size[i] /\ Field(f, i, 2) = f.filename[i]
    BY FieldOfHeader
  <1>6. BytesOf(f)[i] = f.inode_map[i]
    BY <1>1 DEF BytesOf
  <1>7. InodeAt(i) \in 0 .. FsSize - 1 /\ BytesOf(f)[InodeAt(i)] = f.type[i]
    BY <1>1, <1>3, <1>4, <1>5
  <1>8. InodeAt(i) + 1 \in 0 .. FsSize - 1 /\ BytesOf(f)[InodeAt(i) + 1] = f.size[i]
    BY <1>1, <1>3, <1>5
  <1>9. InodeAt(i) + 2 \in 0 .. FsSize - 1 /\ BytesOf(f)[InodeAt(i) + 2] = f.filename[i]
    BY <1>1, <1>3, <1>5
  <1> QED BY <1>1, <1>6, <1>7, <1>8, <1>9

(* The entries likewise. *)
LEMMA BytesOfEntries ==
  ASSUME NEW f, NEW d \in Dirs, NEW s \in Slots
  PROVE  /\ EntryAt(d, s) \in 0 .. FsSize - 1 /\ EntryAt(d, s) + 1 \in 0 .. FsSize - 1
         /\ BytesOf(f)[EntryAt(d, s)] = f.dirdata[d][s].inode_no
         /\ BytesOf(f)[EntryAt(d, s) + 1] = f.dirdata[d][s].filename
  <1>1. d \in Inodes /\ s \in Nat
    BY Indices
  <1>2. ASSUME NEW o \in 0 .. InodeLen - 1
        PROVE  /\ InodeAt(d) + o \in 0 .. FsSize - 1
               /\ BytesOf(f)[InodeAt(d) + o] = Field(f, d, o)
    <2>1. FieldAt(f, d, o)
      BY <1>1, BytesOfField
    <2> QED BY <2>1 DEF FieldAt
  <1>3. /\ Field(f, d, 3 + 2 * s) = f.dirdata[d][s].inode_no
        /\ Field(f, d, 4 + 2 * s) = f.dirdata[d][s].filename
    <2>1. /\ 3 + 2 * s > 2 /\ 3 + 2 * s # 0 /\ 3 + 2 * s # 1 /\ 3 + 2 * s # 2
          /\ 4 + 2 * s > 2 /\ 4 + 2 * s # 0 /\ 4 + 2 * s # 1 /\ 4 + 2 * s # 2
      BY <1>1
    <2>2. /\ ((3 + 2 * s) - 3) \div 2 = s /\ (3 + 2 * s) % 2 = 1
          /\ ((4 + 2 * s) - 3) \div 2 = s /\ (4 + 2 * s) % 2 = 0
      BY EntryUnits
    <2>3. (3 + 2 * s) % 2 = 1 /\ ~((4 + 2 * s) % 2 = 1)
      BY <2>2
    <2> QED BY <2>1, <2>2, <2>3, FieldOfEntry
  <1> QED BY <1>2, <1>3, EntryUnits

(* A copy of an image, field by field. *)
LEMMA SameImage ==
  ASSUME NEW f \in Images, NEW g \in Images,
         f.inode_map = g.inode_map, f.type = g.type, f.size = g.size,
         f.filename = g.filename, f.dirdata = g.dirdata
  PROVE  f = g
  BY DEF Images

-----------------------------------------------------------------------------
(***************************************************************************)
(* What the disk holds while image new is written over image old: the      *)
(* bytes of new up to place c and those of old from there on.  Read as an  *)
(* image, it has each field from one of the two.                           *)
(***************************************************************************)
Mixture(old, new, c) ==
  [b \in 0 .. FsSize - 1 |-> IF b < c THEN BytesOf(new)[b] ELSE BytesOf(old)[b]]

IsMixture(g, old, new, c) ==
  /\ g \in Images
  /\ \A i \in Inodes :
       /\ g.inode_map[i] = IF i < c THEN new.inode_map[i] ELSE old.inode_map[i]
       /\ g.type[i] = IF InodeAt(i) < c THEN new.type[i] ELSE old.type[i]
       /\ g.size[i] = IF InodeAt(i) + 1 < c THEN new.size[i] ELSE old.size[i]
       /\ g.filename[i] = IF InodeAt(i) + 2 < c THEN new.filename[i] ELSE old.filename[i]
  /\ \A d \in Dirs : \A s \in Slots :
       /\ g.dirdata[d][s].inode_no =
            IF EntryAt(d, s) < c THEN new.dirdata[d][s].inode_no
            ELSE old.dirdata[d][s].inode_no
       /\ g.dirdata[d][s].filename =
            IF EntryAt(d, s) + 1 < c THEN new.dirdata[d][s].filename
            ELSE old.dirdata[d][s].filename

LEMMA MixtureFields ==
  ASSUME NEW old \in Images, NEW new \in Images, NEW c \in Int
  PROVE  IsMixture(ImageOf(Mixture(old, new, c)), old, new, c)
  <1> DEFINE m == Mixture(old, new, c)
             im == [i \in Inodes |-> m[i]]
             ty == [i \in Inodes |-> m[InodeAt(i)]]
             sz == [i \in Inodes |-> m[InodeAt(i) + 1]]
             fn == [i \in Inodes |-> m[InodeAt(i) + 2]]
             dd == [d \in Dirs |-> [s \in Slots |->
                      Entry(m[EntryAt(d, s) + 1], m[EntryAt(d, s)])]]
             g == ImageOf(m)
  <1>1. \A b \in 0 .. FsSize - 1 : m[b] = IF b < c THEN BytesOf(new)[b] ELSE BytesOf(old)[b]
    BY DEF Mixture
  <1>2. g = [inode_map |-> im, type |-> ty, size |-> sz, filename |-> fn, dirdata |-> dd]
    BY DEF ImageOf
  <1> HIDE DEF m
  <1>3. ASSUME NEW i \in Inodes
        PROVE  /\ m[i] = IF i < c THEN new.inode_map[i] ELSE old.inode_map[i]
               /\ m[InodeAt(i)] = IF InodeAt(i) < c THEN new.type[i] ELSE old.type[i]
               /\ m[InodeAt(i) + 1] = IF InodeAt(i) + 1 < c THEN new.size[i] ELSE old.size[i]
               /\ m[InodeAt(i) + 2] =
                    IF InodeAt(i) + 2 < c THEN new.filename[i] ELSE old.filename[i]
    BY <1>1, BytesOfInodes
  <1>4. ASSUME NEW d \in Dirs, NEW s \in Slots
        PROVE  /\ m[EntryAt(d, s)] =
                    IF EntryAt(d, s) < c THEN new.dirdata[d][s].inode_no
                    ELSE old.dirdata[d][s].inode_no
               /\ m[EntryAt(d, s) + 1] =
                    IF EntryAt(d, s) + 1 < c THEN new.dirdata[d][s].filename
                    ELSE old.dirdata[d][s].filename
    BY <1>1, BytesOfEntries
  <1>5. /\ im \in [Inodes -> BOOLEAN]
        /\ \A i \in Inodes :
             im[i] = IF i < c THEN new.inode_map[i] ELSE old.inode_map[i]
    <2>1. \A i \in Inodes : im[i] = m[i]
      OBVIOUS
    <2>2. \A i \in Inodes : new.inode_map[i] \in BOOLEAN /\ old.inode_map[i] \in BOOLEAN
      BY DEF Images
    <2>3. \A i \in Inodes : m[i] \in BOOLEAN
      BY <1>3, <2>2
    <2> QED BY <1>3, <2>1, <2>3
  <1>6. /\ ty \in [Inodes -> Kinds]
        /\ \A i \in Inodes : ty[i] = IF InodeAt(i) < c THEN new.type[i] ELSE old.type[i]
    BY <1>3 DEF Images
  <1>7. /\ sz \in [Inodes -> Nat]
        /\ \A i \in Inodes : sz[i] = IF InodeAt(i) + 1 < c THEN new.size[i] ELSE old.size[i]
    BY <1>3 DEF Images
  <1>8. /\ fn \in [Inodes -> FileNames]
        /\ \A i \in Inodes :
             fn[i] = IF InodeAt(i) + 2 < c THEN new.filename[i] ELSE old.filename[i]
    BY <1>3 DEF Images
  <1>9. /\ dd \in [Dirs -> [Slots -> [filename : FileNames, inode_no : Inodes]]]
        /\ \A d \in Dirs : \A s \in Slots :
             /\ dd[d][s].inode_no = m[EntryAt(d, s)]
             /\ dd[d][s].filename = m[EntryAt(d, s) + 1]
    <2>1. ASSUME NEW d \in Dirs, NEW s \in Slots
          PROVE  m[EntryAt(d, s)] \in Inodes /\ m[EntryAt(d, s) + 1] \in FileNames
      <3>1. /\ new.dirdata[d][s] \in [filename : FileNames, inode_no : Inodes]
            /\ old.dirdata[d][s] \in [filename : FileNames, inode_no : Inodes]
        BY DEF Images
      <3> QED BY <1>4, <3>1
    <2>2. \A d \in Dirs : \A s \in Slots :
            dd[d][s] = Entry(m[EntryAt(d, s) + 1], m[EntryAt(d, s)])
      OBVIOUS
    <2>3. \A d \in Dirs : \A s \in Slots :
            /\ dd[d][s] \in [filename : FileNames, inode_no : Inodes]
            /\ dd[d][s].inode_no = m[EntryAt(d, s)]
            /\ dd[d][s].filename = m[EntryAt(d, s) + 1]
      BY <2>1, <2>2 DEF Entry
    <2> QED BY <2>3
  <1> HIDE DEF im, ty, sz, fn, dd, g
  <1>10. g \in Images
    BY <1>2, <1>5, <1>6, <1>7, <1>8, <1>9 DEF Images
  <1>11. /\ g.inode_map = im /\ g.type = ty /\ g.size = sz /\ g.filename = fn /\ g.dirdata = dd
    BY <1>2
  <1>12. IsMixture(g, old, new, c)
    BY <1>4, <1>5, <1>6, <1>7, <1>8, <1>9, <1>10, <1>11 DEF IsMixture
  <1> QED BY <1>12 DEF g, m

(* Two mixtures with the same fields are the same image. *)
LEMMA SameMixture ==
  ASSUME NEW f, NEW g, NEW old, NEW new, NEW c,
         IsMixture(f, old, new, c), IsMixture(g, old, new, c)
  PROVE  f = g
  <1>1. f \in Images /\ g \in Images
    BY DEF IsMixture
  <1>2. /\ f.inode_map \in [Inodes -> BOOLEAN] /\ g.inode_map \in [Inodes -> BOOLEAN]
        /\ f.type \in [Inodes -> Kinds] /\ g.type \in [Inodes -> Kinds]
        /\ f.size \in [Inodes -> Nat] /\ g.size \in [Inodes -> Nat]
        /\ f.filename \in [Inodes -> FileNames] /\ g.filename \in [Inodes -> FileNames]
        /\ f.dirdata \in [Dirs -> [Slots -> [filename : FileNames, inode_no : Inodes]]]
        /\ g.dirdata \in [Dirs -> [Slots -> [filename : FileNames, inode_no : Inodes]]]
    BY <1>1 DEF Images
  <1>3. \A i \in Inodes : /\ f.inode_map[i] = g.inode_map[i] /\ f.type[i] = g.type[i]
                          /\ f.size[i] = g.size[i] /\ f.filename[i] = g.filename[i]
    BY DEF IsMixture
  <1>4. \A d \in Dirs : \A s \in Slots : f.dirdata[d][s] = g.dirdata[d][s]
    <2> TAKE d \in Dirs
    <2> TAKE s \in Slots
    <2>1. /\ f.dirdata[d][s] \in [filename : FileNames, inode_no : Inodes]
          /\ g.dirdata[d][s] \in [filename : FileNames, inode_no : Inodes]
      BY <1>2
    <2>2. /\ f.dirdata[d][s].filename = g.dirdata[d][s].filename
          /\ f.dirdata[d][s].inode_no = g.dirdata[d][s].inode_no
      BY DEF IsMixture
    <2> QED BY <2>1, <2>2
  <1>5. \A d \in Dirs : f.dirdata[d] = g.dirdata[d]
    BY <1>2, <1>4
  <1>6. f.inode_map = g.inode_map
    BY <1>2, <1>3
  <1>7. f.type = g.type /\ f.size = g.size /\ f.filename = g.filename /\ f.dirdata = g.dirdata
    BY <1>2, <1>3, <1>5
  <1> QED BY <1>1, <1>6, <1>7, SameImage

(* An image that was written as a whole is read back as it was. *)
LEMMA WholeImage ==
  ASSUME NEW old \in Images, NEW new \in Images, NEW c \in Int
  PROVE  /\ c <= 0 => ImageOf(Mixture(old, new, c)) = old
         /\ c >= FsSize => ImageOf(Mixture(old, new, c)) = new
  <1>1. IsMixture(ImageOf(Mixture(old, new, c)), old, new, c)
    BY MixtureFields
  <1>2. \A i \in Inodes : /\ i \in 0 .. FsSize - 1 /\ InodeAt(i) \in 0 .. FsSize - 1
                          /\ InodeAt(i) + 1 \in 0 .. FsSize - 1
                          /\ InodeAt(i) + 2 \in 0 .. FsSize - 1
    BY BytesOfInodes
  <1>3. \A d \in Dirs : \A s \in Slots :
          EntryAt(d, s) \in 0 .. FsSize - 1 /\ EntryAt(d, s) + 1 \in 0 .. FsSize - 1
    BY BytesOfEntries
  <1>4. \A b \in 0 .. FsSize - 1 : (c <= 0 => ~(b < c)) /\ (c >= FsSize => b < c)
    BY Sizes
  <1>5. c <= 0 => IsMixture(old, old, new, c)
    BY <1>2, <1>3, <1>4 DEF IsMixture
  <1>6. c >= FsSize => IsMixture(new, old, new, c)
    BY <1>2, <1>3, <1>4 DEF IsMixture
  <1> QED BY <1>1, <1>5, <1>6, SameMixture

(* The bytes of an image in use are those it was read from. *)
LEMMA MixtureBytes ==
  ASSUME NEW old \in Images, NEW new \in Images, NEW c \in Int
  PROVE  BytesOf(ImageOf(Mixture(old, new, c))) = Mixture(old, new, c)
  <1> DEFINE g == ImageOf(Mixture(old, new, c))
  <1>1. IsMixture(g, old, new, c)
    BY MixtureFields
  <1> HIDE DEF g
  <1>2. ASSUME NEW b \in 0 .. FsSize - 1
        PROVE  BytesOf(g)[b] = IF b < c THEN BytesOf(new)[b] ELSE BytesOf(old)[b]
    <2>1. CASE b < NrInode
      <3>1. b \in Inodes
        BY <1>2, <2>1, Sizes DEF Inodes
      <3>2. /\ BytesOf(g)[b] = g.inode_map[b] /\ BytesOf(new)[b] = new.inode_map[b]
            /\ BytesOf(old)[b] = old.inode_map[b]
        BY <3>1, BytesOfInodes
      <3>3. g.inode_map[b] = IF b < c THEN new.inode_map[b] ELSE old.inode_map[b]
        BY <1>1, <3>1 DEF IsMixture
      <3> QED BY <3>2, <3>3
    <2>2. CASE b >= ImageLen
      <3>1. ~(b < NrInode)
        BY <1>2, <2>2, Sizes
      <3>2. \A f : BytesOf(f)[b] = 0
        BY <1>2, <2>2, <3>1 DEF BytesOf
      <3> QED BY <3>2
    <2>3. CASE b \in NrInode .. ImageLen - 1
      <3>1. PICK i \in Inodes : \E o \in 0 .. InodeLen - 1 : b = InodeAt(i) + o
        BY <2>3, UnitOf
      <3>2. PICK o \in 0 .. InodeLen - 1 : b = InodeAt(i) + o
        BY <3>1
      <3>3. \A f : BytesOf(f)[b] = Field(f, i, o)
        BY <3>2, BytesOfField DEF FieldAt
      <3>4. InodeAt(i) \in Int
        BY Sizes DEF InodeAt, Inodes
      <3>5. Field(g, i, o) = IF b < c THEN Field(new, i, o) ELSE Field(old, i, o)
        <4>1. CASE o = 0
          <5>1. b = InodeAt(i)
            BY <3>2, <3>4, <4>1
          <5> QED BY <1>1, <4>1, <5>1, FieldOfHeader DEF IsMixture
        <4>2. CASE o = 1
          BY <1>1, <3>2, <4>2, FieldOfHeader DEF IsMixture
        <4>3. CASE o = 2
          BY <1>1, <3>2, <4>3, FieldOfHeader DEF IsMixture
        <4>4. CASE o > 2 /\ i \notin Dirs
          <5>1. o # 0 /\ o # 1 /\ o # 2
            BY <4>4
          <5> QED BY <4>4, <5>1, FieldOfFile
        <4>5. CASE o > 2 /\ i \in Dirs
          <5>1. o # 0 /\ o # 1 /\ o # 2
            BY <4>5
          <5>2. PICK s \in Slots : /\ (o - 3) \div 2 = s
                                   /\ \/ o = 3 + 2 * s /\ o % 2 = 1
                                      \/ o = 4 + 2 * s /\ o % 2 # 1
            BY <4>5, EntryOf
          <5>3. CASE o = 3 + 2 * s /\ o % 2 = 1
            <6>1. b = EntryAt(i, s)
              BY <3>2, <4>5, <5>3, EntryUnits
            <6>2. \A f : Field(f, i, o) = f.dirdata[i][s].inode_no
              BY <4>5, <5>1, <5>2, <5>3, FieldOfEntry
            <6> QED BY <1>1, <4>5, <6>1, <6>2 DEF IsMixture
          <5>4. CASE o = 4 + 2 * s /\ o % 2 # 1
            <6>1. b = EntryAt(i, s) + 1
              BY <3>2, <4>5, <5>4, EntryUnits
            <6>2. \A f : Field(f, i, o) = f.dirdata[i][s].filename
              BY <4>5, <5>1, <5>2, <5>4, FieldOfEntry
            <6> QED BY <1>1, <4>5, <6>1, <6>2 DEF IsMixture
          <5> QED BY <5>2, <5>3, <5>4
        <4> QED BY <4>1, <4>2, <4>3, <4>4, <4>5, Sizes
      <3> QED BY <3>3, <3>5
    <2> QED BY <1>2, <2>1, <2>2, <2>3, Sizes
  <1>3. BytesOf(g) = [b \in 0 .. FsSize - 1 |-> BytesOf(g)[b]]
    BY DEF BytesOf
  <1>4. [b \in 0 .. FsSize - 1 |-> BytesOf(g)[b]] = Mixture(old, new, c)
    BY <1>2 DEF Mixture
  <1> QED BY <1>3, <1>4 DEF g

-----------------------------------------------------------------------------
(***************************************************************************)
(* The filenum of each directory in memory counts the entries in use there *)
(* and those still on the disk: rmFL does not decrement it, and makeFL     *)
(* increments it for every entry.                                          *)
(***************************************************************************)
Covers(new, old) ==
  \A d \in Dirs : Cardinality(InUse(new, d) \cup InUse(old, d)) <= new.size[d]

(* filenum lies before the entries, so that a mixture of two images counts *)
(* its entries as each of the two does.                                    *)
LEMMA MixtureWellFormed ==
  ASSUME NEW old, WellFormed(old), NEW new, WellFormed(new), Covers(new, old),
         NEW c \in Int, NEW g, IsMixture(g, old, new, c)
  PROVE  WellFormed(g)
  <1>1. g \in Images
    BY DEF IsMixture
  <1>2. \A i \in Inodes : g.type[i] = "DIR" <=> i \in Dirs
    BY DEF IsMixture, WellFormed
  <1>3. \A d \in Dirs : g.inode_map[d]
    BY Indices DEF IsMixture, WellFormed
  <1>4. ASSUME NEW d \in Dirs
        PROVE  Cardinality(InUse(g, d)) <= g.size[d]
    <2>1. d \in Inodes /\ InodeAt(d) \in Int
      BY Indices, Sizes DEF InodeAt
    <2>2. \A s \in Slots : EntryAt(d, s) + 1 > InodeAt(d) + 1 /\ EntryAt(d, s) \in Int
      BY <2>1, Indices DEF EntryAt
    <2>3. CASE InodeAt(d) + 1 < c
      <3>1. InUse(g, d) \subseteq InUse(new, d) \cup InUse(old, d)
        BY DEF InUse, IsMixture
      <3>2. IsFiniteSet(InUse(new, d) \cup InUse(old, d))
        BY InUseFinite, FS_Union
      <3>3. Cardinality(InUse(g, d)) <= Cardinality(InUse(new, d) \cup InUse(old, d))
        BY <3>1, <3>2, FS_Subset
      <3>4. g.size[d] = new.size[d] /\ new.size[d] \in Nat
        BY <2>1, <2>3 DEF IsMixture, WellFormed, Images
      <3>5. Cardinality(InUse(new, d) \cup InUse(old, d)) <= new.size[d]
        BY DEF Covers
      <3>6. /\ Cardinality(InUse(new, d) \cup InUse(old, d)) \in Nat
            /\ Cardinality(InUse(g, d)) \in Nat
        BY <3>2, FS_CardinalityType, InUseFinite
      <3> QED BY <3>3, <3>4, <3>5, <3>6
    <2>4. CASE ~(InodeAt(d) + 1 < c)
      <3>1. \A s \in Slots : ~(EntryAt(d, s) + 1 < c)
        BY <2>1, <2>2, <2>4
      <3>2. \A s \in Slots : g.dirdata[d][s].filename = old.dirdata[d][s].filename
        BY <3>1 DEF IsMixture
      <3>3. InUse(g, d) = InUse(old, d)
        BY <3>2 DEF InUse
      <3>4. g.size[d] = old.size[d]
        BY <2>1, <2>4 DEF IsMixture
      <3> QED BY <3>3, <3>4 DEF WellFormed
    <2> QED BY <2>3, <2>4
  <1> QED BY <1>1, <1>2, <1>3, <1>4 DEF WellFormed

(* An image covers itself. *)
LEMMA CoversItself ==
  ASSUME NEW f, WellFormed(f)
  PROVE  Covers(f, f)
  <1>1. \A d \in Dirs : InUse(f, d) \cup InUse(f, d) = InUse(f, d)
    OBVIOUS
  <1> QED BY <1>1 DEF Covers, WellFormed

(* makeFL, rmFL and writeF keep this. *)
LEMMA AddedCovers ==
  ASSUME NEW f, WellFormed(f), NEW old, Covers(f, old),
         NEW g, NEW d, NEW x, NEW n, NEW name, Added(f, g, d, x, n, name)
  PROVE  Covers(g, old)
  <1> SUFFICES ASSUME NEW e \in Dirs
               PROVE  Cardinality(InUse(g, e) \cup InUse(old, e)) <= g.size[e]
    BY DEF Covers
  <1> DEFINE U == InUse(f, e) \cup InUse(old, e)
  <1>1. /\ IsFiniteSet(U) /\ Cardinality(U) \in Nat /\ Cardinality(U) <= f.size[e]
        /\ f.size[e] \in Nat
    <2>1. IsFiniteSet(U)
      BY InUseFinite, FS_Union
    <2>2. Cardinality(U) <= f.size[e]
      BY DEF Covers
    <2>3. f.size[e] \in Nat
      BY Indices DEF WellFormed, Images
    <2> QED BY <2>1, <2>2, <2>3, FS_CardinalityType
  <1>2. InUse(g, e) = IF e = d THEN InUse(f, e) \cup {x} ELSE InUse(f, e)
    BY AddedInUse
  <1>3. g.size[e] = IF e = d THEN f.size[e] + 1 ELSE f.size[e]
    BY Indices DEF Added
  <1>4. CASE e = d
    <2>1. InUse(g, e) \cup InUse(old, e) = U \cup {x}
      BY <1>2, <1>4
    <2> HIDE DEF U
    <2>2. /\ Cardinality(U \cup {x}) = IF x \in U THEN Cardinality(U) ELSE Cardinality(U) + 1
          /\ IsFiniteSet(U \cup {x})
      BY <1>1, FS_AddElement
    <2> QED BY <1>1, <1>3, <1>4, <2>1, <2>2, SMTT(60)
  <1>5. CASE e # d
    BY <1>1, <1>2, <1>3, <1>5
  <1> QED BY <1>4, <1>5

LEMMA DroppedCovers ==
  ASSUME NEW f, WellFormed(f), NEW old, Covers(f, old),
         NEW g, NEW d, NEW S, NEW n, Dropped(f, g, d, S, n)
  PROVE  Covers(g, old)
  <1> SUFFICES ASSUME NEW e \in Dirs
               PROVE  Cardinality(InUse(g, e) \cup InUse(old, e)) <= g.size[e]
    BY DEF Covers
  <1> DEFINE U == InUse(f, e) \cup InUse(old, e)
             V == InUse(g, e) \cup InUse(old, e)
  <1>1. InUse(g, e) \subseteq InUse(f, e)
    BY DroppedInUse
  <1>2. V \subseteq U
    BY <1>1
  <1>3. IsFiniteSet(U) /\ IsFiniteSet(V)
    BY InUseFinite, FS_Union
  <1>4. Cardinality(U) <= f.size[e]
    BY DEF Covers
  <1>5. f.size[e] \in Nat /\ g.size[e] = f.size[e]
    BY Indices DEF WellFormed, Images, Dropped
  <1> HIDE DEF U, V
  <1>6. Cardinality(V) <= Cardinality(U) /\ Cardinality(V) \in Nat /\ Cardinality(U) \in Nat
    BY <1>2, <1>3, FS_Subset, FS_CardinalityType
  <1>7. Cardinality(V) <= g.size[e]
    BY <1>4, <1>5, <1>6
  <1> QED BY <1>7 DEF V

-----------------------------------------------------------------------------
(* The image fills the sectors from FirstSection to LastSection. *)
LEMMA Sectors ==
  /\ FsOffset \in Nat /\ FsOffset % SectSize = 0
  /\ FirstSection(FsOffset) \in Nat /\ LastSection(FsOffset, FsSize) \in Nat
  /\ FirstSection(FsOffset) * SectSize = FsOffset
  /\ LastSection(FsOffset, FsSize) * SectSize + SectSize = FsOffset + FsSize
  /\ FirstSection(FsOffset) <= LastSection(FsOffset, FsSize)
  /\ FsSize \div SectSize = LastSection(FsOffset, FsSize) + 1 - FirstSection(FsOffset)
  /\ (FsSize \div SectSize) * SectSize = FsSize
  <1> DEFINE p == FsOffset \div SectSize
             q == FsSize \div SectSize
  <1>1. /\ SectSize \in Nat \ {0} /\ FsOffset \in Nat /\ FsSize \in Nat \ {0}
        /\ FsOffset % SectSize = 0 /\ FsSize % SectSize = 0
    BY SectSizeAssumption, LayoutAssumption, Sizes DEF canWriteBytes
  <1>2. p \in Int /\ FsOffset = p * SectSize /\ q \in Int /\ FsSize = q * SectSize
    BY <1>1, Division
  <1>3. p \in Nat /\ q \in Nat
    BY <1>1
  <1>4. q # 0
    BY <1>1, <1>2
  <1> HIDE DEF p, q
  <1>5. FsOffset + FsSize - 1 = (p + q - 1) * SectSize + (SectSize - 1)
    BY <1>1, <1>2, <1>3
  <1>6. (FsOffset + FsSize - 1) \div SectSize = p + q - 1
    <2>1. SectSize - 1 \in 0 .. SectSize - 1 /\ p + q - 1 \in Int
      BY <1>1, <1>3
    <2>2. ((p + q - 1) * SectSize + (SectSize - 1)) \div SectSize = p + q - 1
      BY <1>1, <2>1, DivisionOf
    <2> QED BY <1>5, <2>2
  <1>7. FirstSection(FsOffset) = p /\ LastSection(FsOffset, FsSize) = p + q - 1
    BY <1>6 DEF FirstSection, LastSection, Section, p
  <1>8. (p + q - 1) * SectSize + SectSize = FsOffset + FsSize
    BY <1>1, <1>2, <1>3
  <1>9. FsSize \div SectSize = q /\ q = (p + q - 1) + 1 - p /\ p <= p + q - 1
    BY <1>3, <1>4 DEF q
  <1>10. p + q - 1 \in Nat
    BY <1>3, <1>4
  <1> QED BY <1>1, <1>2, <1>3, <1>7, <1>8, <1>9, <1>10

(* The addresses of a sector. *)
LEMMA InSection ==
  ASSUME NEW b \in Nat, NEW n \in Nat
  PROVE  Section(b) = n <=> n * SectSize <= b /\ b < n * SectSize + SectSize
  <1>1. SectSize \in Nat \ {0}
    BY SectSizeAssumption
  <1>2. ASSUME Section(b) = n
        PROVE  n * SectSize <= b /\ b < n * SectSize + SectSize
    <2>1. b \div SectSize = n /\ n * SectSize \in Nat
      BY <1>1, <1>2 DEF Section
    <2>2. b % SectSize \in 0 .. SectSize - 1
      BY <1>1
    <2>3. b = (b \div SectSize) * SectSize + (b % SectSize)
      BY <1>1, Division
    <2>4. b = n * SectSize + (b % SectSize)
      BY <2>1, <2>3
    <2> QED BY <1>1, <2>1, <2>2, <2>4
  <1>3. ASSUME n * SectSize <= b, b < n * SectSize + SectSize
        PROVE  Section(b) = n
    <2>1. n * SectSize \in Nat /\ b - n * SectSize \in 0 .. SectSize - 1
      BY <1>1, <1>3
    <2>2. b = n * SectSize + (b - n * SectSize)
      BY <2>1
    <2>3. (n * SectSize + (b - n * SectSize)) \div SectSize = n
      BY <1>1, <2>1, DivisionOf
    <2> QED BY <2>2, <2>3 DEF Section
  <1> QED BY <1>2, <1>3

(* The disk while image new is written over image old. *)
DiskOf(old, new, c) ==
  [b \in 0 .. FsOffset + FsSize - 1 |->
     IF b < FsOffset THEN Program[b] ELSE Mixture(old, new, c)[b - FsOffset]]

LEMMA MixtureOfNone ==
  ASSUME NEW old, NEW new, NEW c \in Int
  PROVE  /\ c <= 0 => Mixture(old, new, c) = BytesOf(old)
         /\ c >= FsSize => Mixture(old, new, c) = BytesOf(new)
  <1>1. \A b \in 0 .. FsSize - 1 : (c <= 0 => ~(b < c)) /\ (c >= FsSize => b < c)
    BY Sizes
  <1>2. c <= 0 => Mixture(old, new, c) = [b \in 0 .. FsSize - 1 |-> BytesOf(old)[b]]
    BY <1>1 DEF Mixture
  <1>3. c >= FsSize => Mixture(old, new, c) = [b \in 0 .. FsSize - 1 |-> BytesOf(new)[b]]
    BY <1>1 DEF Mixture
  <1>4. \A f : BytesOf(f) = [b \in 0 .. FsSize - 1 |-> BytesOf(f)[b]]
    BY DEF BytesOf
  <1> QED BY <1>2, <1>3, <1>4

LEMMA SameMixtureSameDisk ==
  ASSUME NEW old, NEW new, NEW c, NEW old2, NEW new2, NEW c2,
         Mixture(old, new, c) = Mixture(old2, new2, c2)
  PROVE  DiskOf(old, new, c) = DiskOf(old2, new2, c2)
  BY DEF DiskOf

(* loadFS reads all of the image and nothing else. *)
LEMMA LoadFSReads ==
  ASSUME NEW old, NEW new, NEW c
  PROVE  LoadFS(DiskOf(old, new, c)) = ImageOf(Mixture(old, new, c))
  <1> DEFINE d == DiskOf(old, new, c)
             zero == [b \in 0 .. FsSize - 1 |-> 0]
             r == readBytes(zero, d, 0, FsOffset, FsSize)
             m == Mixture(old, new, c)
  <1>1. SectSize \in Nat \ {0} /\ FsSize \in Nat /\ FsOffset \in Nat
    BY SectSizeAssumption, Sizes, Sectors
  <1>2. SteppedBack(0, FsOffset) = 0
    BY Sectors DEF SteppedBack
  <1>3. SectionStart(FsOffset) = FsOffset
    BY Sectors DEF SectionStart, FirstSection
  <1>4. ASSUME NEW a \in 0 .. FsSize - 1
        PROVE  Transferred(a, 0, FsOffset, FsSize)
    <2>1. a \in Int /\ a - 0 = a
      OBVIOUS
    <2>2. a \div SectSize \in Int /\ a % SectSize \in 0 .. SectSize - 1
          /\ a = (a \div SectSize) * SectSize + (a % SectSize)
      BY <1>1, <2>1, Division
    <2>3. (a \div SectSize) * SectSize \in Int
      BY <1>1, <2>2
    <2>4. 0 + (a \div SectSize) * SectSize < 0 + FsSize
      BY <1>1, <2>2, <2>3
    <2> QED BY <1>2, <2>1, <2>4 DEF Transferred, TurnStart
  <1>5. r = [a \in 0 .. FsSize - 1 |-> d[FsOffset + (a - 0)]]
    BY <1>2, <1>3, <1>4 DEF readBytes
  <1>6. ASSUME NEW a \in 0 .. FsSize - 1
        PROVE  d[FsOffset + (a - 0)] = m[a]
    <2>1. FsOffset + (a - 0) \in 0 .. FsOffset + FsSize - 1
      BY <1>1
    <2>2. ~(FsOffset + (a - 0) < FsOffset) /\ FsOffset + (a - 0) - FsOffset = a
      BY <1>1
    <2>3. (FsOffset + (a - 0)) - FsOffset = a
      BY <1>1
    <2> QED BY <2>1, <2>2, <2>3 DEF DiskOf
  <1>7. m = [a \in 0 .. FsSize - 1 |-> m[a]]
    BY DEF Mixture
  <1>8. r = m
    BY <1>5, <1>6, <1>7
  <1> QED BY <1>8 DEF LoadFS

(* Writing the next sector of new moves the border by a sector. *)
LEMMA SectorWritten ==
  ASSUME NEW old, NEW new,
         NEW n \in FirstSection(FsOffset) .. LastSection(FsOffset, FsSize)
  PROVE  writeSect(DiskOf(old, new, n * SectSize - FsOffset), BytesOf(new),
                   n * SectSize - FsOffset, n)
           = DiskOf(old, new, (n + 1) * SectSize - FsOffset)
  <1> DEFINE S == n * SectSize
             c == n * SectSize - FsOffset
             d == DiskOf(old, new, c)
             e == (n + 1) * SectSize - FsOffset
             D == 0 .. FsOffset + FsSize - 1
  <1>1. /\ SectSize \in Nat \ {0} /\ FsSize \in Nat /\ FsOffset \in Nat /\ n \in Nat
        /\ S \in Nat /\ c = S - FsOffset /\ e = S + SectSize - FsOffset
    BY SectSizeAssumption, Sizes, Sectors
  <1>2. FsOffset <= S /\ S + SectSize <= FsOffset + FsSize
    <2>1. FirstSection(FsOffset) * SectSize <= n * SectSize
      <3>1. CASE n = FirstSection(FsOffset)
        BY <1>1, <3>1
      <3>2. CASE FirstSection(FsOffset) < n
        BY <1>1, <3>2, Sectors, PiecesInOrder
      <3> QED BY <3>1, <3>2, Sectors
    <2>2. n * SectSize + SectSize <= LastSection(FsOffset, FsSize) * SectSize + SectSize
      <3>1. CASE n = LastSection(FsOffset, FsSize)
        BY <1>1, <3>1
      <3>2. CASE n < LastSection(FsOffset, FsSize)
        BY <1>1, <3>2, Sectors, PiecesInOrder
      <3> QED BY <3>1, <3>2, Sectors
    <2> QED BY <2>1, <2>2, Sectors
  <1>3. \A b \in D : Section(b) = n <=> S <= b /\ b < S + SectSize
    BY <1>1, InSection
  <1>4. ASSUME NEW b \in D
        PROVE  (IF Section(b) = n THEN BytesOf(new)[c + (b - S)] ELSE d[b])
                 = IF b < FsOffset THEN Program[b] ELSE Mixture(old, new, e)[b - FsOffset]
    <2> HIDE DEF S, c, e
    <2>1. b \in Nat /\ b < FsOffset + FsSize
      BY <1>1
    <2>2. d[b] = IF b < FsOffset THEN Program[b] ELSE Mixture(old, new, c)[b - FsOffset]
      BY DEF DiskOf
    <2>3. CASE b < FsOffset
      <3>1. Section(b) # n
        BY <1>1, <1>2, <1>3, <2>1, <2>3
      <3> QED BY <2>2, <2>3, <3>1
    <2>4. CASE ~(b < FsOffset)
      <3>1. b - FsOffset \in 0 .. FsSize - 1
        BY <1>1, <2>1, <2>4
      <3>2. /\ Mixture(old, new, e)[b - FsOffset]
                 = IF b - FsOffset < e THEN BytesOf(new)[b - FsOffset]
                   ELSE BytesOf(old)[b - FsOffset]
            /\ Mixture(old, new, c)[b - FsOffset]
                 = IF b - FsOffset < c THEN BytesOf(new)[b - FsOffset]
                   ELSE BytesOf(old)[b - FsOffset]
        BY <3>1 DEF Mixture
      <3>3. CASE Section(b) = n
        <4>1. b - FsOffset < e /\ c + (b - S) = b - FsOffset
          BY <1>1, <1>3, <2>1, <3>3
        <4> QED BY <2>4, <3>2, <3>3, <4>1
      <3>4. CASE Section(b) # n
        <4>1. b - FsOffset < e <=> b - FsOffset < c
          BY <1>1, <1>3, <2>1, <3>4
        <4> QED BY <2>2, <2>4, <3>2, <3>4, <4>1
      <3> QED BY <3>3, <3>4
    <2> QED BY <2>3, <2>4
  <1>5. DOMAIN d = D
    BY DEF DiskOf
  <1> HIDE DEF c, e, d, S
  <1>6. writeSect(d, BytesOf(new), c, n)
          = [b \in D |-> IF Section(b) = n THEN BytesOf(new)[c + (b - S)] ELSE d[b]]
    BY <1>5 DEF writeSect, S
  <1>7. DiskOf(old, new, e)
          = [b \in D |-> IF b < FsOffset THEN Program[b] ELSE Mixture(old, new, e)[b - FsOffset]]
    BY DEF DiskOf
  <1>8. writeSect(d, BytesOf(new), c, n) = DiskOf(old, new, e)
    BY <1>4, <1>6, <1>7
  <1> QED BY <1>8 DEF c, d, e

-----------------------------------------------------------------------------
(***************************************************************************)
(* The inductive invariant: the disk holds the programs and a mixture of   *)
(* the image saved and the image in memory, whose border is the sector     *)
(* that writeBack writes next; both are images on which the searches work; *)
(* and the one in memory counts the entries of both.                       *)
(***************************************************************************)
Progress == IF section = -1 THEN 0 ELSE section * SectSize - FsOffset

IInv ==
  /\ power \in BOOLEAN
  /\ section \in {-1} \cup FirstSection(FsOffset) .. LastSection(FsOffset, FsSize)
  /\ torn \in {"no", "now", "past"}
  /\ ~power => section = -1
  /\ WellFormed(fs) /\ WellFormed(saved)
  /\ power => Covers(fs, saved)
  /\ disk = DiskOf(saved, fs, Progress)

(* The border is an integer. *)
LEMMA ProgressProperties ==
  ASSUME section \in {-1} \cup FirstSection(FsOffset) .. LastSection(FsOffset, FsSize)
  PROVE  /\ Progress \in Int /\ section \in Int
         /\ section = -1 => Progress = 0
         /\ section # -1 => Progress = section * SectSize - FsOffset
  <1>1. SectSize \in Nat /\ section \in Int
    BY SectSizeAssumption, Sectors
  <1>2. section * SectSize - FsOffset \in Int
    BY <1>1, Sectors
  <1> QED BY <1>1, <1>2 DEF Progress

(* What the next start will load. *)
LEMMA LoadedNext ==
  ASSUME IInv
  PROVE  /\ LoadFS(disk) = ImageOf(Mixture(saved, fs, Progress))
         /\ IsMixture(LoadFS(disk), saved, fs, Progress)
         /\ WellFormed(LoadFS(disk))
         /\ section = -1 => LoadFS(disk) = saved
  <1>1. saved \in Images /\ fs \in Images /\ Progress \in Int
    BY ProgressProperties DEF IInv, WellFormed
  <1>2. LoadFS(disk) = ImageOf(Mixture(saved, fs, Progress))
    BY LoadFSReads DEF IInv
  <1>3. IsMixture(LoadFS(disk), saved, fs, Progress)
    BY <1>1, <1>2, MixtureFields
  <1>4. section = -1 => LoadFS(disk) = saved
    <2>1. SUFFICES ASSUME section = -1 PROVE LoadFS(disk) = saved
      OBVIOUS
    <2>2. Progress <= 0
      BY <2>1 DEF Progress
    <2> QED BY <1>1, <1>2, <2>2, WholeImage
  <1>5. WellFormed(LoadFS(disk))
    <2>1. CASE section = -1
      BY <1>4, <2>1 DEF IInv
    <2>2. CASE section # -1
      <3>1. power /\ Covers(fs, saved)
        BY <2>2 DEF IInv
      <3> QED BY <1>1, <1>3, <3>1, MixtureWellFormed DEF IInv
    <2> QED BY <2>1, <2>2
  <1> QED BY <1>2, <1>3, <1>4, <1>5

(* A disk that is not being written does not depend on the image in memory. *)
LEMMA DiskAtRest ==
  ASSUME NEW old, NEW new, NEW c \in Int, NEW f, Mixture(old, new, c) = BytesOf(f)
  PROVE  \A g : DiskOf(old, new, c) = DiskOf(f, g, 0)
  <1> TAKE g
  <1>1. Mixture(f, g, 0) = BytesOf(f)
    BY MixtureOfNone
  <1> QED BY <1>1, SameMixtureSameDisk

(* The image the system is installed with, and the first power on. *)
LEMMA InitInv ==
  ASSUME Init
  PROVE  IInv
  <1>1. WellFormed(Image)
    BY ImageConsistent DEF Consistent
  <1>2. Progress = 0
    BY DEF Progress, Init
  <1>3. Mixture(Image, Image, 0) = BytesOf(Image)
    BY MixtureOfNone
  <1>4. disk = DiskOf(Image, Image, 0)
    BY <1>3 DEF Init, Installed, DiskOf
  <1> QED BY <1>1, <1>2, <1>4 DEF Init, IInv

(* loadFS loads the image that was saved. *)
LEMMA PowerOnInv ==
  ASSUME IInv, PowerOn
  PROVE  IInv' /\ fs' = saved
  <1>1. section = -1 /\ section' = -1 /\ saved' = saved /\ disk' = disk /\ power' = TRUE
    BY DEF IInv, PowerOn
  <1>2. fs' = saved
    BY <1>1, LoadedNext DEF PowerOn
  <1>3. Progress = 0 /\ Progress' = 0
    BY <1>1 DEF Progress
  <1>4. Mixture(saved, fs, 0) = BytesOf(saved)
    BY MixtureOfNone
  <1>5. disk = DiskOf(saved, saved, 0)
    BY <1>3, <1>4, DiskAtRest DEF IInv
  <1>6. WellFormed(saved) /\ Covers(saved, saved)
    BY CoversItself DEF IInv
  <1>7. torn' \in {"no", "now", "past"}
    BY DEF PowerOn
  <1> QED BY <1>1, <1>2, <1>3, <1>5, <1>6, <1>7 DEF IInv

(* A power loss leaves what the disk holds at that moment. *)
LEMMA PowerOffInv ==
  ASSUME IInv, PowerOff
  PROVE  IInv'
  <1>1. /\ section' = -1 /\ saved' = LoadFS(disk) /\ fs' = fs /\ disk' = disk /\ power' = FALSE
        /\ Progress' = 0
    BY DEF PowerOff, Progress
  <1>2. saved \in Images /\ fs \in Images /\ Progress \in Int
    BY ProgressProperties DEF IInv, WellFormed
  <1>3. WellFormed(saved')
    BY <1>1, LoadedNext
  <1>4. Mixture(saved, fs, Progress) = BytesOf(saved')
    BY <1>1, <1>2, LoadedNext, MixtureBytes
  <1>5. disk' = DiskOf(saved', fs', 0)
    BY <1>1, <1>2, <1>4, DiskAtRest DEF IInv
  <1>6. torn' \in {"no", "now", "past"}
    BY DEF PowerOff, IInv
  <1> QED BY <1>1, <1>3, <1>5, <1>6 DEF IInv

LEMMA ExitInv ==
  ASSUME IInv, Exit
  PROVE  IInv'
  <1>1. /\ section = -1 /\ section' = FirstSection(FsOffset)
        /\ saved' = saved /\ fs' = fs /\ disk' = disk /\ power' = power /\ power /\ torn' = torn
    BY DEF Exit, InUser, StartSection
  <1>2. section' # -1
    BY <1>1, Sectors
  <1>3. Progress = 0 /\ Progress' = 0
    BY <1>1, <1>2, Sectors DEF Progress
  <1>4. section' \in {-1} \cup FirstSection(FsOffset) .. LastSection(FsOffset, FsSize)
    BY <1>1, Sectors
  <1> QED BY <1>1, <1>3, <1>4 DEF IInv

(* A turn of the loop of writeBytes; after the last one the disk holds the *)
(* image of the memory.                                                    *)
LEMMA WriteSectInv ==
  ASSUME IInv, WriteSect
  PROVE  /\ IInv' /\ section # -1
         /\ \/ section' # -1 /\ saved' = saved
            \/ section' = -1 /\ saved' = fs
  <1> DEFINE n == section
             c == n * SectSize - FsOffset
             e == (n + 1) * SectSize - FsOffset
  <1>1. /\ power /\ section # -1 /\ power' = power /\ fs' = fs /\ torn' = torn
        /\ disk' = writeSect(disk, BytesOf(fs), c, n)
    BY DEF WriteSect
  <1>2. n \in FirstSection(FsOffset) .. LastSection(FsOffset, FsSize)
    BY <1>1 DEF IInv
  <1>3. /\ n \in Nat /\ SectSize \in Nat \ {0} /\ FsOffset \in Nat /\ FsSize \in Nat
        /\ LastSection(FsOffset, FsSize) \in Nat /\ FirstSection(FsOffset) \in Nat
    BY <1>2, Sectors, Sizes, SectSizeAssumption
  <1>4. disk = DiskOf(saved, fs, c)
    BY <1>1 DEF IInv, Progress
  <1>5. disk' = DiskOf(saved, fs, e)
    BY <1>1, <1>2, <1>4, SectorWritten
  <1>6. e \in Int /\ (n + 1) * SectSize = n * SectSize + SectSize
    BY <1>3
  <1>7. saved \in Images /\ fs \in Images
    BY DEF IInv, WellFormed
  <1>8. CASE n < LastSection(FsOffset, FsSize) /\ section' = n + 1 /\ saved' = saved
    <2>1. section' # -1 /\ section' \in FirstSection(FsOffset) .. LastSection(FsOffset, FsSize)
      BY <1>2, <1>3, <1>8
    <2>2. Progress' = e
      BY <1>8, <2>1 DEF Progress
    <2> QED BY <1>1, <1>5, <1>8, <2>1, <2>2 DEF IInv
  <1>9. CASE n = LastSection(FsOffset, FsSize) /\ section' = -1 /\ saved' = LoadFS(disk')
    <2>1. e = FsSize
      BY <1>3, <1>6, <1>9, Sectors
    <2>2. saved' = ImageOf(Mixture(saved, fs, e))
      BY <1>5, <1>9, LoadFSReads
    <2>3. saved' = fs
      BY <1>3, <1>6, <1>7, <2>1, <2>2, WholeImage
    <2>4. Mixture(saved, fs, e) = BytesOf(fs)
      BY <1>3, <1>6, <2>1, MixtureOfNone
    <2>5. disk' = DiskOf(fs, fs, 0)
      BY <1>5, <1>6, <2>4, DiskAtRest
    <2>6. Progress' = 0
      BY <1>9 DEF Progress
    <2>7. Covers(fs, fs)
      BY CoversItself DEF IInv
    <2> QED BY <1>1, <1>9, <2>3, <2>5, <2>6, <2>7 DEF IInv
  <1> QED BY <1>8, <1>9 DEF WriteSect

-----------------------------------------------------------------------------
(***************************************************************************)
(* The operations of the programs.                                         *)
(***************************************************************************)
FileStep ==
  \E path \in Paths : CreateFile(path) \/ RemoveFile(path) \/ \E len \in Lens : WriteFile(path, len)

(* The paths are paths. *)
LEMMA PathsArePaths == \A path \in Paths : APath(path)
  BY WorkAssumption DEF APath

(* What a call does to the image, written with the conditions of the       *)
(* file system: an entry is added, or one is dropped, or a size changes.   *)
Creates(path) ==
  Added(fs, fs', findUpperDirPos(fs, path), getAvlDirdata(fs, findUpperDirPos(fs, path)),
        getAvlInode(fs), getLastLevelName(path))
Removes(path) ==
  Dropped(fs, fs', findUpperDirPos(fs, path), Freed(fs, path), findCurrentFLPos(fs, path))
Writes ==
  \E i \in Inodes \ Dirs : \E len \in Int : fs' = writeF(fs, i, len, 0)

LEMMA CreateFileAdds ==
  ASSUME WellFormed(fs), NEW path \in Paths, CreateFile(path)
  PROVE  /\ MayMake(fs, path) /\ fs' = makeFL(fs, path) /\ ~isFLExist(fs, path)
         /\ Creates(path)
  <1>1. MayMake(fs, path)
    BY PathsArePaths DEF MayMake, CreateFile
  <1>2. fs' = makeFL(fs, path) /\ ~isFLExist(fs, path)
    BY DEF CreateFile
  <1>3. Creates(path)
    BY <1>1, <1>2, MakeAdds DEF Creates
  <1> QED BY <1>1, <1>2, <1>3

LEMMA RemoveFileDrops ==
  ASSUME WellFormed(fs), NEW path \in Paths, RemoveFile(path)
  PROVE  /\ fs' = rmFL(fs, path) /\ findUpperDirPos(fs, path) # -1
         /\ Removes(path)
  <1>1. /\ APath(path) /\ findUpperDirPos(fs, path) # -1 /\ fs' = rmFL(fs, path)
        /\ findCurrentFLPos(fs, path) # -1
    BY PathsArePaths DEF RemoveFile, isFLExist
  <1>2. Removes(path)
    BY <1>1, RemoveDrops DEF Removes
  <1> QED BY <1>1, <1>2

LEMMA WriteFileWrites ==
  ASSUME WellFormed(fs), NEW path \in Paths, NEW len \in Lens, WriteFile(path, len)
  PROVE  Writes
  <1>1. /\ findUpperDirPos(fs, path) # -1 /\ findCurrentFLPos(fs, path) # -1
        /\ fs' = writeF(fs, findCurrentFLPos(fs, path), len, 0)
    BY DEF WriteFile, isFLExist
  <1>2. findUpperDirPos(fs, path) \in Dirs
    BY <1>1, PathsArePaths, UpperDir
  <1>3. findCurrentFLPos(fs, path) \in Inodes \ Dirs
    BY <1>1, <1>2, FilePos
  <1>4. len \in Int
    BY WorkAssumption DEF Ints
  <1> QED BY <1>1, <1>3, <1>4 DEF Writes

(* A write changes no entry and no filenum. *)
LEMMA WritesKeeps ==
  ASSUME WellFormed(fs), Writes
  PROVE  /\ WellFormed(fs')
         /\ fs'.dirdata = fs.dirdata /\ fs'.inode_map = fs.inode_map
         /\ \A d \in Dirs : InUse(fs', d) = InUse(fs, d) /\ fs'.size[d] = fs.size[d]
  <1>1. PICK i \in Inodes \ Dirs, len \in Int : fs' = writeF(fs, i, len, 0)
    BY DEF Writes
  <1>2. len \in Int /\ 0 \in Int
    OBVIOUS
  <1>3. /\ WellFormed(fs') /\ fs'.dirdata = fs.dirdata /\ fs'.inode_map = fs.inode_map
        /\ \A j \in Inodes : j # i => fs'.size[j] = fs.size[j]
    BY <1>1, <1>2, WriteProperties
  <1>4. \A d \in Dirs : d \in Inodes /\ d # i
    BY Indices
  <1> QED BY <1>3, <1>4 DEF InUse

(* Every call leaves an image that works and covers the one on the disk. *)
LEMMA FileStepInv ==
  ASSUME IInv, FileStep
  PROVE  /\ IInv' /\ power /\ section = -1
         /\ power' = power /\ section' = section /\ saved' = saved /\ torn' = torn
         /\ memory' = memory /\ disk' = disk
  <1>1. /\ power /\ section = -1 /\ power' = power /\ section' = section /\ saved' = saved
        /\ torn' = torn /\ memory' = memory /\ disk' = disk
    BY DEF FileStep, CreateFile, RemoveFile, WriteFile, FileOperation, InUser
  <1>2. WellFormed(fs) /\ Covers(fs, saved)
    BY <1>1 DEF IInv
  <1>3. WellFormed(fs') /\ Covers(fs', saved)
    <2>1. ASSUME NEW path \in Paths, CreateFile(path)
          PROVE  WellFormed(fs') /\ Covers(fs', saved)
      <3>1. Creates(path)
        BY <1>2, <2>1, CreateFileAdds
      <3> QED BY <1>2, <3>1, AddedWellFormed, AddedCovers DEF Creates
    <2>2. ASSUME NEW path \in Paths, RemoveFile(path)
          PROVE  WellFormed(fs') /\ Covers(fs', saved)
      <3>1. Removes(path)
        BY <1>2, <2>2, RemoveFileDrops
      <3> QED BY <1>2, <3>1, DroppedWellFormed, DroppedCovers DEF Removes
    <2>3. ASSUME NEW path \in Paths, NEW len \in Lens, WriteFile(path, len)
          PROVE  WellFormed(fs') /\ Covers(fs', saved)
      <3>1. Writes
        BY <1>2, <2>3, WriteFileWrites
      <3> QED BY <1>2, <3>1, WritesKeeps DEF Covers
    <2> QED BY <2>1, <2>2, <2>3 DEF FileStep
  <1>4. Progress = 0 /\ Progress' = 0
    BY <1>1 DEF Progress
  <1>5. Mixture(saved, fs, 0) = BytesOf(saved)
    BY MixtureOfNone
  <1>6. disk' = DiskOf(saved', fs', 0)
    BY <1>1, <1>4, <1>5, DiskAtRest DEF IInv
  <1>7. IInv'
    BY <1>1, <1>3, <1>4, <1>6 DEF IInv
  <1> QED BY <1>1, <1>7

(* A step that changes nothing. *)
LEMMA StutterInv ==
  ASSUME IInv, UNCHANGED vars
  PROVE  IInv'
  BY DEF IInv, Progress, vars

(* The steps of the system. *)
LEMMA NextCases ==
  Next <=> PowerOn \/ PowerOff \/ Exit \/ WriteSect \/ FileStep
  BY DEF Next, FileStep

LEMMA NextInv ==
  ASSUME IInv, [Next]_vars
  PROVE  IInv'
  <1>1. CASE PowerOn
    BY <1>1, PowerOnInv
  <1>2. CASE PowerOff
    BY <1>2, PowerOffInv
  <1>3. CASE Exit
    BY <1>3, ExitInv
  <1>4. CASE WriteSect
    BY <1>4, WriteSectInv
  <1>5. CASE FileStep
    BY <1>5, FileStepInv
  <1>6. CASE UNCHANGED vars
    BY <1>6, StutterInv
  <1> QED BY <1>1, <1>2, <1>3, <1>4, <1>5, <1>6, NextCases

(***************************************************************************)
(* The invariant is inductive: at every moment the disk holds the          *)
(* programs, the new image up to the sector that is written next and the   *)
(* image saved last behind it (loadFS, writeBack, readBytes, writeBytes).  *)
(***************************************************************************)
THEOREM InductiveImage == Spec => []IInv
  <1>1. Init => IInv
    BY InitInv
  <1>2. IInv /\ [Next]_vars => IInv'
    BY NextInv
  <1> QED BY <1>1, <1>2, PTL DEF Spec

(***************************************************************************)
(* Type correctness: a torn image has the types of a whole one, too.       *)
(***************************************************************************)
THEOREM TypeCorrect == Spec => []TypeOK
  <1>1. IInv => TypeOK
    <2> SUFFICES ASSUME IInv PROVE TypeOK
      OBVIOUS
    <2>1. ASSUME NEW f, WellFormed(f)
          PROVE  /\ f.inode_map \in [Inodes -> BOOLEAN]
                 /\ f.type \in [Inodes -> {"UNUSED", "DIR", "FL"}]
                 /\ f.size \in [Inodes -> Nat]
                 /\ \A d \in Dirs : \A s \in Slots : f.dirdata[d][s].inode_no \in Inodes
      <3>1. f \in Images
        BY <2>1 DEF WellFormed
      <3>2. {"UNUSED", "DIR", "FL"} = Kinds
        BY DEF Kinds
      <3> QED BY <3>1, <3>2 DEF Images
    <2>2. WellFormed(fs) /\ WellFormed(saved)
      BY DEF IInv
    <2> QED BY <2>1, <2>2 DEF IInv, TypeOK
  <1> QED BY <1>1, InductiveImage, PTL

(***************************************************************************)
(* On every image a start can load, torn ones and their descendants        *)
(* included, the search loops reach every entry of a directory.            *)
(***************************************************************************)
THEOREM SearchesReachTornEntries == Spec => []SearchesSurvive
  <1>1. IInv => SearchesSurvive
    <2> SUFFICES ASSUME IInv PROVE SearchesSurvive
      OBVIOUS
    <2>1. WellFormed(LoadFS(disk))
      BY LoadedNext
    <2>2. \A d \in Dirs : Searched(LoadFS(disk), d) = InUse(LoadFS(disk), d)
      BY <2>1, SearchReachesAll
    <2> QED BY <2>2 DEF SearchesSurvive
  <1> QED BY <1>1, InductiveImage, PTL

-----------------------------------------------------------------------------
(***************************************************************************)
(* The refinement of StableStore, step by step, and the status it sees.    *)
(***************************************************************************)
Status == IF ~power THEN "off" ELSE IF section = -1 THEN "on" ELSE "saving"

(* A power loss within a save leaves a mixture that CutOff allows. *)
LEMMA MixtureIsCutOff ==
  ASSUME NEW n \in FirstSection(FsOffset) .. LastSection(FsOffset, FsSize), NEW old, NEW new
  PROVE  ImageOf(Mixture(old, new, n * SectSize - FsOffset)) \in CutOff(old, new)
  <1> DEFINE k == n - FirstSection(FsOffset)
  <1>1. /\ SectSize \in Nat /\ FsOffset \in Nat /\ n \in Nat
        /\ FirstSection(FsOffset) \in Nat /\ LastSection(FsOffset, FsSize) \in Nat
    BY Sectors, SectSizeAssumption
  <1>2. k \in 0 .. FsSize \div SectSize
    <2>1. FsSize \div SectSize = LastSection(FsOffset, FsSize) + 1 - FirstSection(FsOffset)
      BY Sectors
    <2>2. k \in 0 .. LastSection(FsOffset, FsSize) + 1 - FirstSection(FsOffset)
      BY <1>1
    <2> QED BY <2>1, <2>2
  <1>3. k * SectSize = n * SectSize - FirstSection(FsOffset) * SectSize
    BY <1>1
  <1>4. n * SectSize - FsOffset = k * SectSize
    BY <1>3, Sectors
  <1> HIDE DEF k
  <1>5. Mixture(old, new, k * SectSize)
          = [b \in 0 .. FsSize - 1 |->
               IF b < k * SectSize THEN BytesOf(new)[b] ELSE BytesOf(old)[b]]
    BY DEF Mixture
  <1>6. ImageOf(Mixture(old, new, k * SectSize)) \in CutOff(old, new)
    BY <1>2, <1>5 DEF CutOff
  <1> QED BY <1>4, <1>6

(* Turning the machine on. *)
LEMMA PowerOnReturns ==
  ASSUME IInv, PowerOn
  PROVE  Store!PowerReturns
  <1>1. fs' = saved
    BY PowerOnInv
  <1>2. section = -1 /\ section' = -1 /\ ~power /\ power' = TRUE /\ saved' = saved
    BY DEF IInv, PowerOn
  <1> QED BY <1>1, <1>2 DEF Store!PowerReturns

(* Losing the power, within a writeBack or not. *)
LEMMA PowerOffFails ==
  ASSUME IInv, PowerOff
  PROVE  Store!PowerFails
  <1>1. /\ power /\ power' = FALSE /\ saved' = LoadFS(disk)
    BY DEF PowerOff
  <1>2. CASE section = -1
    <2>1. saved' = saved
      BY <1>1, <1>2, LoadedNext
    <2> QED BY <1>1, <1>2, <2>1 DEF Store!PowerFails
  <1>3. CASE section # -1
    <2>1. section \in FirstSection(FsOffset) .. LastSection(FsOffset, FsSize)
      BY <1>3 DEF IInv
    <2>2. saved' = ImageOf(Mixture(saved, fs, section * SectSize - FsOffset))
      BY <1>1, <1>3, LoadedNext DEF Progress
    <2>3. saved' \in CutOff(saved, fs)
      BY <2>1, <2>2, MixtureIsCutOff
    <2> QED BY <1>1, <1>3, <2>3 DEF Store!PowerFails
  <1> QED BY <1>2, <1>3

(* The start, the turns and the last turn of a writeBack. *)
LEMMA ExitStartsSave ==
  ASSUME IInv, Exit
  PROVE  Store!StartSave
  <1>1. /\ power /\ section = -1 /\ section' = FirstSection(FsOffset)
        /\ saved' = saved /\ fs' = fs /\ power' = power
    BY DEF Exit, InUser, StartSection
  <1>2. section' # -1
    BY <1>1, Sectors
  <1> QED BY <1>1, <1>2 DEF Store!StartSave

LEMMA WriteSectSaves ==
  ASSUME IInv, WriteSect
  PROVE  Store!EndSave \/ UNCHANGED Store!vars
  <1>1. section # -1 /\ power /\ power' = power /\ fs' = fs
    BY DEF WriteSect
  <1>2. \/ section' # -1 /\ saved' = saved
        \/ section' = -1 /\ saved' = fs
    BY WriteSectInv
  <1>3. CASE section' # -1 /\ saved' = saved
    BY <1>1, <1>3 DEF Store!vars
  <1>4. CASE section' = -1 /\ saved' = fs
    BY <1>1, <1>4 DEF Store!EndSave
  <1> QED BY <1>2, <1>3, <1>4

(* The work of the programs. *)
LEMMA FileStepWorks ==
  ASSUME IInv, FileStep
  PROVE  Store!Work
  <1>1. /\ power /\ section = -1
        /\ power' = power /\ section' = section /\ saved' = saved
    BY FileStepInv
  <1> QED BY <1>1 DEF Store!Work

LEMMA StutterStutters ==
  ASSUME UNCHANGED vars
  PROVE  UNCHANGED Store!vars
  BY DEF vars, Store!vars

LEMMA NextImplements ==
  ASSUME IInv, [Next]_vars
  PROVE  [Store!Next]_(Store!vars)
  <1>1. CASE PowerOn
    BY <1>1, PowerOnReturns DEF Store!Next
  <1>2. CASE PowerOff
    BY <1>2, PowerOffFails DEF Store!Next
  <1>3. CASE Exit
    BY <1>3, ExitStartsSave DEF Store!Next
  <1>4. CASE WriteSect
    BY <1>4, WriteSectSaves DEF Store!Next
  <1>5. CASE FileStep
    BY <1>5, FileStepWorks DEF Store!Next
  <1>6. CASE UNCHANGED vars
    BY <1>6, StutterStutters
  <1> QED BY <1>1, <1>2, <1>3, <1>4, <1>5, <1>6, NextCases

(***************************************************************************)
(* The disk is a stable store for the image: what an exit has written is   *)
(* what the next start loads, and a power loss within writeBack leaves a   *)
(* prefix of the new image and the rest of the old one (loadFS, writeBack, *)
(* readBytes, writeBytes).                                                 *)
(***************************************************************************)
THEOREM DiskIsStable == Spec => KeepsItsPromise
  <1>1. Init => Status = "off"
    BY DEF Init, Status
  <1>2. IInv /\ [Next]_vars => [Store!Next]_(Store!vars)
    BY NextImplements
  <1> QED BY <1>1, <1>2, InductiveImage, PTL DEF Spec, KeepsItsPromise, Store!Spec, Status

-----------------------------------------------------------------------------
(***************************************************************************)
(* The names in the root directory.  They hold when no program gives a     *)
(* file the name of a directory or of one of the entries every directory   *)
(* has.                                                                    *)
(***************************************************************************)
FilesOnly == \A path \in Paths : FileName(path)

\* The entry of a subdirectory stays where the installed image has it.
SubdirsInPlace(f) ==
  \A s \in InUse(f, Root) :
    s > 1 /\ f.dirdata[Root][s].inode_no \in Dirs => f.dirdata[Root][s].inode_no = s - 1

Sound(f) == Consistent(f) /\ SubdirsInPlace(f)

\* What RootNamesSurvive says of an image.
RootNames(f) ==
  \A s \in InUse(f, Root) :
    InFirstSector(s) /\ s > 1 =>
      /\ f.inode_map[f.dirdata[Root][s].inode_no]
      /\ \A t \in InUse(f, Root) :
           InFirstSector(t) /\ t > 1 /\ t # s =>
             f.dirdata[Root][t].inode_no # f.dirdata[Root][s].inode_no

(* No two entries of the root name the same inode. *)
LEMMA SoundNames ==
  ASSUME NEW f, Sound(f)
  PROVE  RootNames(f)
  <1> SUFFICES ASSUME NEW s \in InUse(f, Root), s > 1
               PROVE  /\ f.inode_map[f.dirdata[Root][s].inode_no]
                      /\ \A t \in InUse(f, Root) :
                           t > 1 /\ f.dirdata[Root][t].inode_no = f.dirdata[Root][s].inode_no
                             => t = s
    BY DEF RootNames
  <1>1. Root \in Dirs /\ InUse(f, Root) \in SUBSET Nat
    BY Indices, InUseFinite
  <1>2. f.inode_map[f.dirdata[Root][s].inode_no]
    BY <1>1 DEF Sound, Consistent, EntriesInUse
  <1>3. ASSUME NEW t \in InUse(f, Root), t > 1,
               f.dirdata[Root][t].inode_no = f.dirdata[Root][s].inode_no
        PROVE  t = s
    <2>1. CASE f.dirdata[Root][s].inode_no \in Dirs
      <3>1. f.dirdata[Root][s].inode_no = s - 1 /\ f.dirdata[Root][t].inode_no = t - 1
        BY <1>3, <2>1 DEF Sound, SubdirsInPlace
      <3> QED BY <1>1, <1>3, <3>1
    <2>2. CASE f.dirdata[Root][s].inode_no \notin Dirs
      BY <1>1, <1>3, <2>2 DEF Sound, Consistent, OneEntry
    <2> QED BY <2>1, <2>2
  <1> QED BY <1>2, <1>3

(* They depend on inode_map and on the entries in the first sector alone.  *)
FirstSlots == {s \in Slots : InFirstSector(s)}
SameRoot(g, h) ==
  /\ \A s \in FirstSlots : /\ g.dirdata[Root][s].filename = h.dirdata[Root][s].filename
                           /\ g.dirdata[Root][s].inode_no = h.dirdata[Root][s].inode_no
  /\ FirstSlots # {} => \A i \in Inodes : g.inode_map[i] = h.inode_map[i]

LEMMA SameRootNames ==
  ASSUME NEW g, NEW h \in Images, SameRoot(g, h), RootNames(h)
  PROVE  RootNames(g)
  <1>1. \A s \in FirstSlots : s \in InUse(g, Root) <=> s \in InUse(h, Root)
    BY DEF SameRoot, InUse, FirstSlots
  <1>2. \A s \in InUse(g, Root) : InFirstSector(s) => s \in FirstSlots
    BY DEF InUse, FirstSlots
  <1>3. \A s \in Slots : h.dirdata[Root][s].inode_no \in Inodes
    BY Indices DEF Images
  <1> SUFFICES ASSUME NEW s \in InUse(g, Root), InFirstSector(s), s > 1
               PROVE  /\ g.inode_map[g.dirdata[Root][s].inode_no]
                      /\ \A t \in InUse(g, Root) :
                           InFirstSector(t) /\ t > 1 /\ t # s =>
                             g.dirdata[Root][t].inode_no # g.dirdata[Root][s].inode_no
    BY DEF RootNames
  <1>4. /\ s \in FirstSlots /\ s \in InUse(h, Root)
        /\ g.dirdata[Root][s].inode_no = h.dirdata[Root][s].inode_no
        /\ h.dirdata[Root][s].inode_no \in Inodes
    BY <1>1, <1>2, <1>3 DEF SameRoot, FirstSlots
  <1>5. h.inode_map[h.dirdata[Root][s].inode_no]
    BY <1>4 DEF RootNames
  <1>6. g.inode_map[g.dirdata[Root][s].inode_no] = h.inode_map[h.dirdata[Root][s].inode_no]
    BY <1>4 DEF SameRoot
  <1>7. ASSUME NEW t \in InUse(g, Root), InFirstSector(t), t > 1, t # s
        PROVE  g.dirdata[Root][t].inode_no # g.dirdata[Root][s].inode_no
    <2>1. /\ t \in InUse(h, Root)
          /\ g.dirdata[Root][t].inode_no = h.dirdata[Root][t].inode_no
      BY <1>1, <1>2, <1>7 DEF SameRoot
    <2> QED BY <1>4, <1>7, <2>1 DEF RootNames
  <1> QED BY <1>5, <1>6, <1>7

(* The first sector holds inode_map and the entries InFirstSector, so that *)
(* a mixture has all of them from the same image.                          *)
LEMMA MixtureNames ==
  ASSUME NEW old, RootNames(old), NEW new, RootNames(new), old \in Images, new \in Images,
         NEW c \in Int, c <= 0 \/ c >= SectSize,
         NEW g, IsMixture(g, old, new, c)
  PROVE  RootNames(g)
  <1>1. Root \in Dirs /\ SectSize \in Nat /\ Slots \subseteq Nat
    BY Indices, SectSizeAssumption
  <1>2. \A s \in Slots : EntryAt(Root, s) \in Nat /\ EntryAt(Root, s) >= NrInode
    BY <1>1, Sizes DEF EntryAt, InodeAt, Root
  <1>3. \A i \in Inodes : i \in Nat /\ i < NrInode
    BY Sizes DEF Inodes
  <1>4. CASE c <= 0
    <2>1. \A s \in FirstSlots : ~(EntryAt(Root, s) < c) /\ ~(EntryAt(Root, s) + 1 < c)
      BY <1>2, <1>4 DEF FirstSlots
    <2>2. \A i \in Inodes : ~(i < c)
      BY <1>3, <1>4
    <2>3. SameRoot(g, old)
      BY <1>1, <2>1, <2>2 DEF IsMixture, SameRoot, FirstSlots
    <2> QED BY <2>3, SameRootNames
  <1>5. CASE c >= SectSize
    <2>1. \A s \in FirstSlots : EntryAt(Root, s) < c /\ EntryAt(Root, s) + 1 < c
      BY <1>1, <1>2, <1>5 DEF InFirstSector, FirstSlots
    <2>2. ASSUME NEW s \in FirstSlots, NEW i \in Inodes
          PROVE  i < c
      <3>1. /\ EntryAt(Root, s) \in Nat /\ EntryAt(Root, s) >= NrInode
            /\ EntryAt(Root, s) + 1 < SectSize
        BY <1>2, <2>2 DEF InFirstSector, FirstSlots
      <3> QED BY <1>1, <1>3, <1>5, <3>1, Sizes
    <2>3. SameRoot(g, new)
      BY <1>1, <2>1, <2>2 DEF IsMixture, SameRoot, FirstSlots
    <2> QED BY <2>3, SameRootNames
  <1> QED BY <1>4, <1>5

(* The installed image. *)
LEMMA ImageSound == Sound(Image)
  <1>1. ASSUME NEW s \in InUse(Image, Root), s > 1,
               Image.dirdata[Root][s].inode_no \in Dirs
        PROVE  Image.dirdata[Root][s].inode_no = s - 1
    <2>1. s \in Slots /\ s \in Nat /\ Root \in Dirs /\ s # 0 /\ s # 1
      BY <1>1, Indices, InUseFinite
    <2>2. Image.dirdata[Root][s] = IF s - 1 \in Dirs THEN Entry(SubDirs[s - 1], s - 1) ELSE Free
      BY <2>1 DEF Image
    <2>3. s - 1 \in Dirs
      <3>1. Image.dirdata[Root][s].filename # ""
        BY <1>1, Zenon DEF InUse
      <3>2. Free.filename = ""
        BY DEF Free
      <3> QED BY <2>2, <3>1, <3>2, Zenon
    <2> QED BY <2>2, <2>3 DEF Entry
  <1> QED BY <1>1, ImageConsistent DEF Sound, SubdirsInPlace

(* A new entry is a file's, and the entries still in use are as they were. *)
LEMMA AddedEntries ==
  ASSUME NEW f, NEW g, NEW d, NEW x, NEW n, NEW name, Added(f, g, d, x, n, name),
         NEW e \in Dirs, NEW s \in Slots
  PROVE  \/ g.dirdata[e][s] = f.dirdata[e][s]
         \/ g.dirdata[e][s].inode_no \in Inodes \ Dirs
  <1>1. Entry(name, n).inode_no = n /\ n \in Inodes \ Dirs
    BY DEF Added, Entry
  <1>2. g.dirdata[e][s] = IF e = d /\ s = x THEN Entry(name, n) ELSE f.dirdata[e][s]
    BY DEF Added
  <1>3. g.dirdata[e][s] = Entry(name, n) \/ g.dirdata[e][s] = f.dirdata[e][s]
    BY <1>2, Zenon
  <1> QED BY <1>1, <1>3, Zenon

LEMMA DroppedEntries ==
  ASSUME NEW f, NEW g, NEW d, NEW S, NEW n, Dropped(f, g, d, S, n),
         NEW e \in Dirs, NEW s \in Slots, g.dirdata[e][s].filename # ""
  PROVE  g.dirdata[e][s] = f.dirdata[e][s]
  <1>1. Free.filename = ""
    BY DEF Free
  <1>2. g.dirdata[e][s] = IF e = d /\ s \in S THEN Free ELSE f.dirdata[e][s]
    BY DEF Dropped
  <1>3. g.dirdata[e][s] = Free \/ g.dirdata[e][s] = f.dirdata[e][s]
    BY <1>2, Zenon
  <1> QED BY <1>1, <1>3, Zenon

(* The calls of the programs keep it. *)
LEMMA FileStepSound ==
  ASSUME IInv, FileStep, FilesOnly, Sound(fs)
  PROVE  Sound(fs')
  <1>1. WellFormed(fs) /\ Consistent(fs)
    BY DEF IInv, Sound
  <1>2. ASSUME NEW path \in Paths, CreateFile(path)
        PROVE  Sound(fs')
    <2>1. MayMake(fs, path) /\ fs' = makeFL(fs, path) /\ ~isFLExist(fs, path) /\ Creates(path)
      BY <1>1, <1>2, CreateFileAdds
    <2>2. Consistent(fs')
      BY <1>1, <2>1, MakeConsistent DEF FilesOnly
    <2>3. SubdirsInPlace(fs')
      <3>1. ASSUME NEW s \in InUse(fs', Root), s > 1,
                   fs'.dirdata[Root][s].inode_no \in Dirs
            PROVE  fs'.dirdata[Root][s].inode_no = s - 1
        <4>1. s \in Slots /\ Root \in Dirs
          BY Indices DEF InUse
        <4>2. \/ fs'.dirdata[Root][s] = fs.dirdata[Root][s]
              \/ fs'.dirdata[Root][s].inode_no \in Inodes \ Dirs
          BY <2>1, <4>1, AddedEntries DEF Creates
        <4>3. fs'.dirdata[Root][s] = fs.dirdata[Root][s]
          BY <3>1, <4>2
        <4>4. s \in InUse(fs, Root)
          BY <4>1, <4>3 DEF InUse
        <4> QED BY <3>1, <4>3, <4>4 DEF Sound, SubdirsInPlace
      <3> QED BY <3>1 DEF SubdirsInPlace
    <2> QED BY <2>2, <2>3 DEF Sound
  <1>3. ASSUME NEW path \in Paths, RemoveFile(path)
        PROVE  Sound(fs')
    <2>1. fs' = rmFL(fs, path) /\ findUpperDirPos(fs, path) # -1 /\ Removes(path)
      BY <1>1, <1>3, RemoveFileDrops
    <2>2. Consistent(fs')
      BY <1>1, <2>1, PathsArePaths, RemoveConsistent DEF FilesOnly
    <2>3. SubdirsInPlace(fs')
      <3>1. ASSUME NEW s \in InUse(fs', Root), s > 1,
                   fs'.dirdata[Root][s].inode_no \in Dirs
            PROVE  fs'.dirdata[Root][s].inode_no = s - 1
        <4>1. s \in Slots /\ Root \in Dirs /\ fs'.dirdata[Root][s].filename # ""
          BY Indices DEF InUse
        <4>2. fs'.dirdata[Root][s] = fs.dirdata[Root][s]
          BY <2>1, <4>1, DroppedEntries, ZenonT(60) DEF Removes
        <4>3. s \in InUse(fs, Root)
          BY <4>1, <4>2 DEF InUse
        <4> QED BY <3>1, <4>2, <4>3 DEF Sound, SubdirsInPlace
      <3> QED BY <3>1 DEF SubdirsInPlace
    <2> QED BY <2>2, <2>3 DEF Sound
  <1>4. ASSUME NEW path \in Paths, NEW len \in Lens, WriteFile(path, len)
        PROVE  Sound(fs')
    <2>1. Writes
      BY <1>1, <1>4, WriteFileWrites
    <2>2. PICK i \in Inodes \ Dirs, l \in Int : fs' = writeF(fs, i, l, 0)
      BY <2>1 DEF Writes
    <2>3. l \in Int /\ 0 \in Int
      OBVIOUS
    <2>4. Consistent(fs')
      BY <1>1, <2>2, <2>3, WriteConsistent
    <2>5. fs'.dirdata = fs.dirdata /\ InUse(fs', Root) = InUse(fs, Root)
      BY <1>1, <2>1, WritesKeeps, Indices
    <2>6. SubdirsInPlace(fs')
      BY <2>5 DEF Sound, SubdirsInPlace
    <2> QED BY <2>4, <2>6 DEF Sound
  <1> QED BY <1>2, <1>3, <1>4 DEF FileStep

(***************************************************************************)
(* Up to the first power loss within a writeBack both images are sound;    *)
(* right after it the names in the first sector are.                       *)
(***************************************************************************)
RInv ==
  /\ torn = "no" => Sound(saved) /\ (power => Sound(fs))
  /\ torn = "now" => ~power /\ RootNames(saved)

(* What the disk holds in the middle of a writeBack. *)
LEMMA LoadedNames ==
  ASSUME IInv, RInv, torn # "past"
  PROVE  RootNames(LoadFS(disk))
  <1>1. torn = "no" \/ torn = "now"
    BY DEF IInv
  <1>2. CASE section = -1
    <2>1. LoadFS(disk) = saved
      BY <1>2, LoadedNext
    <2> QED BY <1>1, <2>1, SoundNames DEF RInv
  <1>3. CASE section # -1
    <2>1. power /\ torn = "no"
      BY <1>1, <1>3 DEF IInv, RInv
    <2>2. RootNames(saved) /\ RootNames(fs) /\ saved \in Images /\ fs \in Images
      BY <2>1, SoundNames DEF RInv, IInv, WellFormed
    <2>3. IsMixture(LoadFS(disk), saved, fs, Progress) /\ Progress \in Int
      BY LoadedNext, ProgressProperties DEF IInv
    <2>4. Progress <= 0 \/ Progress >= SectSize
      <3>1. /\ section \in Nat /\ FirstSection(FsOffset) \in Nat /\ SectSize \in Nat
            /\ FsOffset \in Nat /\ section >= FirstSection(FsOffset)
            /\ FsOffset = FirstSection(FsOffset) * SectSize
            /\ Progress = section * SectSize - FsOffset
        BY <1>3, Sectors, SectSizeAssumption DEF IInv, Progress
      <3>2. CASE section = FirstSection(FsOffset)
        BY <3>1, <3>2
      <3>3. CASE FirstSection(FsOffset) < section
        <4>1. FirstSection(FsOffset) * SectSize + SectSize <= section * SectSize
          BY <3>1, <3>3, PiecesInOrder
        <4>2. section * SectSize \in Nat
          BY <3>1
        <4> QED BY <3>1, <4>1, <4>2
      <3> QED BY <3>1, <3>2, <3>3
    <2> QED BY <2>2, <2>3, <2>4, MixtureNames
  <1> QED BY <1>2, <1>3

(* The steps keep this part of the invariant. *)
LEMMA NextNames ==
  ASSUME IInv, RInv, FilesOnly, [Next]_vars
  PROVE  RInv'
  <1>1. CASE PowerOn
    <2>1. /\ saved' = saved /\ fs' = saved /\ torn' = (IF torn = "no" THEN "no" ELSE "past")
      BY <1>1, PowerOnInv DEF PowerOn
    <2> QED BY <2>1 DEF RInv
  <1>2. CASE PowerOff
    <2>1. /\ power /\ power' = FALSE /\ saved' = LoadFS(disk)
          /\ torn' = IF section # -1 /\ torn = "no" THEN "now" ELSE torn
      BY <1>2 DEF PowerOff
    <2>2. torn # "now"
      BY <2>1 DEF RInv
    <2>3. CASE torn = "no" /\ section = -1
      BY <2>1, <2>3, LoadedNext DEF RInv
    <2>4. CASE torn = "no" /\ section # -1
      <3>1. RootNames(saved')
        BY <2>1, <2>4, LoadedNames
      <3> QED BY <2>1, <2>4, <3>1 DEF RInv
    <2>5. CASE torn # "no"
      BY <2>1, <2>2, <2>5 DEF RInv
    <2> QED BY <2>3, <2>4, <2>5
  <1>3. CASE Exit
    BY <1>3 DEF Exit, RInv
  <1>4. CASE WriteSect
    <2>1. power /\ power' = power /\ fs' = fs /\ torn' = torn
      BY <1>4 DEF WriteSect
    <2>2. saved' = saved \/ saved' = fs
      BY <1>4, WriteSectInv
    <2> QED BY <2>1, <2>2 DEF RInv
  <1>5. CASE FileStep
    <2>1. power /\ power' = power /\ saved' = saved /\ torn' = torn
      BY <1>5, FileStepInv
    <2>2. torn = "no" => Sound(fs')
      BY <1>5, <2>1, FileStepSound DEF RInv
    <2> QED BY <2>1, <2>2 DEF RInv
  <1>6. CASE UNCHANGED vars
    BY <1>6 DEF vars, RInv
  <1> QED BY <1>1, <1>2, <1>3, <1>4, <1>5, <1>6, NextCases

(***************************************************************************)
(* After a first power loss, at any sector of a writeBack, the root        *)
(* entries in the image's first sector name inodes in use, each its own.   *)
(***************************************************************************)
THEOREM FirstSectorNamesSurvive == FilesOnly /\ Spec => []RootNamesSurvive
  <1> SUFFICES ASSUME FilesOnly PROVE Spec => []RootNamesSurvive
    OBVIOUS
  <1>1. Init => RInv
    BY ImageSound DEF Init, RInv
  <1>2. IInv /\ RInv /\ [Next]_vars => RInv'
    BY NextNames
  <1>3. IInv /\ RInv => RootNamesSurvive
    <2> SUFFICES ASSUME IInv, RInv, torn # "past"
                 PROVE  \A s \in {x \in InUse(LoadFS(disk), Root) : InFirstSector(x) /\ x > 1} :
                          /\ LoadFS(disk).inode_map[LoadFS(disk).dirdata[Root][s].inode_no]
                          /\ \A t \in {x \in InUse(LoadFS(disk), Root) :
                                         InFirstSector(x) /\ x > 1} \ {s} :
                               LoadFS(disk).dirdata[Root][t].inode_no
                                 # LoadFS(disk).dirdata[Root][s].inode_no
      BY DEF RootNamesSurvive
    <2>1. RootNames(LoadFS(disk))
      BY LoadedNames
    <2> QED BY <2>1 DEF RootNames
  <1> QED BY <1>1, <1>2, <1>3, InductiveImage, PTL DEF Spec

-----------------------------------------------------------------------------
(***************************************************************************)
(* The user program in memory.                                             *)
(***************************************************************************)
InPlace(mem, ph) ==
  \A o \in 0 .. ph.memsz - 1 :
    mem[ph.paddr + o] = IF o < ph.filesz THEN Program[UserOffset + ph.off + o] ELSE 0

HasProgram(d) == \A b \in 0 .. FsOffset - 1 : d[b] = Program[b]

(* The program headers. *)
LEMMA Headers ==
  ASSUME NEW i \in Loaded
  PROVE  LET ph == Segments[i] IN
         /\ i \in 1 .. Len(Segments)
         /\ ph.off \in Nat /\ ph.paddr \in Nat /\ ph.filesz \in Nat /\ ph.memsz \in Nat
         /\ ph.filesz <= ph.memsz /\ UserOffset + ph.off + ph.filesz <= FsOffset
         /\ Span(ph) \subseteq UserMemory
  <1>1. i \in 1 .. Len(Segments)
    BY DEF Loaded
  <1>2. Segments[i] \in [type : STRING, off : Nat, paddr : Nat, filesz : Nat, memsz : Nat]
    BY <1>1, SegmentsAssumption, ElementOfSeq
  <1> QED BY <1>1, <1>2, SegmentsAssumption

(***************************************************************************)
(* One turn of loadUMain: the segment is in memory, and nothing else has   *)
(* changed but what readBytes spills.                                      *)
(***************************************************************************)
LEMMA SegmentInPlace ==
  ASSUME NEW i \in Loaded, NEW mem, DOMAIN mem = UserMemory, NEW d, HasProgram(d),
         NEW ph, ph = Segments[i], NEW new, new = LoadSegment(mem, d, UserOffset, ph)
  PROVE  /\ DOMAIN new = UserMemory
         /\ InPlace(new, ph)
         /\ \A a \in UserMemory : a \notin Spill(ph) \cup Span(ph) => new[a] = mem[a]
  <1> DEFINE at == UserOffset + ph.off
             r == readBytes(mem, d, ph.paddr, at, ph.filesz)
             start == SteppedBack(ph.paddr, at)
  <1>1. /\ ph.off \in Nat /\ ph.paddr \in Nat /\ ph.filesz \in Nat /\ ph.memsz \in Nat
        /\ ph.filesz <= ph.memsz /\ UserOffset + ph.off + ph.filesz <= FsOffset
        /\ Span(ph) \subseteq UserMemory
    BY Headers
  <1>2. /\ SectSize \in Nat \ {0} /\ UserOffset \in Nat /\ UserMemory \subseteq Nat
        /\ FsOffset \in Nat /\ at \in Nat
    <2>1. SectSize \in Nat \ {0} /\ FsOffset \in Nat
      BY SectSizeAssumption, Sectors
    <2>2. UserOffset \in Nat /\ UserMemory \subseteq Nat
      BY SegmentsAssumption
    <2>3. at \in Nat
      BY <1>1, <2>2
    <2> QED BY <2>1, <2>2, <2>3
  <1>3. /\ DOMAIN r = UserMemory
        /\ \A a \in UserMemory :
             r[a] = IF Transferred(a, ph.paddr, at, ph.filesz)
                    THEN d[SectionStart(at) + (a - start)] ELSE mem[a]
    BY DEF readBytes
  <1>4. new = mem_set(r, ph.paddr + ph.filesz, ph.paddr + ph.memsz, 0)
    BY DEF LoadSegment
  <1>5. /\ start = ph.paddr - (at % SectSize) /\ start \in Int
        /\ at % SectSize \in 0 .. SectSize - 1
        /\ SectionStart(at) \in Int
        /\ at = SectionStart(at) + (at % SectSize)
    <2>0. start = SteppedBack(ph.paddr, at) /\ at \in Int
      BY <1>2
    <2> HIDE DEF at, start
    <2>1. at \div SectSize \in Int /\ at % SectSize \in 0 .. SectSize - 1
      BY <1>2
    <2>2. at = (at \div SectSize) * SectSize + (at % SectSize)
      BY <1>2, <2>0, Division
    <2>3. SectionStart(at) = (at \div SectSize) * SectSize
      BY DEF SectionStart, Section
    <2>4. (at \div SectSize) * SectSize \in Int
      BY <1>2, <2>1
    <2>5. start = ph.paddr - (at % SectSize)
      BY <2>0 DEF SteppedBack
    <2> QED BY <1>1, <2>1, <2>2, <2>3, <2>4, <2>5
  <1> HIDE DEF r
  <1>6. /\ DOMAIN new = UserMemory
        /\ \A a \in UserMemory :
             new[a] = IF ph.paddr + ph.filesz <= a /\ a < ph.paddr + ph.memsz THEN 0 ELSE r[a]
    BY <1>3, <1>4 DEF mem_set
  <1>7. \A a \in UserMemory : a \in Spill(ph) <=> Transferred(a, ph.paddr, at, ph.filesz)
    BY DEF Spill
  <1> HIDE DEF at, start
  <1>8. ASSUME NEW o \in 0 .. ph.memsz - 1
        PROVE  new[ph.paddr + o]
                 = IF o < ph.filesz THEN Program[UserOffset + ph.off + o] ELSE 0
    <2> DEFINE a == ph.paddr + o
    <2>1. a \in ph.paddr .. ph.paddr + ph.memsz - 1 /\ o \in Nat /\ a \in Nat
      BY <1>1
    <2>2. a \in UserMemory
      BY <1>1, <2>1 DEF Span
    <2>3. CASE o < ph.filesz
      <3>1. ~(ph.paddr + ph.filesz <= a /\ a < ph.paddr + ph.memsz)
        BY <1>1, <2>1, <2>3
      <3>2. Transferred(a, ph.paddr, at, ph.filesz)
        <4>1. a - start \in Int /\ a - start >= 0
          BY <1>1, <1>5, <2>1
        <4>2. /\ (a - start) \div SectSize \in Int
              /\ (a - start) % SectSize \in 0 .. SectSize - 1
              /\ a - start = ((a - start) \div SectSize) * SectSize + ((a - start) % SectSize)
          BY <1>2, <4>1, Division
        <4>3. ((a - start) \div SectSize) * SectSize \in Int
          BY <1>2, <4>2
        <4> DEFINE q == ((a - start) \div SectSize) * SectSize
        <4>4. q \in Int /\ q <= a - start
          BY <1>2, <4>1, <4>2, <4>3
        <4>5. TurnStart(a, start) = start + q
          BY DEF TurnStart
        <4> HIDE DEF q
        <4>6. TurnStart(a, start) < ph.paddr + ph.filesz /\ a >= start
          BY <1>1, <1>5, <2>1, <2>3, <4>1, <4>4, <4>5
        <4> QED BY <4>6 DEF Transferred, start
      <3>3. SectionStart(at) + (a - start) = UserOffset + ph.off + o
        <4>1. at = UserOffset + ph.off
          BY DEF at
        <4> QED BY <1>1, <1>2, <1>5, <2>1, <4>1
      <3>4. UserOffset + ph.off + o \in 0 .. FsOffset - 1
        BY <1>1, <1>2, <2>1, <2>3
      <3>5. new[a] = r[a]
        BY <1>6, <2>2, <3>1
      <3>6. r[a] = d[SectionStart(at) + (a - start)]
        BY <1>3, <2>2, <3>2
      <3>7. d[UserOffset + ph.off + o] = Program[UserOffset + ph.off + o]
        BY <3>4 DEF HasProgram
      <3> QED BY <2>3, <3>3, <3>5, <3>6, <3>7
    <2>4. CASE ~(o < ph.filesz)
      <3>1. ph.paddr + ph.filesz <= a /\ a < ph.paddr + ph.memsz
        BY <1>1, <2>1, <2>4
      <3> QED BY <1>6, <2>2, <2>4, <3>1
    <2> QED BY <2>3, <2>4
  <1>9. ASSUME NEW a \in UserMemory, a \notin Spill(ph) \cup Span(ph)
        PROVE  new[a] = mem[a]
    <2>1. ~(ph.paddr + ph.filesz <= a /\ a < ph.paddr + ph.memsz)
      BY <1>1, <1>2, <1>9 DEF Span
    <2>2. ~Transferred(a, ph.paddr, at, ph.filesz)
      BY <1>7, <1>9
    <2> QED BY <1>3, <1>6, <2>1, <2>2
  <1>10. InPlace(new, ph)
    BY <1>8 DEF InPlace
  <1> QED BY <1>6, <1>9, <1>10

(* A segment stays in place when a later one is loaded. *)
LEMMA SegmentStays ==
  ASSUME NEW i \in Loaded, NEW j \in Loaded, j < i, NEW mem, NEW new,
         InPlace(mem, Segments[j]),
         \A a \in UserMemory :
           a \notin Spill(Segments[i]) \cup Span(Segments[i]) => new[a] = mem[a]
  PROVE  InPlace(new, Segments[j])
  <1> DEFINE ph == Segments[j]
  <1>1. /\ ph.paddr \in Nat /\ ph.memsz \in Nat /\ Span(ph) \subseteq UserMemory
    BY Headers
  <1>2. (Spill(Segments[i]) \cup Span(Segments[i])) \cap Span(ph) = {}
    BY SegmentsAssumption
  <1> HIDE DEF ph
  <1>3. \A o \in 0 .. ph.memsz - 1 : ph.paddr + o \in Span(ph)
    BY <1>1 DEF Span
  <1>4. \A o \in 0 .. ph.memsz - 1 : new[ph.paddr + o] = mem[ph.paddr + o]
    BY <1>1, <1>2, <1>3
  <1>5. InPlace(mem, ph)
    BY DEF ph
  <1>6. InPlace(new, ph)
    BY <1>4, <1>5 DEF InPlace
  <1> QED BY <1>6 DEF ph

(***************************************************************************)
(* loadUMain: after the last header every segment is in its place.  (The   *)
(* recursive function is shown to exist as in WalkProperties.)             *)
(***************************************************************************)
LEMMA LoadInPlace ==
  ASSUME NEW mem, DOMAIN mem = UserMemory, NEW d, HasProgram(d)
  PROVE  \A i \in Loaded : InPlace(Load(mem, d, UserOffset, Segments), Segments[i])
  <1> DEFINE n == Len(Segments)
             Step(g, k) == IF k = 0 THEN mem
                           ELSE IF Segments[k].type = "PT_LOAD"
                                THEN LoadSegment(g[k - 1], d, UserOffset, Segments[k])
                           ELSE g[k - 1]
             Eqn(g) == g = [k \in 0 .. n |-> Step(g, k)]
             F == CHOOSE g : Eqn(g)
  <1>1. n \in Nat /\ Loaded \subseteq 1 .. n
    BY SegmentsAssumption, LenProperties DEF Loaded
  <1>2. Load(mem, d, UserOffset, Segments) = F[n]
    BY DEF Load
  <1>3. \A k \in 1 .. n : k \in Loaded <=> Segments[k].type = "PT_LOAD"
    BY DEF Loaded
  <1> HIDE DEF n, Step
  <1> DEFINE Upto(g, m) == \A k \in 0 .. m : g[k] = Step(g, k)
             Bad == {m \in 0 .. n : ~\E g : Upto(g, m)}
  <1>4. Bad = {}
    <2> SUFFICES ASSUME Bad # {} PROVE FALSE
      OBVIOUS
    <2>1. Bad \in SUBSET Nat
      BY <1>1
    <2> HIDE DEF Bad
    <2>2. PICK m \in Bad : \A k \in Bad : m <= k
      BY <2>1, LeastNat
    <2>3. m \in 0 .. n /\ m \in Nat /\ ~\E g : Upto(g, m)
      BY <1>1, <2>2 DEF Bad
    <2>4. PICK g : \A k \in 0 .. m - 1 : g[k] = Step(g, k)
      <3>1. CASE m = 0
        <4>1. \A k \in 0 .. m - 1 : FALSE
          BY <3>1
        <4> QED BY <4>1
      <3>2. CASE m > 0
        <4>1. m - 1 \in 0 .. n /\ m - 1 \notin Bad
          BY <1>1, <2>1, <2>2, <2>3, <3>2
        <4> QED BY <4>1 DEF Bad
      <3> QED BY <2>3, <3>1, <3>2
    <2> DEFINE h == [k \in 0 .. n |-> IF k = m THEN Step(g, m) ELSE g[k]]
    <2>5. h[m] = Step(g, m) /\ \A k \in 0 .. n : k # m => h[k] = g[k]
      BY <2>3
    <2> HIDE DEF h
    <2>6. ASSUME NEW k \in 0 .. m
          PROVE  h[k] = Step(h, k)
      <3>1. k \in 0 .. n /\ k \in Nat /\ k <= m /\ (k # m => k \in 0 .. m - 1)
        BY <1>1, <2>3
      <3>2. k # 0 => k - 1 \in 0 .. n /\ k - 1 # m
        BY <1>1, <2>3, <3>1
      <3>3. k # 0 => h[k - 1] = g[k - 1]
        BY <2>5, <3>2
      <3>4. Step(h, k) = Step(g, k)
        BY <3>3 DEF Step
      <3> QED BY <2>4, <2>5, <3>1, <3>4
    <2> QED BY <2>3, <2>6
  <1>5. \E g : Eqn(g)
    <2>1. n \in 0 .. n
      BY <1>1
    <2>2. PICK g : Upto(g, n)
      BY <1>4, <2>1
    <2> DEFINE h == [k \in 0 .. n |-> g[k]]
    <2>3. \A k \in 0 .. n : Step(h, k) = g[k]
      <3> TAKE k \in 0 .. n
      <3>1. k # 0 => k - 1 \in 0 .. n
        BY <1>1
      <3>2. k # 0 => h[k - 1] = g[k - 1]
        BY <3>1
      <3> HIDE DEF h
      <3>3. Step(h, k) = Step(g, k)
        BY <3>2 DEF Step
      <3> QED BY <2>2, <3>3
    <2>4. [k \in 0 .. n |-> Step(h, k)] = [k \in 0 .. n |-> g[k]]
      BY <2>3
    <2>5. Eqn(h)
      BY <2>4
    <2> QED BY <2>5
  <1>6. F = [k \in 0 .. n |-> Step(F, k)]
    BY <1>5
  <1> HIDE DEF F
  <1> DEFINE Good(k) == /\ DOMAIN F[k] = UserMemory
                        /\ \A i \in Loaded : i <= k => InPlace(F[k], Segments[i])
             Off == {k \in 0 .. n : ~Good(k)}
  <1>7. Off = {}
    <2> SUFFICES ASSUME Off # {} PROVE FALSE
      OBVIOUS
    <2>1. Off \in SUBSET Nat
      BY <1>1
    <2> HIDE DEF Off
    <2>2. PICK m \in Off : \A k \in Off : m <= k
      BY <2>1, LeastNat
    <2>3. m \in 0 .. n /\ m \in Nat /\ ~Good(m) /\ F[m] = Step(F, m)
      BY <1>1, <1>6, <2>2 DEF Off
    <2>4. m # 0
      <3>1. SUFFICES ASSUME m = 0 PROVE FALSE
        OBVIOUS
      <3>2. F[m] = mem
        BY <2>3, <3>1 DEF Step
      <3>3. \A i \in Loaded : ~(i <= m)
        BY <1>1, <3>1
      <3> QED BY <2>3, <3>2, <3>3
    <2>5. m \in 1 .. n /\ m - 1 \in 0 .. n /\ m - 1 \notin Off
      BY <1>1, <2>1, <2>2, <2>3, <2>4
    <2>6. Good(m - 1)
      BY <2>5 DEF Off
    <2>7. \A i \in Loaded : i <= m => i = m \/ (i <= m - 1 /\ i < m)
      BY <1>1, <2>3
    <2>8. CASE m \in Loaded
      <3>1. F[m] = LoadSegment(F[m - 1], d, UserOffset, Segments[m])
        BY <1>3, <2>3, <2>4, <2>5, <2>8 DEF Step
      <3>2. /\ DOMAIN F[m] = UserMemory /\ InPlace(F[m], Segments[m])
            /\ \A a \in UserMemory :
                 a \notin Spill(Segments[m]) \cup Span(Segments[m]) => F[m][a] = F[m - 1][a]
        BY <2>6, <2>8, <3>1, SegmentInPlace
      <3>3. ASSUME NEW i \in Loaded, i <= m - 1, i < m
            PROVE  InPlace(F[m], Segments[i])
        BY <2>6, <2>8, <3>2, <3>3, SegmentStays
      <3>4. Good(m)
        BY <2>7, <3>2, <3>3
      <3> QED BY <2>3, <3>4
    <2>9. CASE m \notin Loaded
      <3>1. F[m] = F[m - 1]
        BY <1>3, <2>3, <2>4, <2>5, <2>9 DEF Step
      <3>2. \A i \in Loaded : i <= m => i <= m - 1
        BY <2>7, <2>9
      <3>3. Good(m)
        BY <2>6, <3>1, <3>2
      <3> QED BY <2>3, <3>3
    <2> QED BY <2>8, <2>9
  <1>8. Good(n) /\ \A i \in Loaded : i <= n
    <2>1. n \in 0 .. n /\ \A i \in Loaded : i <= n
      BY <1>1
    <2> QED BY <1>7, <2>1
  <1> QED BY <1>2, <1>8

(* The disk's programs stay, and a start puts the user program in place. *)
MInv == power => \A i \in Loaded : InPlace(memory, Segments[i])

LEMMA DiskHasProgram ==
  ASSUME IInv
  PROVE  HasProgram(disk)
  <1>1. \A b \in 0 .. FsOffset - 1 : b \in 0 .. FsOffset + FsSize - 1 /\ b < FsOffset
    BY Sectors, Sizes
  <1>2. disk = DiskOf(saved, fs, Progress)
    BY DEF IInv
  <1>3. \A b \in 0 .. FsOffset - 1 : DiskOf(saved, fs, Progress)[b] = Program[b]
    BY <1>1 DEF DiskOf
  <1> QED BY <1>2, <1>3 DEF HasProgram

LEMMA NextMemory ==
  ASSUME IInv, MInv, [Next]_vars
  PROVE  MInv'
  <1>1. CASE PowerOn
    <2>1. memory' = Load([a \in UserMemory |-> -1], disk, UserOffset, Segments)
      BY <1>1 DEF PowerOn
    <2>2. \A i \in Loaded :
            InPlace(Load([a \in UserMemory |-> -1], disk, UserOffset, Segments), Segments[i])
      <3> DEFINE mem == [a \in UserMemory |-> -1]
      <3>1. DOMAIN mem = UserMemory
        OBVIOUS
      <3> HIDE DEF mem
      <3>2. \A i \in Loaded : InPlace(Load(mem, disk, UserOffset, Segments), Segments[i])
        BY <3>1, DiskHasProgram, LoadInPlace
      <3> QED BY <3>2 DEF mem
    <2>3. \A i \in Loaded : InPlace(memory', Segments[i])
      BY <2>1, <2>2
    <2> QED BY <2>3 DEF MInv, InPlace
  <1>2. CASE PowerOff
    BY <1>2 DEF PowerOff, MInv
  <1>3. CASE Exit \/ WriteSect
    <2>1. power' = power /\ memory' = memory
      BY <1>3 DEF Exit, WriteSect
    <2> QED BY <2>1 DEF MInv
  <1>4. CASE FileStep
    <2>1. power' = power /\ memory' = memory
      BY <1>4, FileStepInv
    <2> QED BY <2>1 DEF MInv
  <1>5. CASE UNCHANGED vars
    BY <1>5 DEF vars, MInv
  <1> QED BY <1>1, <1>2, <1>3, <1>4, <1>5, NextCases

(***************************************************************************)
(* The user program is in memory as its file has it, the parts without     *)
(* file contents 0; and no writeBack touches the programs on the disk      *)
(* (loadUMain, readBytes, mem_set, writeBytes).                            *)
(***************************************************************************)
THEOREM ProgramIsKept == Spec => []ProgramKept
  <1>1. Init => MInv
    BY DEF Init, MInv
  <1>2. IInv /\ MInv /\ [Next]_vars => MInv'
    BY NextMemory
  <1>3. IInv /\ MInv => ProgramKept
    <2> SUFFICES ASSUME IInv, MInv PROVE ProgramKept
      OBVIOUS
    <2>1. \A b \in DOMAIN Program : disk[b] = Program[b]
      BY DiskHasProgram DEF HasProgram, Program
    <2> QED BY <2>1 DEF ProgramKept, MInv, InPlace
  <1> QED BY <1>1, <1>2, <1>3, InductiveImage, PTL DEF Spec

=============================================================================
