-------------------------- MODULE FileSystemProofs --------------------------
(***************************************************************************)
(* What the functions of kernel/kernel/fs.c do to an image.  Two           *)
(* conditions on an image, and a lemma for each function that changes it:  *)
(* WellFormed is kept whatever the paths are, Consistent when the paths    *)
(* name files (FileName).                                                  *)
(***************************************************************************)
EXTENDS FileSystem, KernelListsProofs

\* No prover knows that a literal is a STRING, so the literals are added.
FileNames == STRING \cup {"", ".", "..", "/"}
Kinds == {"UNUSED", "FL", "DIR"}
Images == [inode_map : [Inodes -> BOOLEAN],
           type      : [Inodes -> Kinds],
           size      : [Inodes -> Nat],
           filename  : [Inodes -> FileNames],
           dirdata   : [Dirs -> [Slots -> [filename : FileNames, inode_no : Inodes]]]]

\* The directories stay what they are, and filenum counts at least the entries.
WellFormed(f) ==
  /\ f \in Images
  /\ \A i \in Inodes : f.type[i] = "DIR" <=> i \in Dirs
  /\ \A d \in Dirs : f.inode_map[d]
  /\ \A d \in Dirs : Cardinality(InUse(f, d)) <= f.size[d]

APath(path) == path \in Seq(STRING) \ {<< >>}

-----------------------------------------------------------------------------
(* First of a set of natural numbers is the least, or -1 for none. *)
LEMMA FirstProperties ==
  ASSUME NEW S \in SUBSET Nat
  PROVE  /\ First(S) = -1 <=> S = {}
         /\ S # {} => First(S) \in S /\ \A y \in S : First(S) <= y
  <1>1. CASE S = {}
    BY <1>1 DEF First
  <1>2. CASE S # {}
    <2>1. Min(S) \in S /\ (\A y \in S : Min(S) <= y) /\ Min(S) \in Nat
      BY <1>2, MinNat
    <2> QED BY <1>2, <2>1 DEF First
  <1> QED BY <1>1, <1>2

(* A remainder, of a number in range and of the negative of one. *)
LEMMA Remainder ==
  ASSUME NEW m \in Nat, NEW n \in Int
  PROVE  n % (2 * m + 2) \in 0 .. 2 * m + 1
  OBVIOUS
LEMMA OwnRemainder ==
  ASSUME NEW m \in Nat, NEW n \in 0 .. 2 * m + 1
  PROVE  n % (2 * m + 2) = n
  OBVIOUS
LEMMA WrappedRemainder ==
  ASSUME NEW m \in Nat, NEW n \in -m - 1 .. -1
  PROVE  n % (2 * m + 2) = n + (2 * m + 2)
  OBVIOUS

(* What is stored in an int or in filesz is one, and itself if it fits. *)
LEMMA Wrapping ==
  /\ IntMax \in Nat /\ MaxFile \in Nat \ {0} /\ MaxFile <= IntMax
  /\ \A n \in Int : Unsigned(n) \in 0 .. 2 * IntMax + 1 /\ Signed(n) \in Ints
  /\ \A n \in 0 .. 2 * IntMax + 1 : Unsigned(n) = n
  /\ \A n \in Ints : Signed(n) = n
  <1>1. IntMax \in Nat /\ MaxFile \in Nat \ {0} /\ MaxFile <= IntMax
    BY ImageAssumption
  <1>2. ASSUME NEW n \in Int PROVE Unsigned(n) \in 0 .. 2 * IntMax + 1 /\ Signed(n) \in Ints
    <2>1. Unsigned(n) \in 0 .. 2 * IntMax + 1
      BY <1>1, Remainder DEF Unsigned
    <2> QED BY <1>1, <2>1 DEF Signed, Ints
  <1>3. \A n \in 0 .. 2 * IntMax + 1 : Unsigned(n) = n
    BY <1>1, OwnRemainder DEF Unsigned
  <1>4. ASSUME NEW n \in Ints PROVE Signed(n) = n
    <2>1. CASE n \in 0 .. IntMax
      <3>1. n \in 0 .. 2 * IntMax + 1
        BY <1>1, <2>1
      <3>2. Unsigned(n) = n
        BY <1>3, <3>1
      <3> QED BY <2>1, <3>2 DEF Signed
    <2>2. CASE n \in -IntMax - 1 .. -1
      <3>1. Unsigned(n) = n + (2 * IntMax + 2)
        BY <1>1, <2>2, WrappedRemainder DEF Unsigned
      <3> QED BY <1>1, <2>2, <3>1 DEF Signed
    <2> QED BY <1>1, <2>1, <2>2 DEF Ints
  <1> QED BY <1>1, <1>2, <1>3, <1>4

(* The numbers of inodes, directories and entries. *)
LEMMA Indices ==
  /\ Dirs \subseteq Inodes /\ Inodes \subseteq Nat /\ Slots \subseteq Nat
  /\ Root \in Dirs
  /\ IsFiniteSet(Slots) /\ IsFiniteSet(Inodes)
  /\ -1 \notin Inodes /\ -1 \notin Slots
  <1>1. /\ Len(SubDirs) \in Nat /\ NrInode \in Nat /\ NrEntry \in Nat
        /\ Len(SubDirs) < NrInode
        /\ 0 \in Int /\ NrEntry - 1 \in Int /\ NrInode - 1 \in Int
    BY ImageAssumption, LenProperties
  <1>2. IsFiniteSet(0 .. NrEntry - 1) /\ IsFiniteSet(0 .. NrInode - 1)
    BY <1>1, FS_Interval
  <1> QED BY <1>1, <1>2 DEF Dirs, Inodes, Slots, Root

(* The entries in use are among the slots of the directory. *)
LEMMA InUseFinite ==
  ASSUME NEW f, NEW d
  PROVE  /\ IsFiniteSet(InUse(f, d)) /\ InUse(f, d) \subseteq Slots
         /\ InUse(f, d) \in SUBSET Nat
         /\ Cardinality(InUse(f, d)) \in Nat
  <1>1. InUse(f, d) \in SUBSET Slots
    BY DEF InUse
  <1> QED BY <1>1, Indices, FS_Subset, FS_CardinalityType

(***************************************************************************)
(* A search that counts filenum entries reaches every entry in use, when   *)
(* filenum is at least their number.                                       *)
(***************************************************************************)
LEMMA SearchReachesAll ==
  ASSUME NEW f, WellFormed(f), NEW d \in Dirs
  PROVE  Searched(f, d) = InUse(f, d)
  <1> DEFINE U == InUse(f, d)
             Before(s) == {t \in U : t < s}
  <1>1. IsFiniteSet(U) /\ U \in SUBSET Nat /\ Cardinality(U) \in Nat
    BY InUseFinite
  <1>2. Cardinality(U) <= f.size[d] /\ f.size[d] \in Nat
    BY Indices DEF WellFormed, Images
  <1> HIDE DEF U
  <1>3. ASSUME NEW s \in U
        PROVE  Cardinality(Before(s)) < f.size[d]
    <2>1. Before(s) \in SUBSET U /\ Before(s) # U
      BY <1>1, <1>3
    <2>2. /\ IsFiniteSet(Before(s))
          /\ Cardinality(Before(s)) <= Cardinality(U)
          /\ Cardinality(U) # Cardinality(Before(s))
      BY <1>1, <2>1, FS_Subset
    <2>3. Cardinality(Before(s)) \in Nat
      BY <2>2, FS_CardinalityType
    <2> QED BY <1>1, <1>2, <2>2, <2>3
  <1>4. Searched(f, d) = {s \in U : Cardinality(Before(s)) < f.size[d]}
    BY DEF Searched, U
  <1>5. Searched(f, d) = U
    BY <1>3, <1>4
  <1> QED BY <1>5 DEF U

\* The entries of directory d with that name and type.
Matching(f, d, name, type) ==
  {s \in InUse(f, d) : /\ f.dirdata[d][s].filename = name
                      /\ f.type[f.dirdata[d][s].inode_no] = type}

(* Lookup returns the inode of the first matching entry, or -1. *)
LEMMA LookupProperties ==
  ASSUME NEW f, WellFormed(f), NEW d \in Dirs, NEW name, NEW type
  PROVE  /\ Lookup(f, d, name, type) = -1 <=> Matching(f, d, name, type) = {}
         /\ Matching(f, d, name, type) # {} =>
              \E s \in Matching(f, d, name, type) :
                /\ \A t \in Matching(f, d, name, type) : s <= t
                /\ Lookup(f, d, name, type) = f.dirdata[d][s].inode_no
                /\ Lookup(f, d, name, type) \in Inodes
                /\ f.type[Lookup(f, d, name, type)] = type
  <1> DEFINE M == Matching(f, d, name, type)
  <1>1. M = {s \in Searched(f, d) : /\ f.dirdata[d][s].filename = name
                                   /\ f.type[f.dirdata[d][s].inode_no] = type}
    BY SearchReachesAll DEF Matching
  <1>2. M \in SUBSET Slots /\ M \in SUBSET Nat
    BY InUseFinite DEF Matching
  <1>3. \A s \in M : f.dirdata[d][s].inode_no \in Inodes /\ f.type[f.dirdata[d][s].inode_no] = type
    BY <1>2 DEF Matching, WellFormed, Images
  <1>4. Lookup(f, d, name, type) = IF First(M) = -1 THEN -1 ELSE f.dirdata[d][First(M)].inode_no
    BY <1>1 DEF Lookup
  <1> HIDE DEF M
  <1>5. (First(M) = -1 <=> M = {}) /\ (M # {} => First(M) \in M /\ \A y \in M : First(M) <= y)
    BY <1>2, FirstProperties
  <1>6. M # {} => Lookup(f, d, name, type) # -1
    BY <1>3, <1>4, <1>5, Indices
  <1>7. (Lookup(f, d, name, type) = -1 <=> M = {}) /\
        (M # {} => \E s \in M : /\ \A t \in M : s <= t
                                /\ Lookup(f, d, name, type) = f.dirdata[d][s].inode_no
                                /\ Lookup(f, d, name, type) \in Inodes
                                /\ f.type[Lookup(f, d, name, type)] = type)
    BY <1>3, <1>4, <1>5, <1>6
  <1> QED BY <1>7 DEF M

-----------------------------------------------------------------------------
\* The directories that the names of a path lead through, one after the other.
Through(f, path, dir) ==
  /\ dir \in [0 .. Len(path) - 1 -> Dirs \cup {-1}]
  /\ dir[0] = Root
  /\ \A i \in 1 .. Len(path) - 1 :
       dir[i] = IF dir[i - 1] = -1 THEN -1 ELSE Lookup(f, dir[i - 1], path[i], "DIR")

(***************************************************************************)
(* The walk of findUpperDirPos goes through directories only, or ends      *)
(* at -1.  (The recursive function is shown to exist by extending a        *)
(* function that is right up to one index to the next.)                    *)
(***************************************************************************)
LEMMA WalkProperties ==
  ASSUME NEW f, WellFormed(f), NEW path, APath(path)
  PROVE  \E dir : Through(f, path, dir) /\ findUpperDirPos(f, path) = dir[Len(path) - 1]
  <1> DEFINE n == Len(path) - 1
             X == Dirs \cup {-1}
             Step(g, i) == IF i = 0 THEN Root
                           ELSE IF g[i - 1] = -1 THEN -1
                           ELSE Lookup(f, g[i - 1], path[i], "DIR")
             Eqn(g) == g = [i \in 0 .. n |-> Step(g, i)]
             F == CHOOSE g : Eqn(g)
  <1>1. n \in Nat
    BY LenProperties, EmptySeq DEF APath
  <1>2. ASSUME NEW g, NEW i \in 0 .. n, i > 0 => g[i - 1] \in X
        PROVE  Step(g, i) \in X
    <2>1. CASE i > 0 /\ g[i - 1] \in Dirs
      <3>1. \A j \in Inodes : f.type[j] = "DIR" => j \in Dirs
        BY DEF WellFormed
      <3>2. Lookup(f, g[i - 1], path[i], "DIR") \in X
        BY <2>1, <3>1, LookupProperties
      <3> QED BY <2>1, <3>2, Indices
    <2>2. CASE i > 0 /\ g[i - 1] = -1
      BY <2>2
    <2>3. CASE i = 0
      BY <2>3, Indices
    <2> QED BY <1>1, <1>2, <2>1, <2>2, <2>3
  <1>3. findUpperDirPos(f, path) = F[n]
    BY DEF findUpperDirPos
  <1> HIDE DEF n, X, Step
  <1> DEFINE Upto(g, m) == \A i \in 0 .. m : g[i] = Step(g, i)
             Bad == {m \in 0 .. n : ~\E g \in [0 .. n -> X] : Upto(g, m)}
  <1>4. Bad = {}
    <2> SUFFICES ASSUME Bad # {} PROVE FALSE
      OBVIOUS
    <2>1. Bad \in SUBSET Nat
      BY <1>1
    <2> HIDE DEF Bad
    <2>2. PICK m \in Bad : \A k \in Bad : m <= k
      BY <2>1, LeastNat
    <2>3. m \in 0 .. n /\ m \in Nat /\ ~\E g \in [0 .. n -> X] : Upto(g, m)
      BY <1>1, <2>2 DEF Bad
    <2>4. PICK g \in [0 .. n -> X] : \A i \in 0 .. m - 1 : g[i] = Step(g, i)
      <3>1. CASE m = 0
        <4>1. [i \in 0 .. n |-> -1] \in [0 .. n -> X]
          BY DEF X
        <4>2. \A i \in 0 .. m - 1 : FALSE
          BY <3>1
        <4> QED BY <4>1, <4>2
      <3>2. CASE m > 0
        <4>1. m - 1 \in 0 .. n /\ m - 1 \notin Bad
          BY <1>1, <2>1, <2>2, <2>3, <3>2
        <4> QED BY <4>1 DEF Bad
      <3> QED BY <2>3, <3>1, <3>2
    <2> DEFINE h == [g EXCEPT ![m] = Step(g, m)]
    <2>5. m > 0 => m - 1 \in 0 .. n
      BY <1>1, <2>3
    <2>6. Step(g, m) \in X
      BY <1>2, <2>3, <2>5
    <2>7. h \in [0 .. n -> X] /\ h[m] = Step(g, m) /\ \A i \in 0 .. n : i # m => h[i] = g[i]
      BY <2>3, <2>6
    <2> HIDE DEF h
    <2>8. ASSUME NEW i \in 0 .. m
          PROVE  h[i] = Step(h, i)
      <3>1. i \in 0 .. n /\ i \in Nat /\ i <= m /\ (i # m => i \in 0 .. m - 1)
        BY <1>1, <2>3
      <3>2. i > 0 => i - 1 \in 0 .. n /\ i - 1 # m
        BY <1>1, <2>3, <3>1
      <3>3. i > 0 => h[i - 1] = g[i - 1]
        BY <2>7, <3>2
      <3>4. Step(h, i) = Step(g, i)
        BY <3>1, <3>3 DEF Step
      <3> QED BY <2>4, <2>7, <3>1, <3>4
    <2> QED BY <2>3, <2>7, <2>8
  <1>5. \E g : Eqn(g)
    <2>1. n \in 0 .. n
      BY <1>1
    <2>2. PICK g \in [0 .. n -> X] : Upto(g, n)
      BY <1>4, <2>1
    <2>3. g = [i \in 0 .. n |-> g[i]]
      OBVIOUS
    <2>4. [i \in 0 .. n |-> g[i]] = [i \in 0 .. n |-> Step(g, i)]
      BY <2>2
    <2> QED BY <2>3, <2>4
  <1>6. F = [i \in 0 .. n |-> Step(F, i)]
    BY <1>5
  <1> HIDE DEF F
  <1>7. \A i \in 0 .. n : F[i] \in X
    <2> DEFINE Off == {i \in 0 .. n : F[i] \notin X}
    <2> SUFFICES ASSUME Off # {} PROVE FALSE
      OBVIOUS
    <2>1. Off \in SUBSET Nat
      BY <1>1
    <2> HIDE DEF Off
    <2>2. PICK m \in Off : \A k \in Off : m <= k
      BY <2>1, LeastNat
    <2>3. m \in 0 .. n /\ m \in Nat /\ F[m] \notin X
      BY <1>1, <2>2 DEF Off
    <2>4. m > 0 => m - 1 \in 0 .. n /\ m - 1 \notin Off
      BY <1>1, <2>1, <2>2, <2>3
    <2>5. m > 0 => F[m - 1] \in X
      BY <2>4 DEF Off
    <2>6. Step(F, m) \in X
      BY <1>2, <2>3, <2>5
    <2> QED BY <1>6, <2>3, <2>6
  <1>8. F \in [0 .. n -> X]
    BY <1>6, <1>7
  <1>9. F[0] = Root
    <2>1. 0 \in 0 .. n
      BY <1>1
    <2> QED BY <1>6, <2>1 DEF Step
  <1>10. \A i \in 1 .. n :
           F[i] = IF F[i - 1] = -1 THEN -1 ELSE Lookup(f, F[i - 1], path[i], "DIR")
    <2> SUFFICES ASSUME NEW i \in 1 .. n
                 PROVE  F[i] = Step(F, i) /\ i # 0
      BY DEF Step
    <2>1. i \in 0 .. n /\ i # 0
      BY <1>1
    <2> QED BY <1>6, <2>1
  <1>11. Through(f, path, F)
    BY <1>8, <1>9, <1>10 DEF Through, n, X
  <1> QED BY <1>3, <1>11 DEF n

LEMMA UpperDir ==
  ASSUME NEW f, WellFormed(f), NEW path, APath(path)
  PROVE  findUpperDirPos(f, path) \in Dirs \cup {-1}
  <1>1. PICK dir : Through(f, path, dir) /\ findUpperDirPos(f, path) = dir[Len(path) - 1]
    BY WalkProperties
  <1>2. Len(path) - 1 \in 0 .. Len(path) - 1
    BY LenProperties, EmptySeq DEF APath
  <1> QED BY <1>1, <1>2 DEF Through

(* Images whose directories have the same subdirectories lead to the same one. *)
LEMMA SameWalk ==
  ASSUME NEW f, WellFormed(f), NEW g, WellFormed(g), NEW path, APath(path),
         \A d \in Dirs : \A name : Lookup(f, d, name, "DIR") = Lookup(g, d, name, "DIR")
  PROVE  findUpperDirPos(f, path) = findUpperDirPos(g, path)
  <1> DEFINE n == Len(path) - 1
  <1>1. n \in Nat
    BY LenProperties, EmptySeq DEF APath
  <1>2. PICK p : Through(f, path, p) /\ findUpperDirPos(f, path) = p[n]
    BY WalkProperties
  <1>3. PICK q : Through(g, path, q) /\ findUpperDirPos(g, path) = q[n]
    BY WalkProperties
  <1> DEFINE Off == {i \in 0 .. n : p[i] # q[i]}
  <1>4. Off = {}
    <2> SUFFICES ASSUME Off # {} PROVE FALSE
      OBVIOUS
    <2>1. Off \in SUBSET Nat
      BY <1>1
    <2> HIDE DEF Off
    <2>2. PICK m \in Off : \A k \in Off : m <= k
      BY <2>1, LeastNat
    <2>3. m \in 0 .. n /\ p[m] # q[m]
      BY <2>2 DEF Off
    <2>4. m \in Nat /\ m # 0
      BY <1>1, <1>2, <1>3, <2>3 DEF Through
    <2>5. m \in 1 .. n /\ m - 1 \in 0 .. n /\ m - 1 \notin Off
      BY <1>1, <2>1, <2>2, <2>3, <2>4
    <2>6. p[m - 1] = q[m - 1]
      BY <2>5 DEF Off
    <2>7. p[m - 1] \in Dirs \cup {-1}
      BY <1>2, <2>5 DEF Through
    <2>8. /\ p[m] = IF p[m - 1] = -1 THEN -1 ELSE Lookup(f, p[m - 1], path[m], "DIR")
          /\ q[m] = IF q[m - 1] = -1 THEN -1 ELSE Lookup(g, q[m - 1], path[m], "DIR")
      BY <1>2, <1>3, <2>5 DEF Through
    <2> QED BY <2>3, <2>6, <2>7, <2>8
  <1>5. n \in 0 .. n
    BY <1>1
  <1> QED BY <1>2, <1>3, <1>4, <1>5

-----------------------------------------------------------------------------
\* What makeFL may count on: a directory to put the entry in, an entry, an inode.
MayMake(f, path) ==
  /\ WellFormed(f) /\ APath(path)
  /\ findUpperDirPos(f, path) # -1 /\ canMakeFL(f, path)

\* The image g is f with one more entry, x of directory d, for the unused inode n.
Added(f, g, d, x, n, name) ==
  /\ d \in Dirs /\ x \in Slots \ InUse(f, d)
  /\ n \in Inodes \ Dirs /\ ~f.inode_map[n]
  /\ name \in FileNames \ {""}
  /\ g \in Images
  /\ \A e \in Dirs : \A s \in Slots :
       g.dirdata[e][s] = IF e = d /\ s = x THEN Entry(name, n) ELSE f.dirdata[e][s]
  /\ \A i \in Inodes :
       /\ g.inode_map[i] = (i = n \/ f.inode_map[i])
       /\ g.type[i] = IF i = n THEN "FL" ELSE f.type[i]
       /\ g.size[i] = IF i = d THEN f.size[i] + 1 ELSE f.size[i]
       /\ g.filename[i] = IF i = n THEN name ELSE f.filename[i]

LEMMA MakeAdds ==
  ASSUME NEW f, NEW path, MayMake(f, path)
  PROVE  Added(f, makeFL(f, path), findUpperDirPos(f, path),
               getAvlDirdata(f, findUpperDirPos(f, path)), getAvlInode(f),
               getLastLevelName(path))
  <1> DEFINE d == findUpperDirPos(f, path)
             x == getAvlDirdata(f, d)
             n == getAvlInode(f)
             name == getLastLevelName(path)
             g == makeFL(f, path)
  <1>1. d \in Dirs
    BY UpperDir DEF MayMake
  <1>2. x \in Slots \ InUse(f, d)
    <2>1. Slots \ InUse(f, d) \in SUBSET Nat /\ First(Slots \ InUse(f, d)) # -1
      BY Indices DEF MayMake, canMakeFL, getAvlDirdata
    <2> QED BY <2>1, FirstProperties DEF getAvlDirdata
  <1>3. n \in Inodes /\ ~f.inode_map[n]
    <2> DEFINE unused == {i \in Inodes : ~f.inode_map[i]}
    <2>1. unused \in SUBSET Nat /\ First(unused) # -1
      BY Indices DEF MayMake, canMakeFL, getAvlInode
    <2>2. First(unused) \in unused
      BY <2>1, FirstProperties
    <2> QED BY <2>2 DEF getAvlInode
  <1>4. n \notin Dirs
    BY <1>3 DEF MayMake, WellFormed
  <1>5. name \in FileNames \ {""}
    <2>1. Len(path) \in 1 .. Len(path)
      BY LenProperties, EmptySeq DEF MayMake, APath
    <2>2. Last(path) \in STRING
      BY <2>1, ElementOfSeq DEF MayMake, APath, Last
    <2> QED BY <2>2 DEF getLastLevelName, FileNames
  <1>6. f \in Images /\ Dirs \subseteq Inodes
    BY Indices DEF MayMake, WellFormed
  <1>7. g = [f EXCEPT !.dirdata[d][x] = Entry(name, n),
                      !.size[d] = @ + 1,
                      !.type[n] = "FL",
                      !.filename[n] = name,
                      !.inode_map[n] = TRUE]
    BY DEF makeFL
  <1> HIDE DEF d, x, n, name, g
  <1> DEFINE dd == [f.dirdata EXCEPT ![d][x] = Entry(name, n)]
             sz == [f.size EXCEPT ![d] = @ + 1]
             ty == [f.type EXCEPT ![n] = "FL"]
             fn == [f.filename EXCEPT ![n] = name]
             im == [f.inode_map EXCEPT ![n] = TRUE]
  <1>8. g = [inode_map |-> im, type |-> ty, size |-> sz, filename |-> fn, dirdata |-> dd]
    BY <1>6, <1>7 DEF Images
  <1>9. Entry(name, n) \in [filename : FileNames, inode_no : Inodes]
    BY <1>3, <1>5 DEF Entry
  <1>10. /\ dd \in [Dirs -> [Slots -> [filename : FileNames, inode_no : Inodes]]]
         /\ \A e \in Dirs : \A s \in Slots :
              dd[e][s] = IF e = d /\ s = x THEN Entry(name, n) ELSE f.dirdata[e][s]
    BY <1>1, <1>2, <1>6, <1>9 DEF Images
  <1>11. /\ sz \in [Inodes -> Nat]
         /\ \A i \in Inodes : sz[i] = IF i = d THEN f.size[i] + 1 ELSE f.size[i]
    BY <1>1, <1>6 DEF Images
  <1>12. /\ ty \in [Inodes -> Kinds]
         /\ \A i \in Inodes : ty[i] = IF i = n THEN "FL" ELSE f.type[i]
    BY <1>3, <1>6 DEF Images, Kinds
  <1>13. /\ fn \in [Inodes -> FileNames]
         /\ \A i \in Inodes : fn[i] = IF i = n THEN name ELSE f.filename[i]
    BY <1>3, <1>5, <1>6 DEF Images
  <1>14. /\ im \in [Inodes -> BOOLEAN]
         /\ \A i \in Inodes : im[i] = (i = n \/ f.inode_map[i])
    BY <1>3, <1>6 DEF Images
  <1> HIDE DEF dd, sz, ty, fn, im
  <1>15. g \in Images
    BY <1>8, <1>10, <1>11, <1>12, <1>13, <1>14 DEF Images
  <1>16. Added(f, g, d, x, n, name)
    BY <1>1, <1>2, <1>3, <1>4, <1>5, <1>8, <1>10, <1>11, <1>12, <1>13, <1>14, <1>15 DEF Added
  <1> QED BY <1>16 DEF d, x, n, name, g

(* The entries in use afterwards. *)
LEMMA AddedInUse ==
  ASSUME NEW f, NEW g, NEW d, NEW x, NEW n, NEW name, Added(f, g, d, x, n, name)
  PROVE  \A e \in Dirs : InUse(g, e) = IF e = d THEN InUse(f, e) \cup {x} ELSE InUse(f, e)
  <1> SUFFICES ASSUME NEW e \in Dirs, NEW s \in Slots
               PROVE  s \in InUse(g, e) <=> s \in InUse(f, e) \/ (e = d /\ s = x)
    BY ZenonT(60) DEF InUse, Added
  <1>1. CASE e = d /\ s = x
    <2>1. g.dirdata[e][s] = Entry(name, n) /\ name # ""
      BY <1>1 DEF Added
    <2>2. Entry(name, n).filename = name
      BY DEF Entry
    <2> QED BY <1>1, <2>1, <2>2 DEF InUse
  <1>2. CASE ~(e = d /\ s = x)
    <2>1. g.dirdata[e][s] = f.dirdata[e][s]
      BY <1>2 DEF Added
    <2> QED BY <1>2, <2>1 DEF InUse
  <1> QED BY <1>1, <1>2

LEMMA AddedWellFormed ==
  ASSUME NEW f, WellFormed(f), NEW g, NEW d, NEW x, NEW n, NEW name, Added(f, g, d, x, n, name)
  PROVE  WellFormed(g)
  <1>1. \A i \in Inodes : g.type[i] = "DIR" <=> i \in Dirs
    BY DEF WellFormed, Added
  <1>2. \A e \in Dirs : g.inode_map[e]
    BY Indices DEF WellFormed, Added
  <1>3. ASSUME NEW e \in Dirs
        PROVE  Cardinality(InUse(g, e)) <= g.size[e]
    <2>1. Cardinality(InUse(f, e)) <= f.size[e] /\ f.size[e] \in Nat /\ e \in Inodes
      BY Indices DEF WellFormed, Images
    <2>2. /\ IsFiniteSet(InUse(f, e)) /\ Cardinality(InUse(f, e)) \in Nat
      BY InUseFinite
    <2>3. CASE e = d
      <3>1. InUse(g, e) = InUse(f, e) \cup {x}
        BY <2>3, AddedInUse
      <3> x \notin InUse(f, e)
        BY <2>3 DEF Added
      <3>2. Cardinality(InUse(g, e)) = Cardinality(InUse(f, e)) + 1
        BY <2>2, <3>1, FS_AddElement
      <3>3. g.size[e] = f.size[e] + 1
        BY <2>1, <2>3 DEF Added
      <3> QED BY <2>1, <2>2, <3>2, <3>3
    <2>4. CASE e # d
      <3>1. InUse(g, e) = InUse(f, e)
        BY <2>4, AddedInUse
      <3>2. g.size[e] = f.size[e]
        BY <2>1, <2>4 DEF Added
      <3> QED BY <2>1, <3>1, <3>2
    <2> QED BY <2>3, <2>4
  <1> QED BY <1>1, <1>2, <1>3 DEF WellFormed, Added

(* A new file changes no search for a directory. *)
LEMMA AddedDirs ==
  ASSUME NEW f, WellFormed(f), NEW g, NEW d, NEW x, NEW n, NEW name, Added(f, g, d, x, n, name)
  PROVE  \A e \in Dirs : \A nm : Lookup(f, e, nm, "DIR") = Lookup(g, e, nm, "DIR")
  <1> SUFFICES ASSUME NEW e \in Dirs, NEW nm
               PROVE  Lookup(f, e, nm, "DIR") = Lookup(g, e, nm, "DIR")
    OBVIOUS
  <1>1. WellFormed(g)
    BY AddedWellFormed
  <1> DEFINE M == Matching(f, e, nm, "DIR")
  <1>2. Matching(g, e, nm, "DIR") = M /\ \A s \in M : g.dirdata[e][s] = f.dirdata[e][s]
    <2> SUFFICES ASSUME NEW s \in Slots
                 PROVE  /\ s \in Matching(g, e, nm, "DIR") <=> s \in M
                        /\ s \in M => g.dirdata[e][s] = f.dirdata[e][s]
      BY DEF Matching, InUse
    <2>1. CASE e = d /\ s = x
      <3>1. s \notin InUse(f, e)
        BY <2>1 DEF Added
      <3>2. g.dirdata[e][s] = Entry(name, n) /\ g.type[n] = "FL"
        BY <2>1 DEF Added
      <3> QED BY <3>1, <3>2 DEF Matching, Entry
    <2>2. CASE ~(e = d /\ s = x)
      <3>1. g.dirdata[e][s] = f.dirdata[e][s]
        BY <2>2 DEF Added
      <3>2. s \in InUse(g, e) <=> s \in InUse(f, e)
        BY <2>2, AddedInUse
      <3>3. f.dirdata[e][s].inode_no \in Inodes
        BY DEF WellFormed, Images
      <3>4. n \in Inodes /\ g.type[n] = "FL" /\ f.type[n] # "DIR"
        BY DEF Added, WellFormed
      <3>5. g.type[f.dirdata[e][s].inode_no] = "DIR" <=> f.type[f.dirdata[e][s].inode_no] = "DIR"
        BY <3>3, <3>4 DEF Added
      <3> QED BY <3>1, <3>2, <3>5 DEF Matching
    <2> QED BY <2>1, <2>2
  <1>3. CASE M = {}
    BY <1>1, <1>2, <1>3, LookupProperties
  <1>4. CASE M # {}
    <2>1. PICK s \in M : (\A t \in M : s <= t) /\ Lookup(f, e, nm, "DIR") = f.dirdata[e][s].inode_no
      BY <1>4, LookupProperties
    <2>2. PICK t \in M : (\A u \in M : t <= u) /\ Lookup(g, e, nm, "DIR") = g.dirdata[e][t].inode_no
      BY <1>1, <1>2, <1>4, LookupProperties
    <2>3. s \in Nat /\ t \in Nat
      BY InUseFinite DEF Matching
    <2>4. s = t
      BY <2>1, <2>2, <2>3
    <2> QED BY <1>2, <2>1, <2>2, <2>4
  <1> QED BY <1>3, <1>4

-----------------------------------------------------------------------------
(* The search for a file ends at an inode of a file, or at -1. *)
LEMMA FilePos ==
  ASSUME NEW f, WellFormed(f), NEW path, findUpperDirPos(f, path) \in Dirs
  PROVE  /\ findCurrentFLPos(f, path) \in Inodes \cup {-1}
         /\ findCurrentFLPos(f, path) # -1 =>
              /\ findCurrentFLPos(f, path) \in Inodes \ Dirs
              /\ f.type[findCurrentFLPos(f, path)] = "FL"
  <1> DEFINE d == findUpperDirPos(f, path)
             M == Matching(f, d, Last(path), "FL")
             pos == Lookup(f, d, Last(path), "FL")
  <1>1. findCurrentFLPos(f, path) = pos
    BY DEF findCurrentFLPos
  <1>2. pos = -1 \/ (pos \in Inodes /\ f.type[pos] = "FL")
    BY LookupProperties
  <1>3. \A i \in Inodes : f.type[i] = "FL" => i \notin Dirs
    BY DEF WellFormed
  <1> QED BY <1>1, <1>2, <1>3

\* The image g is f without the inode n and without the entries in S of d.
Dropped(f, g, d, S, n) ==
  /\ d \in Dirs /\ S \in SUBSET InUse(f, d)
  /\ n \in Inodes \ Dirs
  /\ g \in Images
  /\ g.type = f.type /\ g.size = f.size /\ g.filename = f.filename
  /\ \A e \in Dirs : \A s \in Slots :
       g.dirdata[e][s] = IF e = d /\ s \in S THEN Free ELSE f.dirdata[e][s]
  /\ \A i \in Inodes : g.inode_map[i] = (i # n /\ f.inode_map[i])

(* An assignment to the inode map, written as a record. *)
LEMMA MarkInode ==
  ASSUME NEW f \in Images, NEW n
  PROVE  \A v : [f EXCEPT !.inode_map[n] = v]
           = [inode_map |-> [f.inode_map EXCEPT ![n] = v], type |-> f.type,
              size |-> f.size, filename |-> f.filename, dirdata |-> f.dirdata]
  <1>1. PICK A, B, C, D, E :
          f \in [inode_map : A, type : B, size : C, filename : D, dirdata : E]
    BY ZenonT(60) DEF Images
  <1>2. TAKE v
  <1> QED BY ONLY <1>1

\* The entries that rmFL looks for, and the one it frees, if there is any.
Named(f, path) ==
  {s \in InUse(f, findUpperDirPos(f, path)) :
     f.dirdata[findUpperDirPos(f, path)][s].filename = f.filename[findCurrentFLPos(f, path)]}
Freed(f, path) == IF Named(f, path) = {} THEN {} ELSE {Min(Named(f, path))}

LEMMA RemoveDrops ==
  ASSUME NEW f, WellFormed(f), NEW path, APath(path), findUpperDirPos(f, path) # -1
  PROVE  /\ findCurrentFLPos(f, path) = -1 => rmFL(f, path) = f
         /\ findCurrentFLPos(f, path) # -1 =>
              Dropped(f, rmFL(f, path), findUpperDirPos(f, path), Freed(f, path),
                      findCurrentFLPos(f, path))
  <1> DEFINE d == findUpperDirPos(f, path)
             n == findCurrentFLPos(f, path)
             N == Named(f, path)
             g == rmFL(f, path)
             im == [f.inode_map EXCEPT ![n] = FALSE]
             dd == [f.dirdata EXCEPT ![d][Min(N)] = Free]
  <1>1. CASE n = -1
    BY <1>1 DEF rmFL
  <1>2. CASE n # -1
    <2>1. d \in Dirs
      BY UpperDir
    <2>2. n \in Inodes \ Dirs
      BY <1>2, <2>1, FilePos
    <2>3. N = {s \in Searched(f, d) : f.dirdata[d][s].filename = f.filename[n]}
      BY <2>1, SearchReachesAll DEF Named
    <2>4. N \in SUBSET InUse(f, d) /\ N \in SUBSET Nat /\ N \in SUBSET Slots
      BY InUseFinite DEF Named
    <2>5. f \in Images
      BY DEF WellFormed
    <2>6. g = IF N = {} THEN [f EXCEPT !.inode_map[n] = FALSE]
              ELSE [[f EXCEPT !.inode_map[n] = FALSE] EXCEPT !.dirdata[d][Min(N)] = Free]
      BY <1>2, <2>3 DEF rmFL
    <2>7. Freed(f, path) = IF N = {} THEN {} ELSE {Min(N)}
      BY DEF Freed
    <2> HIDE DEF d, n, N, g
    <2>8. im \in [Inodes -> BOOLEAN] /\ \A i \in Inodes : im[i] = (i # n /\ f.inode_map[i])
      BY <2>2, <2>5 DEF Images
    <2>9. Free \in [filename : FileNames, inode_no : Inodes]
      BY Indices DEF Free, FileNames, Root
    <2>10. N # {} =>
             /\ Min(N) \in N
             /\ dd \in [Dirs -> [Slots -> [filename : FileNames, inode_no : Inodes]]]
             /\ \A e \in Dirs : \A s \in Slots :
                  dd[e][s] = IF e = d /\ s = Min(N) THEN Free ELSE f.dirdata[e][s]
      <3> SUFFICES ASSUME N # {} PROVE
             /\ Min(N) \in N
             /\ dd \in [Dirs -> [Slots -> [filename : FileNames, inode_no : Inodes]]]
             /\ \A e \in Dirs : \A s \in Slots :
                  dd[e][s] = IF e = d /\ s = Min(N) THEN Free ELSE f.dirdata[e][s]
        OBVIOUS
      <3>1. Min(N) \in N /\ Min(N) \in Slots
        BY <2>4, MinNat
      <3> QED BY <2>1, <2>5, <2>9, <3>1 DEF Images
    <2>11. g = [inode_map |-> im, type |-> f.type, size |-> f.size, filename |-> f.filename,
                dirdata |-> IF N = {} THEN f.dirdata ELSE dd]
      <3>1. [f EXCEPT !.inode_map[n] = FALSE]
              = [inode_map |-> im, type |-> f.type, size |-> f.size, filename |-> f.filename,
                 dirdata |-> f.dirdata]
        BY <2>5, MarkInode, Zenon
      <3>2. CASE N = {}
        BY <2>6, <3>1, <3>2
      <3>3. CASE N # {}
        <4>1. g = [[inode_map |-> im, type |-> f.type, size |-> f.size, filename |-> f.filename,
                    dirdata |-> f.dirdata] EXCEPT !.dirdata[d][Min(N)] = Free]
          BY <2>6, <3>1, <3>3
        <4> HIDE DEF im
        <4> QED BY <3>3, <4>1
      <3> QED BY <3>2, <3>3
    <2> HIDE DEF im, dd
    <2>12. g \in Images
      BY <2>5, <2>8, <2>10, <2>11 DEF Images
    <2>13. \A e \in Dirs : \A s \in Slots :
             g.dirdata[e][s] = IF e = d /\ s \in Freed(f, path) THEN Free ELSE f.dirdata[e][s]
      BY <2>7, <2>10, <2>11
    <2>14. Freed(f, path) \in SUBSET InUse(f, d)
      BY <2>4, <2>7, <2>10
    <2>15. /\ g.type = f.type /\ g.size = f.size /\ g.filename = f.filename
           /\ g.inode_map = im
      BY <2>11
    <2>16. Dropped(f, g, d, Freed(f, path), n)
      BY <2>1, <2>2, <2>8, <2>12, <2>13, <2>14, <2>15 DEF Dropped
    <2> QED BY <1>2, <2>16 DEF d, n, g
  <1> QED BY <1>1, <1>2

LEMMA DroppedInUse ==
  ASSUME NEW f, NEW g, NEW d, NEW S, NEW n, Dropped(f, g, d, S, n)
  PROVE  \A e \in Dirs : InUse(g, e) = IF e = d THEN InUse(f, e) \ S ELSE InUse(f, e)
  <1> SUFFICES ASSUME NEW e \in Dirs, NEW s \in Slots
               PROVE  s \in InUse(g, e) <=> s \in InUse(f, e) /\ ~(e = d /\ s \in S)
    BY DEF InUse, Dropped
  <1>1. g.dirdata[e][s] = IF e = d /\ s \in S THEN Free ELSE f.dirdata[e][s]
    BY DEF Dropped
  <1>2. Free.filename = ""
    BY DEF Free
  <1> QED BY <1>1, <1>2 DEF InUse

LEMMA DroppedWellFormed ==
  ASSUME NEW f, WellFormed(f), NEW g, NEW d, NEW S, NEW n, Dropped(f, g, d, S, n)
  PROVE  WellFormed(g)
  <1>1. \A i \in Inodes : g.type[i] = "DIR" <=> i \in Dirs
    BY DEF WellFormed, Dropped
  <1>2. \A e \in Dirs : g.inode_map[e]
    BY Indices DEF WellFormed, Dropped
  <1>3. ASSUME NEW e \in Dirs
        PROVE  Cardinality(InUse(g, e)) <= g.size[e]
    <2>1. Cardinality(InUse(f, e)) <= f.size[e] /\ f.size[e] \in Nat
      BY Indices DEF WellFormed, Images
    <2>2. g.size = f.size
      BY DEF Dropped
    <2>3. InUse(g, e) \in SUBSET InUse(f, e)
      BY DroppedInUse
    <2>4. Cardinality(InUse(g, e)) <= Cardinality(InUse(f, e))
      BY <2>3, InUseFinite, FS_Subset
    <2>5. Cardinality(InUse(g, e)) \in Nat /\ Cardinality(InUse(f, e)) \in Nat
      BY InUseFinite
    <2> QED BY <2>1, <2>2, <2>4, <2>5
  <1> QED BY <1>1, <1>2, <1>3 DEF WellFormed, Dropped

(* A write to a file changes its size and nothing else. *)
LEMMA WriteProperties ==
  ASSUME NEW f, WellFormed(f), NEW i \in Inodes \ Dirs,
         NEW len \in Int, NEW offset \in Int,
         NEW g, g = writeF(f, i, len, offset)
  PROVE  /\ WellFormed(g)
         /\ g.inode_map = f.inode_map /\ g.type = f.type
         /\ g.filename = f.filename /\ g.dirdata = f.dirdata
         /\ \A j \in Inodes : g.size[j] = IF j # i THEN f.size[j]
                                           ELSE IF f.size[j] > Unsigned(offset + len) THEN f.size[j]
                                           ELSE Unsigned(offset + len)
  <1> DEFINE end == Unsigned(offset + len)
             sz == [f.size EXCEPT ![i] = IF @ > end THEN @ ELSE end]
  <1>1. f \in Images /\ i \in Inodes /\ end \in Nat
    <2>1. end \in 0 .. 2 * IntMax + 1 /\ IntMax \in Nat
      BY Wrapping
    <2> QED BY <2>1 DEF WellFormed
  <1>2. g = [f EXCEPT !.size[i] = IF @ > end THEN @ ELSE end]
    BY DEF writeF
  <1> HIDE DEF end
  <1>3. /\ sz \in [Inodes -> Nat]
        /\ \A j \in Inodes : sz[j] = IF j # i THEN f.size[j]
                                    ELSE IF f.size[j] > end THEN f.size[j] ELSE end
    BY <1>1 DEF Images
  <1>4. g = [inode_map |-> f.inode_map, type |-> f.type, size |-> sz,
             filename |-> f.filename, dirdata |-> f.dirdata]
    BY <1>1, <1>2 DEF Images
  <1> HIDE DEF sz
  <1>5. g \in Images
    BY <1>1, <1>3, <1>4 DEF Images
  <1>6. \A d \in Dirs : InUse(g, d) = InUse(f, d) /\ g.size[d] = f.size[d]
    BY <1>3, <1>4, Indices DEF InUse
  <1>7. g.type = f.type /\ g.inode_map = f.inode_map /\ g.size = sz
    BY <1>4
  <1>8. WellFormed(g)
    BY <1>5, <1>6, <1>7 DEF WellFormed
  <1>9. g.filename = f.filename /\ g.dirdata = f.dirdata
    BY <1>4
  <1> QED BY <1>3, <1>7, <1>8, <1>9 DEF end

-----------------------------------------------------------------------------
(***************************************************************************)
(* The names agree with the inodes as long as no file gets the name of a   *)
(* directory or of one of the entries every directory has.                 *)
(***************************************************************************)
Reserved == {"", ".", ".."} \cup ToSet(SubDirs)
FileName(path) == Last(path) \notin Reserved

EntriesInUse(f) ==
  \A d \in Dirs : \A s \in InUse(f, d) : f.inode_map[f.dirdata[d][s].inode_no]
EntriesNamed(f) ==
  \A d \in Dirs : \A s \in InUse(f, d) :
    IF f.dirdata[d][s].inode_no \in Dirs THEN f.dirdata[d][s].filename \in Reserved
    ELSE /\ f.type[f.dirdata[d][s].inode_no] = "FL"
         /\ f.dirdata[d][s].filename = f.filename[f.dirdata[d][s].inode_no]
         /\ f.dirdata[d][s].filename \notin Reserved
OneEntry(f) ==
  \A d, e \in Dirs : \A s \in InUse(f, d), t \in InUse(f, e) :
    /\ f.dirdata[d][s].inode_no = f.dirdata[e][t].inode_no
    /\ f.dirdata[d][s].inode_no \notin Dirs
    => d = e /\ s = t
OneName(f) ==
  \A d \in Dirs : \A s, t \in InUse(f, d) :
    /\ f.dirdata[d][s].filename = f.dirdata[d][t].filename
    /\ f.dirdata[d][s].filename \notin Reserved
    => s = t
EveryFile(f) ==
  \A i \in Inodes \ Dirs : f.inode_map[i] =>
    \E d \in Dirs : \E s \in InUse(f, d) : f.dirdata[d][s].inode_no = i

Consistent(f) ==
  /\ WellFormed(f) /\ EntriesInUse(f) /\ EntriesNamed(f)
  /\ OneEntry(f) /\ OneName(f) /\ EveryFile(f)

(* The image the system is installed with. *)
LEMMA ImageConsistent == Consistent(Image)
  <1> DEFINE n == Len(SubDirs)
             dd == [d \in Dirs |-> [s \in Slots |->
                      IF s = 0 THEN Entry(".", d)
                      ELSE IF s = 1 THEN Entry("..", Root)
                      ELSE IF d = Root /\ s - 1 \in Dirs THEN Entry(SubDirs[s - 1], s - 1)
                      ELSE Free]]
  <1>1. n \in Nat /\ n + 2 <= NrEntry /\ NrEntry \in Nat /\ Dirs = 0 .. n
    BY ImageAssumption, LenProperties DEF Dirs
  <1>2. \A i \in 1 .. n : SubDirs[i] \in STRING /\ SubDirs[i] \in Reserved
    <2>1. TAKE i \in 1 .. n
    <2>2. SubDirs[i] \in STRING
      BY ElementOfSeq, ImageAssumption
    <2>3. SubDirs[i] \in ToSet(SubDirs)
      BY LenProperties, ImageAssumption DEF ToSet
    <2> QED BY <2>2, <2>3 DEF Reserved
  <1>3. \A s \in Slots : s # 0 /\ s # 1 /\ s - 1 \in Dirs => s - 1 \in 1 .. n
    BY <1>1 DEF Slots
  <1>31. Image.inode_map = [i \in Inodes |-> i \in Dirs]
    BY DEF Image
  <1>32. Image.size = [i \in Inodes |-> IF i = Root THEN 2 + n
                                       ELSE IF i \in Dirs THEN 2 ELSE 0]
    BY DEF Image
  <1>4. /\ Image.type = [i \in Inodes |-> IF i \in Dirs THEN "DIR" ELSE "UNUSED"]
        /\ Image.filename = [i \in Inodes |-> IF i = Root THEN "/"
                                              ELSE IF i \in Dirs THEN SubDirs[i] ELSE ""]
        /\ Image.dirdata = dd
    BY DEF Image
  <1>5. \A d \in Dirs : \A s \in Slots :
          dd[d][s] = IF s = 0 THEN Entry(".", d)
                     ELSE IF s = 1 THEN Entry("..", Root)
                     ELSE IF d = Root /\ s - 1 \in Dirs THEN Entry(SubDirs[s - 1], s - 1)
                     ELSE Free
    OBVIOUS
  <1> HIDE DEF dd, n
  <1>6. \A d \in Dirs : \A name \in FileNames :
          /\ Entry(name, d) \in [filename : FileNames, inode_no : Dirs]
          /\ Entry(name, d).filename = name
    BY DEF Entry
  <1>7. Free \in [filename : FileNames, inode_no : Dirs] /\ Free.filename = ""
    BY Indices DEF Free, FileNames, Root
  <1>8. ASSUME NEW d \in Dirs, NEW s \in Slots
        PROVE  /\ dd[d][s] \in [filename : FileNames, inode_no : Dirs]
               /\ dd[d][s].filename \in Reserved
    <2>1. "." \in FileNames \cap Reserved /\ ".." \in FileNames \cap Reserved /\ "" \in Reserved
      BY DEF FileNames, Reserved
    <2>2. CASE s = 0
      <3>1. dd[d][s] = Entry(".", d)
        BY <1>5, <2>2
      <3> QED BY <1>6, <2>1, <3>1
    <2>3. CASE s = 1
      <3>1. dd[d][s] = Entry("..", Root)
        BY <1>5, <2>3
      <3> QED BY <1>6, <2>1, <3>1, Indices, ZenonT(60)
    <2>4. CASE s # 0 /\ s # 1 /\ d = Root /\ s - 1 \in Dirs
      <3>1. SubDirs[s - 1] \in FileNames /\ SubDirs[s - 1] \in Reserved
        BY <1>2, <1>3, <2>4 DEF FileNames
      <3>2. dd[d][s] = Entry(SubDirs[s - 1], s - 1)
        BY <1>5, <2>4
      <3> QED BY <1>6, <2>4, <3>1, <3>2
    <2>5. CASE s # 0 /\ s # 1 /\ ~(d = Root /\ s - 1 \in Dirs)
      <3>1. dd[d][s] = Free
        BY <1>5, <2>5
      <3> QED BY <1>7, <2>1, <3>1
    <2> QED BY <2>2, <2>3, <2>4, <2>5
  <1>9. \A i \in Inodes : Image.inode_map[i] <=> i \in Dirs
    BY <1>31
  <1>10. Image \in Images
    <2>1. Image.size \in [Inodes -> Nat]
      BY <1>1, <1>32
    <2>2. Image.filename \in [Inodes -> FileNames]
      <3>1. \A i \in Inodes : i \in Dirs /\ i # Root => i \in 1 .. n
        BY <1>1 DEF Root
      <3> QED BY <1>2, <1>4, <3>1 DEF FileNames
    <2>3. Image.dirdata \in [Dirs -> [Slots -> [filename : FileNames, inode_no : Inodes]]]
      <3>1. \A d \in Dirs : \A s \in Slots : dd[d][s] \in [filename : FileNames, inode_no : Inodes]
        BY <1>8, Indices
      <3>2. dd \in [Dirs -> [Slots -> [filename : FileNames, inode_no : Inodes]]]
        BY <3>1 DEF dd
      <3> QED BY <1>4, <3>2
    <2>4. Image.type \in [Inodes -> Kinds]
      BY <1>4 DEF Kinds
    <2>5. Image.inode_map \in [Inodes -> BOOLEAN]
      <3>1. \A i \in Inodes : (i \in Dirs) \in BOOLEAN
        OBVIOUS
      <3> QED BY <1>31, <3>1, Zenon
    <2>6. Image = [inode_map |-> Image.inode_map, type |-> Image.type, size |-> Image.size,
                   filename |-> Image.filename, dirdata |-> Image.dirdata]
      BY DEF Image
    <2> QED BY <2>1, <2>2, <2>3, <2>4, <2>5, <2>6 DEF Images
  <1>11. ASSUME NEW d \in Dirs
         PROVE  Cardinality(InUse(Image, d)) <= Image.size[d]
    <2> DEFINE last == IF d = Root THEN n + 1 ELSE 1
    <2>1. last \in Nat /\ Image.size[d] = last + 1
      <3>1. d \in Inodes
        BY Indices
      <3> QED BY <1>1, <1>32, <3>1
    <2>2. InUse(Image, d) \in SUBSET (0 .. last)
      <3> SUFFICES ASSUME NEW s \in Slots, s \notin 0 .. last
                   PROVE  dd[d][s].filename = ""
        BY <1>4 DEF InUse
      <3>1. s # 0 /\ s # 1 /\ ~(d = Root /\ s - 1 \in Dirs)
        BY <1>1 DEF Slots
      <3>2. dd[d][s] = Free
        BY <1>5, <3>1
      <3> QED BY <1>7, <3>2
    <2> HIDE DEF last
    <2>3. 0 \in Int /\ last \in Int
      BY <2>1
    <2>4. IsFiniteSet(0 .. last) /\ Cardinality(0 .. last) = last + 1
      <3>1. /\ IsFiniteSet(0 .. last)
            /\ Cardinality(0 .. last) = IF 0 > last THEN 0 ELSE last - 0 + 1
        BY <2>3, FS_Interval, Zenon
      <3> QED BY <2>1, <3>1
    <2>5. Cardinality(InUse(Image, d)) <= last + 1
      BY <2>2, <2>4, FS_Subset
    <2> QED BY <2>1, <2>5
  <1>12. WellFormed(Image)
    <2>1. \A i \in Inodes : Image.type[i] = "DIR" <=> i \in Dirs
      BY <1>4
    <2> QED BY <1>9, <1>10, <1>11, <2>1, Indices DEF WellFormed
  <1>13. ASSUME NEW d \in Dirs, NEW s \in InUse(Image, d)
         PROVE  Image.dirdata[d][s].inode_no \in Dirs /\ Image.dirdata[d][s].filename \in Reserved
    BY <1>4, <1>8 DEF InUse
  <1>14. EntriesInUse(Image)
    BY <1>9, <1>13, Indices DEF EntriesInUse
  <1>15. EntriesNamed(Image)
    BY <1>13 DEF EntriesNamed
  <1>16. OneEntry(Image)
    BY <1>13 DEF OneEntry
  <1>17. OneName(Image)
    BY <1>13 DEF OneName
  <1>18. EveryFile(Image)
    BY <1>9 DEF EveryFile
  <1> QED BY <1>12, <1>14, <1>15, <1>16, <1>17, <1>18 DEF Consistent

(* A new file is found where it was made, under any name but that of "/". *)
LEMMA AddedIsFound ==
  ASSUME NEW f, WellFormed(f), NEW path, APath(path),
         NEW g, NEW d, NEW x, NEW n, NEW name, Added(f, g, d, x, n, name),
         d = findUpperDirPos(f, path), name = Last(path)
  PROVE  /\ findUpperDirPos(g, path) = d
         /\ findCurrentFLPos(g, path) # -1
  <1>1. WellFormed(g)
    BY AddedWellFormed
  <1>2. findUpperDirPos(g, path) = d
    <2>1. \A e \in Dirs : \A nm : Lookup(f, e, nm, "DIR") = Lookup(g, e, nm, "DIR")
      BY AddedDirs
    <2> QED BY <1>1, <2>1, SameWalk
  <1>3. d \in Dirs
    BY DEF Added
  <1>4. x \in InUse(g, d)
    BY <1>3, AddedInUse
  <1>5. g.dirdata[d][x] = Entry(name, n) /\ g.type[n] = "FL"
    BY <1>3 DEF Added
  <1>6. Entry(name, n).filename = name /\ Entry(name, n).inode_no = n
    BY DEF Entry
  <1>7. x \in Matching(g, d, name, "FL")
    BY <1>4, <1>5, <1>6 DEF Matching
  <1>8. Lookup(g, d, name, "FL") # -1
    BY <1>1, <1>3, <1>7, LookupProperties
  <1> QED BY <1>2, <1>8 DEF findCurrentFLPos

LEMMA MakeFinds ==
  ASSUME NEW f, NEW path, MayMake(f, path), Last(path) # ""
  PROVE  /\ findUpperDirPos(makeFL(f, path), path) = findUpperDirPos(f, path)
         /\ findCurrentFLPos(makeFL(f, path), path) # -1
  <1>1. WellFormed(f) /\ APath(path)
    BY DEF MayMake
  <1>2. getLastLevelName(path) = Last(path)
    BY DEF getLastLevelName
  <1> QED BY <1>1, <1>2, MakeAdds, AddedIsFound

(* A new file with a name of its own. *)
LEMMA AddedConsistent ==
  ASSUME NEW f, Consistent(f), NEW g, NEW d, NEW x, NEW n, NEW name, Added(f, g, d, x, n, name),
         name \notin Reserved, Matching(f, d, name, "FL") = {}
  PROVE  Consistent(g)
  <1>1. WellFormed(f) /\ WellFormed(g)
    BY AddedWellFormed DEF Consistent
  <1>2. /\ d \in Dirs /\ x \in Slots \ InUse(f, d) /\ n \in Inodes \ Dirs
        /\ ~f.inode_map[n]
    BY DEF Added
  <1>3. \A e \in Dirs : InUse(g, e) = IF e = d THEN InUse(f, e) \cup {x} ELSE InUse(f, e)
    BY AddedInUse
  <1>4. g.dirdata[d][x].filename = name /\ g.dirdata[d][x].inode_no = n
    <2>1. g.dirdata[d][x] = Entry(name, n)
      BY <1>2 DEF Added
    <2> QED BY <2>1 DEF Entry
  <1>5. ASSUME NEW e \in Dirs, NEW s \in InUse(g, e), ~(e = d /\ s = x)
        PROVE  /\ s \in InUse(f, e)
               /\ g.dirdata[e][s] = f.dirdata[e][s]
               /\ f.dirdata[e][s].inode_no \in Inodes \ {n}
    <2>1. s \in InUse(f, e)
      BY <1>3, <1>5
    <2>2. s \in Slots
      BY DEF InUse
    <2>3. g.dirdata[e][s] = f.dirdata[e][s]
      BY <1>5, <2>2 DEF Added
    <2>4. f.dirdata[e][s].inode_no \in Inodes
      BY <1>1, <2>2 DEF WellFormed, Images
    <2>5. f.inode_map[f.dirdata[e][s].inode_no]
      BY <2>1 DEF Consistent, EntriesInUse
    <2> QED BY <1>2, <2>1, <2>3, <2>4, <2>5
  <1>6. \A i \in Inodes : /\ g.inode_map[i] = (i = n \/ f.inode_map[i])
                          /\ g.type[i] = IF i = n THEN "FL" ELSE f.type[i]
                          /\ g.filename[i] = IF i = n THEN name ELSE f.filename[i]
    BY DEF Added
  <1>7. EntriesInUse(g)
    <2> SUFFICES ASSUME NEW e \in Dirs, NEW s \in InUse(g, e)
                 PROVE  g.inode_map[g.dirdata[e][s].inode_no]
      BY DEF EntriesInUse
    <2>1. CASE e = d /\ s = x
      BY <1>2, <1>4, <1>6, <2>1
    <2>2. CASE ~(e = d /\ s = x)
      <3>1. f.inode_map[f.dirdata[e][s].inode_no]
        BY <1>5, <2>2 DEF Consistent, EntriesInUse
      <3> QED BY <1>5, <1>6, <2>2, <3>1, ZenonT(60)
    <2> QED BY <2>1, <2>2
  <1>8. EntriesNamed(g)
    <2> SUFFICES ASSUME NEW e \in Dirs, NEW s \in InUse(g, e)
                 PROVE  IF g.dirdata[e][s].inode_no \in Dirs
                          THEN g.dirdata[e][s].filename \in Reserved
                        ELSE /\ g.type[g.dirdata[e][s].inode_no] = "FL"
                             /\ g.dirdata[e][s].filename = g.filename[g.dirdata[e][s].inode_no]
                             /\ g.dirdata[e][s].filename \notin Reserved
      BY DEF EntriesNamed
    <2>1. CASE e = d /\ s = x
      BY <1>2, <1>4, <1>6, <2>1
    <2>2. CASE ~(e = d /\ s = x)
      <3>1. IF f.dirdata[e][s].inode_no \in Dirs
              THEN f.dirdata[e][s].filename \in Reserved
            ELSE /\ f.type[f.dirdata[e][s].inode_no] = "FL"
                 /\ f.dirdata[e][s].filename = f.filename[f.dirdata[e][s].inode_no]
                 /\ f.dirdata[e][s].filename \notin Reserved
        BY <1>5, <2>2 DEF Consistent, EntriesNamed
      <3> QED BY <1>5, <1>6, <2>2, <3>1, SMTT(60)
    <2> QED BY <2>1, <2>2
  <1>9. OneEntry(g)
    <2> SUFFICES ASSUME NEW d1 \in Dirs, NEW d2 \in Dirs,
                        NEW s1 \in InUse(g, d1), NEW s2 \in InUse(g, d2),
                        g.dirdata[d1][s1].inode_no = g.dirdata[d2][s2].inode_no,
                        g.dirdata[d1][s1].inode_no \notin Dirs
                 PROVE  d1 = d2 /\ s1 = s2
      BY DEF OneEntry
    <2>1. CASE (d1 = d /\ s1 = x) \/ (d2 = d /\ s2 = x)
      BY <1>4, <1>5, <2>1, SMTT(60)
    <2>2. CASE ~(d1 = d /\ s1 = x) /\ ~(d2 = d /\ s2 = x)
      <3>1. /\ s1 \in InUse(f, d1) /\ g.dirdata[d1][s1] = f.dirdata[d1][s1]
            /\ s2 \in InUse(f, d2) /\ g.dirdata[d2][s2] = f.dirdata[d2][s2]
        BY <1>5, <2>2
      <3> QED BY <3>1 DEF Consistent, OneEntry
    <2> QED BY <2>1, <2>2
  <1>10. OneName(g)
    <2> SUFFICES ASSUME NEW e \in Dirs, NEW s \in InUse(g, e), NEW t \in InUse(g, e),
                        g.dirdata[e][s].filename = g.dirdata[e][t].filename,
                        g.dirdata[e][s].filename \notin Reserved
                 PROVE  s = t
      BY DEF OneName
    <2>1. ASSUME NEW u \in InUse(g, d), u # x, g.dirdata[d][u].filename = name
          PROVE  FALSE
      <3>1. u \in InUse(f, d) /\ g.dirdata[d][u] = f.dirdata[d][u]
        BY <1>2, <1>5, <2>1
      <3>2. f.type[f.dirdata[d][u].inode_no] = "FL"
        BY <1>2, <2>1, <3>1 DEF Consistent, EntriesNamed
      <3>3. u \in Matching(f, d, name, "FL")
        BY <2>1, <3>1, <3>2 DEF Matching
      <3> QED BY <3>3
    <2>2. CASE e = d /\ (s = x \/ t = x)
      BY <1>4, <2>1, <2>2
    <2>3. CASE ~(e = d /\ (s = x \/ t = x))
      <3>1. /\ s \in InUse(f, e) /\ g.dirdata[e][s] = f.dirdata[e][s]
            /\ t \in InUse(f, e) /\ g.dirdata[e][t] = f.dirdata[e][t]
        BY <1>5, <2>3
      <3> QED BY <3>1 DEF Consistent, OneName
    <2> QED BY <2>2, <2>3
  <1>11. EveryFile(g)
    <2> SUFFICES ASSUME NEW i \in Inodes \ Dirs, g.inode_map[i]
                 PROVE  \E e \in Dirs : \E s \in InUse(g, e) : g.dirdata[e][s].inode_no = i
      BY DEF EveryFile
    <2>1. CASE i = n
      BY <1>2, <1>3, <1>4, <2>1
    <2>2. CASE i # n
      <3>0. PICK e \in Dirs : \E s \in InUse(f, e) : f.dirdata[e][s].inode_no = i
        BY <1>6, <2>2 DEF Consistent, EveryFile
      <3>1. PICK s \in InUse(f, e) : f.dirdata[e][s].inode_no = i
        BY <3>0
      <3>2. s \in InUse(g, e) /\ ~(e = d /\ s = x)
        BY <1>2, <1>3
      <3> QED BY <1>5, <3>1, <3>2
    <2> QED BY <2>1, <2>2
  <1> QED BY <1>1, <1>7, <1>8, <1>9, <1>10, <1>11 DEF Consistent

(* makeFL of a file that does not exist, under a name that files may have. *)
LEMMA MakeConsistent ==
  ASSUME NEW f, Consistent(f), NEW path, MayMake(f, path), ~isFLExist(f, path), FileName(path)
  PROVE  Consistent(makeFL(f, path))
  <1>1. findUpperDirPos(f, path) \in Dirs /\ WellFormed(f)
    BY UpperDir DEF MayMake
  <1>2. Lookup(f, findUpperDirPos(f, path), Last(path), "FL") = -1
    BY DEF isFLExist, findCurrentFLPos
  <1>3. Matching(f, findUpperDirPos(f, path), Last(path), "FL") = {}
    BY <1>1, <1>2, LookupProperties
  <1>4. getLastLevelName(path) = Last(path) /\ Last(path) \notin Reserved
    BY DEF getLastLevelName, FileName, Reserved
  <1> QED BY <1>3, <1>4, MakeAdds, AddedConsistent

(* The entry rmFL frees is the one of the file's inode. *)
LEMMA FreedIsTheFile ==
  ASSUME NEW f, Consistent(f), NEW path, findUpperDirPos(f, path) \in Dirs, FileName(path),
         findCurrentFLPos(f, path) # -1
  PROVE  \E s \in InUse(f, findUpperDirPos(f, path)) :
           /\ f.dirdata[findUpperDirPos(f, path)][s].inode_no = findCurrentFLPos(f, path)
           /\ Freed(f, path) = {s}
  <1> DEFINE d == findUpperDirPos(f, path)
             n == findCurrentFLPos(f, path)
  <1>1. WellFormed(f)
    BY DEF Consistent
  <1>2. n \in Inodes \ Dirs
    BY <1>1, FilePos
  <1>3. n = Lookup(f, d, Last(path), "FL")
    BY DEF findCurrentFLPos
  <1>4. PICK s \in Matching(f, d, Last(path), "FL") : n = f.dirdata[d][s].inode_no
    BY <1>1, <1>3, LookupProperties
  <1>5. s \in InUse(f, d) /\ f.dirdata[d][s].filename = Last(path)
    BY <1>4 DEF Matching
  <1>6. f.filename[n] = Last(path)
    BY <1>2, <1>4, <1>5 DEF Consistent, EntriesNamed
  <1>7. Named(f, path) = {s}
    <2>1. s \in Named(f, path)
      BY <1>5, <1>6 DEF Named
    <2>2. ASSUME NEW t \in Named(f, path)
          PROVE  t = s
      <3>1. t \in InUse(f, d) /\ f.dirdata[d][t].filename = f.filename[n]
        BY DEF Named
      <3> QED BY <1>5, <1>6, <3>1 DEF Consistent, OneName, FileName
    <2> QED BY <2>1, <2>2
  <1>8. s \in Nat
    BY <1>5, InUseFinite
  <1>9. Min(Named(f, path)) = s
    BY <1>7, <1>8, MinNat
  <1> QED BY <1>4, <1>5, <1>7, <1>9 DEF Freed

LEMMA DroppedConsistent ==
  ASSUME NEW f, Consistent(f), NEW g, NEW d, NEW s, NEW n, Dropped(f, g, d, {s}, n),
         f.dirdata[d][s].inode_no = n
  PROVE  Consistent(g)
  <1>1. WellFormed(f) /\ WellFormed(g)
    BY DroppedWellFormed DEF Consistent
  <1>2. d \in Dirs /\ s \in InUse(f, d) /\ n \in Inodes \ Dirs
    BY DEF Dropped
  <1>3. \A e \in Dirs : InUse(g, e) = IF e = d THEN InUse(f, e) \ {s} ELSE InUse(f, e)
    BY DroppedInUse
  <1>4. g.type = f.type /\ g.filename = f.filename
    BY DEF Dropped
  <1>5. \A i \in Inodes : g.inode_map[i] = (i # n /\ f.inode_map[i])
    BY DEF Dropped
  <1>6. ASSUME NEW e \in Dirs, NEW t \in InUse(g, e)
        PROVE  /\ t \in InUse(f, e) /\ ~(e = d /\ t = s)
               /\ g.dirdata[e][t] = f.dirdata[e][t]
    <2>1. t \in InUse(f, e) /\ ~(e = d /\ t = s)
      BY <1>3
    <2>2. t \in Slots
      BY DEF InUse
    <2>3. g.dirdata[e][t] = f.dirdata[e][t]
      BY <2>1, <2>2 DEF Dropped
    <2> QED BY <2>1, <2>3
  <1>7. ASSUME NEW e \in Dirs, NEW t \in InUse(g, e)
        PROVE  f.dirdata[e][t].inode_no \in Inodes \ {n}
    <2>1. t \in Slots
      BY DEF InUse
    <2>2. f.dirdata[e][t].inode_no \in Inodes
      BY <1>1, <2>1 DEF WellFormed, Images
    <2>3. f.dirdata[e][t].inode_no # n
      BY <1>2, <1>6 DEF Consistent, OneEntry
    <2> QED BY <2>2, <2>3
  <1>8. EntriesInUse(g)
    <2> SUFFICES ASSUME NEW e \in Dirs, NEW t \in InUse(g, e)
                 PROVE  g.inode_map[g.dirdata[e][t].inode_no]
      BY DEF EntriesInUse
    <2>1. f.inode_map[f.dirdata[e][t].inode_no]
      BY <1>6 DEF Consistent, EntriesInUse
    <2> QED BY <1>5, <1>6, <1>7, <2>1, ZenonT(60)
  <1>9. EntriesNamed(g)
    <2> SUFFICES ASSUME NEW e \in Dirs, NEW t \in InUse(g, e)
                 PROVE  IF f.dirdata[e][t].inode_no \in Dirs
                          THEN f.dirdata[e][t].filename \in Reserved
                        ELSE /\ f.type[f.dirdata[e][t].inode_no] = "FL"
                             /\ f.dirdata[e][t].filename = f.filename[f.dirdata[e][t].inode_no]
                             /\ f.dirdata[e][t].filename \notin Reserved
      BY <1>4, <1>6, SMTT(60) DEF EntriesNamed
    <2> QED BY <1>6 DEF Consistent, EntriesNamed
  <1>10. OneEntry(g)
    <2> SUFFICES ASSUME NEW d1 \in Dirs, NEW d2 \in Dirs,
                        NEW s1 \in InUse(g, d1), NEW s2 \in InUse(g, d2),
                        f.dirdata[d1][s1].inode_no = f.dirdata[d2][s2].inode_no,
                        f.dirdata[d1][s1].inode_no \notin Dirs
                 PROVE  d1 = d2 /\ s1 = s2
      BY <1>6, SMTT(60) DEF OneEntry
    <2>1. s1 \in InUse(f, d1) /\ s2 \in InUse(f, d2)
      BY <1>6
    <2> QED BY <2>1 DEF Consistent, OneEntry
  <1>11. OneName(g)
    <2> SUFFICES ASSUME NEW e \in Dirs, NEW t \in InUse(g, e), NEW u \in InUse(g, e),
                        f.dirdata[e][t].filename = f.dirdata[e][u].filename,
                        f.dirdata[e][t].filename \notin Reserved
                 PROVE  t = u
      BY <1>6 DEF OneName
    <2>1. t \in InUse(f, e) /\ u \in InUse(f, e)
      BY <1>6
    <2> QED BY <2>1 DEF Consistent, OneName
  <1>12. EveryFile(g)
    <2> SUFFICES ASSUME NEW i \in Inodes \ Dirs, g.inode_map[i]
                 PROVE  \E e \in Dirs : \E t \in InUse(g, e) : g.dirdata[e][t].inode_no = i
      BY DEF EveryFile
    <2>1. i # n /\ f.inode_map[i]
      BY <1>5
    <2>2. PICK e \in Dirs : \E t \in InUse(f, e) : f.dirdata[e][t].inode_no = i
      BY <2>1 DEF Consistent, EveryFile
    <2>3. PICK t \in InUse(f, e) : f.dirdata[e][t].inode_no = i
      BY <2>2
    <2>4. ~(e = d /\ t = s)
      BY <2>1, <2>3
    <2>5. t \in InUse(g, e)
      BY <1>3, <2>4
    <2> QED BY <1>6, <2>3, <2>5
  <1> QED BY <1>1, <1>8, <1>9, <1>10, <1>11, <1>12 DEF Consistent

LEMMA RemoveConsistent ==
  ASSUME NEW f, Consistent(f), NEW path, APath(path), findUpperDirPos(f, path) # -1,
         FileName(path)
  PROVE  Consistent(rmFL(f, path))
  <1>1. WellFormed(f)
    BY DEF Consistent
  <1>2. findUpperDirPos(f, path) \in Dirs
    BY <1>1, UpperDir
  <1>3. CASE findCurrentFLPos(f, path) = -1
    BY <1>1, <1>3, RemoveDrops
  <1>4. CASE findCurrentFLPos(f, path) # -1
    <2>1. Dropped(f, rmFL(f, path), findUpperDirPos(f, path), Freed(f, path),
                  findCurrentFLPos(f, path))
      BY <1>1, <1>4, RemoveDrops
    <2>2. PICK s : /\ f.dirdata[findUpperDirPos(f, path)][s].inode_no = findCurrentFLPos(f, path)
                   /\ Freed(f, path) = {s}
      BY <1>2, <1>4, FreedIsTheFile
    <2> QED BY <2>1, <2>2, DroppedConsistent
  <1> QED BY <1>3, <1>4

LEMMA WriteConsistent ==
  ASSUME NEW f, Consistent(f), NEW i \in Inodes \ Dirs,
         NEW len \in Int, NEW offset \in Int,
         NEW g, g = writeF(f, i, len, offset)
  PROVE  Consistent(g)
  <1>1. WellFormed(f)
    BY DEF Consistent
  <1>2. /\ WellFormed(g) /\ g.inode_map = f.inode_map /\ g.type = f.type
        /\ g.filename = f.filename /\ g.dirdata = f.dirdata
    BY <1>1, WriteProperties
  <1>3. \A d : InUse(g, d) = InUse(f, d)
    BY <1>2 DEF InUse
  <1>4. EntriesInUse(g) /\ EntriesNamed(g)
    <2>1. EntriesInUse(g)
      BY <1>2, <1>3 DEF Consistent, EntriesInUse
    <2>2. EntriesNamed(g)
      BY <1>2, <1>3 DEF Consistent, EntriesNamed
    <2> QED BY <2>1, <2>2
  <1>5. OneEntry(g) /\ OneName(g)
    BY <1>2, <1>3 DEF Consistent, OneEntry, OneName
  <1>6. EveryFile(g)
    BY <1>2, <1>3 DEF Consistent, EveryFile
  <1> QED BY <1>2, <1>4, <1>5, <1>6 DEF Consistent
=============================================================================
