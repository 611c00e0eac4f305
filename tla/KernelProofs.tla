---------------------------- MODULE KernelProofs ----------------------------
(***************************************************************************)
(* Kernel.tla: the path strings of Paths.tla, the memory of the programs   *)
(* and the files, for every string and every number of PCBs and of cells.  *)
(***************************************************************************)
EXTENDS Kernel, ProcessesProofs

(***************************************************************************)
(* Paths.tla: that the search loops find the components of a path, for     *)
(* every absolute path and every path_offset they may start with.          *)
(***************************************************************************)

(* Ends(path, i) are the places where names end, from i on; FromHere lists *)
(* the names, as the search loops should find them from i on.              *)
Ends(path, i) == {e \in i .. Len(path) : path[e] = "/" \/ e = Len(path)}
EndsBefore(path, i, e) == Cardinality({d \in Ends(path, i) : d < e})
EndOf(path, i, n) == CHOOSE e \in Ends(path, i) : EndsBefore(path, i, e) = n - 1
IsBegin(path, i, e, b) ==
  (b = i \/ path[b - 1] = "/") /\ \A j \in b .. e - 1 : path[j] # "/"
BeginOf(path, i, e) == CHOOSE b \in i .. e : IsBegin(path, i, e, b)
NameTo(path, i, e) == Name(SubSeq(path, BeginOf(path, i, e), e))
FromHere(path, i) ==
  IF i > Len(path) THEN <<Name(<< >>)>>
  ELSE [n \in 1 .. Cardinality(Ends(path, i)) |-> NameTo(path, i, EndOf(path, i, n))]

(* Where the next name ends. *)
Skip(path, i) == Min(Ends(path, i))

(* The ends are finitely many, and the next name ends at the first. *)
LEMMA EndsFinite ==
  ASSUME NEW S, NEW path \in Seq(S), NEW i \in 1 .. Len(path)
  PROVE  /\ IsFiniteSet(Ends(path, i)) /\ Cardinality(Ends(path, i)) \in Nat
         /\ Ends(path, i) \in SUBSET Nat /\ Len(path) \in Ends(path, i)
         /\ Skip(path, i) \in Ends(path, i)
         /\ \A e \in Ends(path, i) : Skip(path, i) <= e
  <1>1. Len(path) \in Nat /\ i \in Nat /\ i <= Len(path)
    BY LenProperties
  <1>2. IsFiniteSet(i .. Len(path))
    BY <1>1, FS_Interval
  <1>3. Ends(path, i) \in SUBSET (i .. Len(path)) /\ Ends(path, i) \in SUBSET Nat
    BY <1>1 DEF Ends
  <1>4. Len(path) \in Ends(path, i)
    BY <1>1 DEF Ends
  <1>5. Skip(path, i) \in Ends(path, i) /\ \A e \in Ends(path, i) : Skip(path, i) <= e
    BY <1>3, <1>4, MinNat DEF Skip
  <1> QED BY <1>2, <1>3, <1>4, <1>5, FS_Subset, FS_CardinalityType

(* Behind the next name the ends are the others, and the names the same. *)
LEMMA NextName ==
  ASSUME NEW S, NEW path \in Seq(S), NEW i \in 1 .. Len(path),
         Skip(path, i) < Len(path)
  PROVE  /\ Skip(path, i) + 1 \in 1 .. Len(path)
         /\ Ends(path, i) = {Skip(path, i)} \cup Ends(path, Skip(path, i) + 1)
         /\ Skip(path, i) \notin Ends(path, Skip(path, i) + 1)
         /\ path[Skip(path, i)] = "/"
         /\ \A e \in Ends(path, Skip(path, i) + 1) :
              /\ BeginOf(path, i, e) = BeginOf(path, Skip(path, i) + 1, e)
              /\ EndsBefore(path, i, e) = EndsBefore(path, Skip(path, i) + 1, e) + 1
              /\ EndsBefore(path, Skip(path, i) + 1, e) \in Nat
         /\ EndsBefore(path, i, Skip(path, i)) = 0
         /\ Cardinality(Ends(path, i)) = Cardinality(Ends(path, Skip(path, i) + 1)) + 1
         /\ Cardinality(Ends(path, Skip(path, i) + 1)) \in Nat
  <1> DEFINE n == Len(path)
             m == Skip(path, i)
             E == Ends(path, i)
             F == Ends(path, m + 1)
  <1>1. /\ n \in Nat /\ i \in Nat /\ m \in Nat /\ i <= m /\ m < n
        /\ m \in E /\ \A e \in E : m <= e
    <2>1. n \in Nat /\ i \in Nat /\ m < n
      BY LenProperties
    <2>2. m \in E /\ \A e \in E : m <= e
      BY EndsFinite
    <2>3. E \subseteq i .. n
      BY DEF Ends
    <2>4. m \in Nat /\ i <= m
      BY <2>1, <2>2, <2>3
    <2> QED BY <2>1, <2>2, <2>4
  <1>2. path[m] = "/" /\ \A j \in i .. m - 1 : path[j] # "/"
    BY <1>1 DEF Ends
  <1>3. E = {m} \cup F /\ m \notin F /\ m + 1 \in 1 .. n
    <2>1. \A e \in E : e = m \/ e \in F
      BY <1>1 DEF Ends
    <2>2. \A e \in F : e \in E /\ e # m
      BY <1>1 DEF Ends
    <2> QED BY <1>1, <2>1, <2>2
  <1>4. IsFiniteSet(F) /\ Cardinality(F) \in Nat
    BY <1>3, EndsFinite
  <1>5. Cardinality(E) = Cardinality(F) + 1
    <2>1. E = F \cup {m}
      BY <1>3
    <2> HIDE DEF E, F, m
    <2> QED BY <1>3, <1>4, <2>1, FS_AddElement
  <1>6. ASSUME NEW e \in F
        PROVE  BeginOf(path, i, e) = BeginOf(path, m + 1, e)
    <2>1. e \in Nat /\ m < e
      BY <1>1 DEF Ends
    <2>2. ASSUME NEW b \in i .. e, IsBegin(path, i, e, b)
          PROVE  b \in m + 1 .. e /\ IsBegin(path, m + 1, e, b)
      <3>1. m \notin b .. e - 1
        BY <1>2, <2>2 DEF IsBegin
      <3>2. b \in Nat /\ m < b /\ b # i
        BY <1>1, <2>1, <3>1
      <3> QED BY <1>1, <2>2, <3>2 DEF IsBegin
    <2>3. ASSUME NEW b \in m + 1 .. e, IsBegin(path, m + 1, e, b)
          PROVE  b \in i .. e /\ IsBegin(path, i, e, b)
      <3>1. b = m + 1 => path[b - 1] = "/"
        BY <1>1, <1>2
      <3>2. b \in i .. e
        BY <1>1, <2>1
      <3> QED BY <2>3, <3>1, <3>2 DEF IsBegin
    <2>4. \A b : b \in i .. e /\ IsBegin(path, i, e, b) <=> b \in m + 1 .. e /\ IsBegin(path, m + 1, e, b)
      BY <2>2, <2>3
    <2> QED BY <2>4, Zenon DEF BeginOf
  <1>7. ASSUME NEW e \in F
        PROVE  EndsBefore(path, i, e) = EndsBefore(path, m + 1, e) + 1 /\ EndsBefore(path, m + 1, e) \in Nat
    <2> DEFINE A == {d \in E : d < e}
               B == {d \in F : d < e}
    <2>1. A = B \cup {m} /\ m \notin B
      BY <1>1, <1>3 DEF Ends
    <2>2. B \in SUBSET F
      OBVIOUS
    <2>3. IsFiniteSet(B) /\ Cardinality(B) \in Nat
      BY <1>4, <2>2, FS_Subset, FS_CardinalityType
    <2> HIDE DEF A, B
    <2>4. Cardinality(A) = Cardinality(B) + 1
      BY <2>1, <2>3, FS_AddElement
    <2> QED BY <2>3, <2>4 DEF EndsBefore, A, B
  <1>8. EndsBefore(path, i, m) = 0
    <2>1. {d \in E : d < m} = {}
      BY <1>1 DEF Ends
    <2> QED BY <2>1, FS_EmptySet DEF EndsBefore
  <1> QED BY <1>2, <1>3, <1>4, <1>5, <1>6, <1>7, <1>8

(* The first end, and where its name begins. *)
LEMMA FirstEnd ==
  ASSUME NEW S, NEW path \in Seq(S), NEW i \in 1 .. Len(path)
  PROVE  /\ EndOf(path, i, 1) = Skip(path, i)
         /\ BeginOf(path, i, Skip(path, i)) = i
         /\ Skip(path, i) = Len(path) => Ends(path, i) = {Len(path)}
  <1> DEFINE n == Len(path)
             m == Skip(path, i)
             E == Ends(path, i)
  <1>1. /\ n \in Nat /\ i \in Nat /\ m \in Nat /\ i <= m /\ m <= n
        /\ m \in E /\ n \in E /\ E \subseteq i .. n /\ \A e \in E : m <= e
    <2>1. n \in Nat /\ i \in Nat
      BY LenProperties
    <2>2. m \in E /\ n \in E /\ \A e \in E : m <= e
      BY EndsFinite
    <2>3. E \subseteq i .. n
      BY DEF Ends
    <2>4. m \in Nat /\ i <= m /\ m <= n
      BY <2>1, <2>2, <2>3
    <2> QED BY <2>1, <2>2, <2>3, <2>4
  <1>2. \A j \in i .. m - 1 : path[j] # "/"
    BY <1>1 DEF Ends
  <1>3. m = n => E = {n}
    BY <1>1
  <1>4. EndOf(path, i, 1) = m
    <2>1. EndsBefore(path, i, m) = 0
      <3>1. {d \in E : d < m} = {}
        BY <1>1
      <3> QED BY <3>1, FS_EmptySet DEF EndsBefore
    <2>2. ASSUME NEW e \in E, EndsBefore(path, i, e) = 0
          PROVE  e = m
      <3>1. {d \in E : d < e} \subseteq E
        OBVIOUS
      <3>2. IsFiniteSet({d \in E : d < e})
        BY <3>1, EndsFinite, FS_Subset
      <3>3. {d \in E : d < e} = {}
        BY <2>2, <3>2, FS_EmptySet DEF EndsBefore
      <3> QED BY <1>1, <3>3
    <2> HIDE DEF m, E
    <2>3. m \in E
      BY <1>1
    <2>4. \A e \in E : EndsBefore(path, i, e) = 1 - 1 <=> e = m
      BY <2>1, <2>2, <2>3
    <2>5. (CHOOSE e \in E : EndsBefore(path, i, e) = 1 - 1) = m
      BY <2>3, <2>4
    <2> QED BY <2>5 DEF EndOf, E
  <1>5. BeginOf(path, i, m) = i
    <2>1. i \in i .. m /\ IsBegin(path, i, m, i)
      BY <1>1, <1>2 DEF IsBegin
    <2>2. ASSUME NEW b \in i .. m, IsBegin(path, i, m, b)
          PROVE  b = i
      BY <1>1, <1>2, <2>2 DEF IsBegin
    <2> QED BY <2>1, <2>2 DEF BeginOf
  <1> QED BY <1>3, <1>4, <1>5

(* The k-th end but the first is the end before it of what is behind. *)
LEMMA NextEnd ==
  ASSUME NEW S, NEW path \in Seq(S), NEW i \in 1 .. Len(path),
         Skip(path, i) < Len(path), NEW k \in Nat, k > 0
  PROVE  EndOf(path, i, k + 1) = EndOf(path, Skip(path, i) + 1, k)
  <1> DEFINE E == Ends(path, i)
             F == Ends(path, Skip(path, i) + 1)
             before(e) == EndsBefore(path, i, e)
             then(e) == EndsBefore(path, Skip(path, i) + 1, e)
  <1>1. E = {Skip(path, i)} \cup F /\ before(Skip(path, i)) = 0
    BY NextName
  <1>2. \A e \in F : before(e) = then(e) + 1 /\ then(e) \in Nat
    BY NextName
  <1> HIDE DEF E, F, before, then
  <1>3. \A e : e \in E /\ before(e) = (k + 1) - 1 <=> e \in F /\ then(e) = k - 1
    BY <1>1, <1>2
  <1>4. (CHOOSE e \in E : before(e) = (k + 1) - 1) = CHOOSE e \in F : then(e) = k - 1
    BY <1>3, Zenon
  <1> QED BY <1>4, Zenon DEF EndOf, E, F, before, then

(* Every name has its end, and the last one ends the string. *)
LEMMA EndsInOrder ==
  ASSUME NEW S, NEW path \in Seq(S), NEW i \in 1 .. Len(path)
  PROVE  /\ \A k \in 1 .. Cardinality(Ends(path, i)) : EndOf(path, i, k) \in Ends(path, i)
         /\ EndOf(path, i, Cardinality(Ends(path, i))) = Len(path)
         /\ Cardinality(Ends(path, i)) \in Nat \ {0}
  <1> DEFINE n == Len(path)
             Card(j) == Cardinality(Ends(path, j))
             Good(j) == /\ \A k \in 1 .. Card(j) : EndOf(path, j, k) \in Ends(path, j)
                        /\ EndOf(path, j, Card(j)) = n
                        /\ Card(j) \in Nat \ {0}
             Bad == {j \in 1 .. n : ~Good(j)}
             Left == {d \in Nat : \E j \in Bad : d = n - j}
  <1>0. n \in Nat
    BY LenProperties
  <1>1. ASSUME NEW j \in 1 .. n, Skip(path, j) = n
        PROVE  Good(j)
    <2>1. Ends(path, j) = {n} /\ EndOf(path, j, 1) = n
      BY <1>1, FirstEnd
    <2>2. Card(j) = 1
      BY <2>1, FS_Singleton
    <2>3. 1 .. 1 = {1}
      OBVIOUS
    <2> QED BY <2>1, <2>2, <2>3
  <1>2. ASSUME NEW j \in 1 .. n, Skip(path, j) < n, Good(Skip(path, j) + 1)
        PROVE  Good(j)
    <2> DEFINE m == Skip(path, j) + 1
    <2>1. /\ Ends(path, j) = {Skip(path, j)} \cup Ends(path, m)
          /\ Card(j) = Card(m) + 1
      BY <1>2, NextName
    <2>2. EndOf(path, j, 1) = Skip(path, j)
      BY FirstEnd
    <2>3. ASSUME NEW k \in 1 .. Card(m)
          PROVE  EndOf(path, j, k + 1) = EndOf(path, m, k)
      <3>1. k \in Nat /\ k > 0
        BY <1>2
      <3> QED BY <1>2, <3>1, NextEnd
    <2> HIDE DEF m, Card
    <2>4. /\ \A k \in 1 .. Card(m) : EndOf(path, m, k) \in Ends(path, m)
          /\ EndOf(path, m, Card(m)) = n
          /\ Card(m) \in Nat \ {0}
      BY <1>2 DEF m, Card
    <2>5. ASSUME NEW k \in 1 .. Card(j)
          PROVE  EndOf(path, j, k) \in Ends(path, j)
      <3>1. CASE k = 1
        BY <2>1, <2>2, <3>1
      <3>2. CASE k # 1
        <4>1. k - 1 \in 1 .. Card(m) /\ k = (k - 1) + 1
          BY <2>1, <2>4, <3>2
        <4> QED BY <2>1, <2>3, <2>4, <4>1
      <3> QED BY <3>1, <3>2
    <2>6. EndOf(path, j, Card(j)) = n /\ Card(j) \in Nat \ {0}
      <3>1. Card(m) \in 1 .. Card(m)
        BY <2>4
      <3> QED BY <2>1, <2>3, <2>4, <3>1
    <2> QED BY <2>5, <2>6 DEF Card
  <1> HIDE DEF Good
  <1>3. Bad = {}
    <2> SUFFICES ASSUME Bad # {} PROVE FALSE
      OBVIOUS
    <2>1. PICK b \in Bad : TRUE
      OBVIOUS
    <2>2. n - b \in Left
      BY <1>0
    <2>3. PICK d \in Left : \A c \in Left : d <= c
      <3>1. Left \in SUBSET Nat /\ Left # {}
        BY <2>2
      <3> QED BY <3>1, LeastNat
    <2>4. PICK j \in Bad : d = n - j
      OBVIOUS
    <2>5. j \in 1 .. n /\ ~Good(j)
      OBVIOUS
    <2>6. Skip(path, j) \in Nat /\ j <= Skip(path, j) /\ Skip(path, j) <= n
      <3>1. Skip(path, j) \in Ends(path, j)
        BY <2>5, EndsFinite
      <3> QED BY <1>0, <2>5, <3>1 DEF Ends
    <2>7. Skip(path, j) < n
      BY <1>0, <1>1, <2>5, <2>6
    <2>8. Skip(path, j) + 1 \in 1 .. n /\ ~Good(Skip(path, j) + 1)
      BY <1>0, <1>2, <2>5, <2>6, <2>7
    <2>9. n - (Skip(path, j) + 1) \in Left
      BY <1>0, <2>6, <2>7, <2>8, SMTT(60)
    <2>10. n - (Skip(path, j) + 1) < n - j
      BY <1>0, <2>5, <2>6
    <2>11. d <= n - (Skip(path, j) + 1)
      BY <2>3, <2>9
    <2>12. d = n - j
      BY <2>4
    <2> HIDE DEF n, Left, Bad
    <2> QED BY <1>0, <2>5, <2>6, <2>10, <2>11, <2>12
  <1> QED BY <1>3 DEF Good

(* One turn of the search loops: the next name, up to its end. *)
LEMMA OneTurn ==
  ASSUME NEW S, NEW path \in Seq(S), NEW i \in 1 .. Len(path)
  PROVE  /\ lastLevel(From(path, i)) <=> Skip(path, i) = Len(path)
         /\ Skip(path, i) < Len(path) =>
              /\ getTopDir(From(path, i), 0) = Skip(path, i) - i + 1
              /\ SubSeq(From(path, i), 1, Skip(path, i) - i + 1) = SubSeq(path, i, Skip(path, i))
  <1> DEFINE n == Len(path)
             m == Skip(path, i)
             rest == From(path, i)
  <1>1. n \in Nat /\ i \in Nat /\ 1 <= i /\ i <= n /\ \A j \in 1 .. n : path[j] \in S
    BY LenProperties
  <1>2. /\ m \in Nat /\ i <= m /\ m <= n
        /\ path[m] = "/" \/ m = n
        /\ \A j \in i .. m - 1 : path[j] # "/"
    <2>1. m \in Ends(path, i) /\ \A e \in Ends(path, i) : m <= e
      BY EndsFinite
    <2>2. m \in Nat /\ i <= m /\ m <= n /\ (path[m] = "/" \/ m = n)
      BY <1>1, <2>1 DEF Ends
    <2>3. ASSUME NEW j \in i .. m - 1
          PROVE  path[j] # "/"
      <3>1. j \in i .. n /\ ~(m <= j)
        BY <1>1, <2>2
      <3> QED BY <2>1, <3>1 DEF Ends
    <2> QED BY <2>2, <2>3
  <1>3. /\ rest \in Seq(S) /\ Len(rest) = n - i + 1
        /\ \A j \in 1 .. n - i + 1 : rest[j] = path[i + j - 1]
    <2>1. \A j \in i .. n : path[j] \in S
      BY <1>1
    <2> QED BY <1>1, <2>1, SubSeqProperties DEF From
  <1> HIDE DEF rest, m, n
  <1>4. lastLevel(rest) <=> m = n
    <2>1. ASSUME m = n
          PROVE  lastLevel(rest)
      <3>1. ASSUME NEW j \in 1 .. Len(rest) - 1
            PROVE  rest[j] # "/"
        <4>1. j \in 1 .. n - i + 1 /\ i + j - 1 \in i .. m - 1
          BY <1>1, <1>2, <1>3, <2>1
        <4> QED BY <1>2, <1>3, <4>1
      <3> QED BY <3>1 DEF lastLevel
    <2>2. ASSUME m < n
          PROVE  ~lastLevel(rest)
      <3>1. m - i + 1 \in 1 .. Len(rest) - 1 /\ m - i + 1 \in 1 .. n - i + 1
            /\ i + (m - i + 1) - 1 = m
        BY <1>1, <1>2, <1>3, <2>2
      <3>2. rest[m - i + 1] = "/"
        BY <1>1, <1>2, <1>3, <2>2, <3>1
      <3> QED BY <3>1, <3>2 DEF lastLevel
    <2> QED BY <1>1, <1>2, <2>1, <2>2
  <1>5. ASSUME m < n
        PROVE  /\ getTopDir(rest, 0) = m - i + 1
               /\ SubSeq(rest, 1, m - i + 1) = SubSeq(path, i, m)
    <2> DEFINE slashes == {j \in 1 .. Len(rest) : rest[j] = "/"}
               k == m - i + 1
    <2>1. k \in 1 .. n - i + 1 /\ i + k - 1 = m /\ k \in Nat
      BY <1>1, <1>2, <1>5
    <2>2. rest[k] = "/" /\ k \in slashes
      BY <1>2, <1>3, <1>5, <2>1
    <2>3. ASSUME NEW j \in slashes
          PROVE  k <= j
      <3>1. j \in Nat /\ j \in 1 .. n - i + 1 /\ path[i + j - 1] = "/"
        BY <1>1, <1>3
      <3>2. i + j - 1 \notin i .. m - 1
        BY <1>2, <3>1
      <3> QED BY <1>1, <1>2, <3>1, <3>2
    <2>4. slashes \in SUBSET Nat
      BY <1>1, <1>3
    <2>5. Min(slashes) = k
      <3> HIDE DEF slashes, k
      <3> QED BY <2>2, <2>3, <2>4, MinIs
    <2>6. getTopDir(rest, 0) = k
      BY <2>2, <2>5 DEF getTopDir
    <2>7. SubSeq(rest, 1, k) = SubSeq(path, i, i + k - 1)
      <3>1. i \in 1 .. Len(path) /\ n \in 1 .. Len(path) /\ 1 \in 1 .. n - i + 1
        BY <1>1 DEF n
      <3>2. SubSeq(SubSeq(path, i, n), 1, k) = SubSeq(path, i + 1 - 1, i + k - 1)
        BY <2>1, <3>1, SubSeqOfSubSeq
      <3>3. i + 1 - 1 = i
        BY <1>1
      <3>4. rest = SubSeq(path, i, n)
        BY DEF rest, From, n
      <3> QED BY <3>2, <3>3, <3>4
    <2> QED BY <2>1, <2>6, <2>7
  <1> QED BY <1>4, <1>5 DEF rest, m, n

(* From each place on the loops find the names FromHere lists. *)
Turn(path, f, i) ==
  LET rest == From(path, i)
      k == getTopDir(rest, 0)
  IN  IF lastLevel(rest) THEN <<Name(rest)>>
      ELSE <<Name(SubSeq(rest, 1, k))>> \o f[i + k]
Found(path) == [i \in 1 .. Len(path) + 1 |-> FromHere(path, i)]

LEMMA FoundTurns ==
  ASSUME NEW S, NEW path \in Seq(S), NEW i \in 1 .. Len(path) + 1
  PROVE  Turn(path, Found(path), i) = FromHere(path, i)
  <1> DEFINE n == Len(path)
             m == Skip(path, i)
  <1>1. n \in Nat /\ i \in Nat /\ 1 <= i /\ i <= n + 1 /\ \A j \in 1 .. n : path[j] \in S
    BY LenProperties
  <1>2. CASE i = n + 1
    <2>1. From(path, i) = << >>
      BY <1>1, <1>2, SubSeqEmpty DEF From
    <2>2. lastLevel(From(path, i))
      BY <2>1 DEF lastLevel
    <2>3. i > Len(path)
      BY <1>1, <1>2
    <2> QED BY <2>1, <2>2, <2>3 DEF Turn, FromHere
  <1>3. CASE i \in 1 .. n /\ m = n
    <2>1. Ends(path, i) = {n} /\ EndOf(path, i, 1) = n /\ BeginOf(path, i, n) = i
      BY <1>3, FirstEnd
    <2>2. Cardinality(Ends(path, i)) = 1
      BY <2>1, FS_Singleton
    <2>3. FromHere(path, i) = <<Name(From(path, i))>>
      <3>1. ~(i > Len(path))
        BY <1>1, <1>3
      <3>2. NameTo(path, i, EndOf(path, i, 1)) = Name(From(path, i))
        BY <2>1 DEF NameTo, From
      <3>3. FromHere(path, i) = [k \in 1 .. 1 |-> NameTo(path, i, EndOf(path, i, k))]
        BY <2>2, <3>1 DEF FromHere
      <3> QED BY <3>2, <3>3
    <2>4. lastLevel(From(path, i))
      BY <1>3, OneTurn
    <2> QED BY <2>3, <2>4 DEF Turn
  <1>4. CASE i \in 1 .. n /\ m < n
    <2> DEFINE E == Ends(path, i)
               F == Ends(path, m + 1)
               c == Cardinality(F)
               first == Name(SubSeq(path, i, m))
               mine(k) == NameTo(path, i, EndOf(path, i, k))
               next(k) == NameTo(path, m + 1, EndOf(path, m + 1, k))
               T == {first} \cup {next(k) : k \in 1 .. c}
    <2>1. /\ ~lastLevel(From(path, i)) /\ getTopDir(From(path, i), 0) = m - i + 1
          /\ SubSeq(From(path, i), 1, m - i + 1) = SubSeq(path, i, m)
      <3>1. m \in Ends(path, i)
        BY <1>4, EndsFinite
      <3>2. m \in Nat /\ m # n
        BY <1>1, <1>4, <3>1 DEF Ends
      <3> QED BY <1>4, <3>2, OneTurn
    <2>2. m \in Nat /\ m + 1 \in 1 .. n /\ i + (m - i + 1) = m + 1
      <3>1. m \in Ends(path, i)
        BY <1>4, EndsFinite
      <3> QED BY <1>1, <1>4, <3>1 DEF Ends
    <2>3. Turn(path, Found(path), i) = <<first>> \o FromHere(path, m + 1)
      <3>1. m + 1 \in 1 .. Len(path) + 1
        BY <1>1, <2>2
      <3>2. Found(path)[m + 1] = FromHere(path, m + 1)
        BY <3>1 DEF Found
      <3> HIDE DEF m
      <3> QED BY <2>1, <2>2, <3>2 DEF Turn
    <2>4. /\ Cardinality(E) = c + 1 /\ c \in Nat
          /\ \A e \in F : BeginOf(path, i, e) = BeginOf(path, m + 1, e)
      BY <1>4, NextName
    <2>5. mine(1) = first
      BY <1>4, FirstEnd DEF NameTo
    <2>6. ASSUME NEW k \in 1 .. c
          PROVE  mine(k + 1) = next(k)
      <3>1. k \in Nat /\ k > 0
        BY <2>4
      <3>2. EndOf(path, i, k + 1) = EndOf(path, m + 1, k)
        BY <1>4, <3>1, NextEnd
      <3>3. EndOf(path, m + 1, k) \in F
        BY <2>2, EndsInOrder
      <3> QED BY <2>4, <3>2, <3>3 DEF NameTo
    <2>7. FromHere(path, m + 1) = [k \in 1 .. c |-> next(k)]
      <3>1. ~(m + 1 > Len(path))
        BY <1>1, <2>2
      <3> QED BY <3>1 DEF FromHere
    <2>8. FromHere(path, i) = [k \in 1 .. c + 1 |-> mine(k)]
      <3>1. ~(i > Len(path))
        BY <1>1, <1>4
      <3> QED BY <2>4, <3>1 DEF FromHere
    <2> HIDE DEF mine, next, c, first
    <2>9. [k \in 1 .. c |-> next(k)] \in Seq(T) /\ Len([k \in 1 .. c |-> next(k)]) = c
      <3>1. \A k \in 1 .. c : next(k) \in T
        OBVIOUS
      <3>2. [k \in 1 .. c |-> next(k)] \in Seq(T)
        BY <2>4, <3>1, IsASeq
      <3> QED BY <2>4, <3>2
    <2>10. <<first>> \in Seq(T) /\ Len(<<first>>) = 1 /\ <<first>>[1] = first
      OBVIOUS
    <2>11. [k \in 1 .. c + 1 |-> mine(k)] \in Seq(T) /\ Len([k \in 1 .. c + 1 |-> mine(k)]) = c + 1
      <3>1. ASSUME NEW k \in 1 .. c + 1
            PROVE  mine(k) \in T
        <4>1. k = 1 \/ (k - 1 \in 1 .. c /\ k = (k - 1) + 1)
          BY <2>4
        <4> QED BY <2>5, <2>6, <4>1
      <3>2. c + 1 \in Nat
        BY <2>4
      <3>3. [k \in 1 .. c + 1 |-> mine(k)] \in Seq(T)
        BY <3>1, <3>2, IsASeq
      <3> QED BY <3>2, <3>3
    <2> HIDE DEF T
    <2>12. <<first>> \o [k \in 1 .. c |-> next(k)] = [k \in 1 .. c + 1 |-> mine(k)]
      <3> DEFINE u == <<first>>
                 v == [k \in 1 .. c |-> next(k)]
                 w == [k \in 1 .. c + 1 |-> mine(k)]
      <3>1. /\ u \o v \in Seq(T) /\ Len(u \o v) = 1 + c
            /\ \A k \in 1 .. 1 + c : (u \o v)[k] = IF k <= 1 THEN u[1] ELSE v[k - 1]
        <4>1. u \in Seq(T) /\ v \in Seq(T) /\ Len(u) = 1 /\ Len(v) = c
          BY <2>9, <2>10
        <4> HIDE DEF u, v
        <4>2. /\ u \o v \in Seq(T) /\ Len(u \o v) = 1 + c
              /\ \A k \in 1 .. 1 + c : (u \o v)[k] = IF k <= 1 THEN u[k] ELSE v[k - 1]
          <5>1. /\ u \o v \in Seq(T) /\ Len(u \o v) = Len(u) + Len(v)
                /\ \A k \in 1 .. Len(u) + Len(v) :
                     (u \o v)[k] = IF k <= Len(u) THEN u[k] ELSE v[k - Len(u)]
            BY <4>1, ConcatProperties
          <5> QED BY <4>1, <5>1
        <4> QED BY <2>4, <4>2, SMTT(60)
      <3>2. ASSUME NEW k \in 1 .. c + 1
            PROVE  (u \o v)[k] = w[k]
        <4>1. CASE k = 1
          BY <2>4, <2>5, <2>10, <3>1, <4>1
        <4>2. CASE k # 1
          <5>1. k - 1 \in 1 .. c /\ k = (k - 1) + 1 /\ ~(k <= 1)
            BY <2>4, <4>2
          <5>2. v[k - 1] = next(k - 1) /\ w[k] = mine(k) /\ mine(k) = next(k - 1)
            BY <2>6, <5>1
          <5>3. k \in 1 .. 1 + c
            BY <2>4
          <5> HIDE DEF u, v, w
          <5> QED BY <3>1, <5>1, <5>2, <5>3
        <4> QED BY <4>1, <4>2
      <3>3. w \in Seq(T) /\ Len(w) = c + 1
        BY <2>11
      <3> HIDE DEF u, v, w
      <3>4. Len(u \o v) = Len(w) /\ \A k \in 1 .. Len(u \o v) : (u \o v)[k] = w[k]
        BY <2>4, <3>1, <3>2, <3>3
      <3>5. u \o v = w
        BY <3>1, <3>3, <3>4, SeqEqual
      <3> QED BY <3>5 DEF u, v, w
    <2> QED BY <2>3, <2>7, <2>8, <2>12
  <1>5. i = n + 1 \/ (i \in 1 .. n /\ (m = n \/ m < n))
    <2>1. CASE i \in 1 .. n
      <3>1. m \in Ends(path, i)
        BY <2>1, EndsFinite
      <3>2. m \in Nat /\ m <= n
        BY <1>1, <3>1 DEF Ends
      <3> HIDE DEF m
      <3> QED BY <1>1, <2>1, <3>2
    <2> QED BY <1>1, <2>1
  <1> QED BY <1>2, <1>3, <1>4, <1>5

(* A turn looks at what is found behind the next name only. *)
LEMMA TurnsAgree ==
  ASSUME NEW S, NEW path \in Seq(S), NEW i \in 1 .. Len(path) + 1, NEW f, NEW g,
         \A j \in i + 1 .. Len(path) + 1 : f[j] = g[j]
  PROVE  Turn(path, f, i) = Turn(path, g, i)
  <1> DEFINE n == Len(path)
             m == Skip(path, i)
  <1>1. n \in Nat /\ i \in Nat /\ 1 <= i /\ i <= n + 1
    BY LenProperties
  <1>2. CASE lastLevel(From(path, i))
    BY <1>2 DEF Turn
  <1>3. CASE ~lastLevel(From(path, i))
    <2>1. i # n + 1
      <3>1. i = n + 1 => From(path, i) = << >>
        BY <1>1, SubSeqEmpty DEF From
      <3>2. lastLevel(<< >>)
        BY DEF lastLevel
      <3> QED BY <1>3, <3>1, <3>2
    <2>2. i \in 1 .. n
      BY <1>1, <2>1
    <2>3. m \in Nat /\ i <= m /\ m <= n /\ m # n
      <3>1. m \in Ends(path, i)
        BY <2>2, EndsFinite
      <3>2. m # n
        BY <1>3, <2>2, OneTurn
      <3> QED BY <1>1, <3>1, <3>2 DEF Ends
    <2>4. getTopDir(From(path, i), 0) = m - i + 1
      BY <1>1, <2>2, <2>3, OneTurn
    <2> HIDE DEF m, n
    <2>5. i + getTopDir(From(path, i), 0) \in i + 1 .. n + 1
      BY <1>1, <2>3, <2>4
    <2>6. f[i + getTopDir(From(path, i), 0)] = g[i + getTopDir(From(path, i), 0)]
      BY <2>5 DEF n
    <2> QED BY <1>3, <2>6 DEF Turn
  <1> QED BY <1>2, <1>3

(***************************************************************************)
(* What the search loops find in an absolute path, whatever offset they    *)
(* start with.  (The recursive function is shown to exist by giving it,    *)
(* and to be the only one by a place, last in the string, where another    *)
(* one would differ.)                                                      *)
(***************************************************************************)
LEMMA NamesFound ==
  ASSUME NEW S, NEW path \in Seq(S), IsAbsolute(path), NEW offset
  PROVE  Names(path, offset) = FromHere(path, 2)
  <1> DEFINE n == Len(path)
             Eqn(g) == g = [i \in 1 .. Len(path) + 1 |-> Turn(path, g, i)]
             F == CHOOSE g : Eqn(g)
  <1>1. n \in Nat /\ 1 <= n /\ path[1] = "/"
    BY LenProperties, EmptySeq DEF IsAbsolute
  <1>2. getTopDir(path, offset) = 1
    <2> DEFINE slashes == {i \in 1 .. n : path[i] = "/"}
    <2>1. slashes \in SUBSET Nat /\ 1 \in slashes /\ \A y \in slashes : 1 <= y
      BY <1>1
    <2>2. Min(slashes) = 1
      <3> HIDE DEF slashes
      <3> QED BY <2>1, MinIs
    <2> QED BY <2>1, <2>2 DEF getTopDir
  <1>3. Names(path, offset) = F[2]
    <2>1. ~(1 > Len(path)) /\ 1 + 1 = 2
      BY <1>1
    <2> QED BY <1>2, <2>1 DEF Names, Turn
  <1> HIDE DEF n
  <1>4. \E g : Eqn(g)
    <2>1. \A i \in 1 .. Len(path) + 1 : Turn(path, Found(path), i) = FromHere(path, i)
      BY FoundTurns
    <2>2. [i \in 1 .. Len(path) + 1 |-> FromHere(path, i)]
            = [i \in 1 .. Len(path) + 1 |-> Turn(path, Found(path), i)]
      BY <2>1
    <2>3. Eqn(Found(path))
      BY <2>2 DEF Found
    <2> QED BY <2>3
  <1>5. Eqn(F)
    BY <1>4
  <1> HIDE DEF F
  <1>6. ASSUME NEW i \in 1 .. n + 1
        PROVE  F[i] = Turn(path, F, i) /\ Found(path)[i] = Turn(path, Found(path), i)
    BY <1>5, FoundTurns DEF n, Found
  <1>7. \A i \in 1 .. n + 1 : F[i] = Found(path)[i]
    <2> DEFINE Off == {i \in 1 .. n + 1 : F[i] # Found(path)[i]}
               Left == {d \in Nat : \E i \in Off : d = n + 1 - i}
    <2> SUFFICES ASSUME NEW b \in Off PROVE FALSE
      OBVIOUS
    <2>1. n + 1 - b \in Left
      BY <1>1
    <2>2. PICK d \in Left : \A c \in Left : d <= c
      <3>1. Left \in SUBSET Nat /\ Left # {}
        BY <2>1
      <3> HIDE DEF Left
      <3> QED BY <3>1, LeastNat
    <2>3. PICK i \in Off : d = n + 1 - i
      OBVIOUS
    <2>4. i \in 1 .. n + 1 /\ F[i] # Found(path)[i]
      OBVIOUS
    <2>5. ASSUME NEW j \in i + 1 .. n + 1
          PROVE  F[j] = Found(path)[j]
      <3>1. j \in 1 .. n + 1 /\ j \in Int /\ i \in Int /\ i < j /\ n + 1 - j \in Nat
        BY <1>1, <2>4
      <3>2. CASE j \in Off
        <4>1. n + 1 - j \in Left
          BY <3>1, <3>2
        <4>2. d <= n + 1 - j /\ d = n + 1 - i
          BY <2>2, <2>3, <4>1
        <4> QED BY <1>1, <3>1, <4>2
      <3> QED BY <3>1, <3>2
    <2>6. Turn(path, F, i) = Turn(path, Found(path), i)
      BY <2>4, <2>5, TurnsAgree DEF n
    <2> QED BY <1>6, <2>4, <2>6
  <1>8. 2 \in 1 .. n + 1
    BY <1>1
  <1> QED BY <1>3, <1>7, <1>8 DEF Found, n

(* Its names are its components. *)
LEMMA FoundComponents ==
  ASSUME NEW S, NEW path \in Seq(S), IsAbsolute(path)
  PROVE  FromHere(path, 2) = Components(path)
  <1>1. Len(path) \in Nat /\ 1 <= Len(path) /\ path[1] = "/"
    BY LenProperties, EmptySeq DEF IsAbsolute
  <1>2. CASE Len(path) = 1
    BY <1>2 DEF FromHere, Components
  <1>3. CASE Len(path) # 1
    <2> DEFINE end(n) == CHOOSE e \in Ends(path, 2) :
                           Cardinality({d \in Ends(path, 2) : d < e}) = n - 1
               begin(e) == CHOOSE b \in 2 .. e : /\ path[b - 1] = "/"
                                                 /\ \A i \in b .. e - 1 : path[i] # "/"
    <2>1. \A e, b : b \in 2 .. e /\ IsBegin(path, 2, e, b)
              <=> b \in 2 .. e /\ path[b - 1] = "/" /\ \A i \in b .. e - 1 : path[i] # "/"
      <3>1. path[2 - 1] = "/"
        BY <1>1
      <3> QED BY <3>1 DEF IsBegin
    <2>2. \A e : BeginOf(path, 2, e) = begin(e)
      BY <2>1, Zenon DEF BeginOf
    <2>3. \A n : EndOf(path, 2, n) = end(n)
      BY Zenon DEF EndOf, EndsBefore
    <2>4. Components(path) =
            [n \in 1 .. Cardinality(Ends(path, 2)) |-> Name(SubSeq(path, begin(end(n)), end(n)))]
      BY <1>3, Zenon DEF Components, Ends
    <2>5. FromHere(path, 2) =
            [n \in 1 .. Cardinality(Ends(path, 2)) |->
               Name(SubSeq(path, BeginOf(path, 2, EndOf(path, 2, n)), EndOf(path, 2, n)))]
      <3>1. ~(2 > Len(path))
        <4> DEFINE len == Len(path)
        <4>1. len \in Nat /\ 1 <= len /\ len # 1
          BY <1>1, <1>3
        <4> HIDE DEF len
        <4>2. ~(2 > len)
          BY <4>1
        <4> QED BY <4>2 DEF len
      <3> QED BY <3>1 DEF FromHere, NameTo
    <2> HIDE DEF end, begin
    <2> QED BY <2>2, <2>3, <2>4, <2>5
  <1> QED BY <1>2, <1>3

(* The last of them is the one that getLastLevelName gives a new file. *)
LEMMA LastComponent ==
  ASSUME NEW S, NEW path \in Seq(S), IsAbsolute(path), Len(path) > 1
  PROVE  Last(FromHere(path, 2)) = getLastLevelName(path)
  <1> DEFINE n == Len(path)
             c == Cardinality(Ends(path, 2))
             b == BeginOf(path, 2, n)
             slashes == {i \in 1 .. n - 1 : path[i] = "/"}
  <1>1. n \in Nat /\ 2 <= n /\ path[1] = "/" /\ 2 \in 1 .. n
    BY LenProperties, EmptySeq DEF IsAbsolute
  <1>2. c \in Nat \ {0} /\ EndOf(path, 2, c) = n
    BY <1>1, EndsInOrder
  <1>3. FromHere(path, 2) = [k \in 1 .. c |-> NameTo(path, 2, EndOf(path, 2, k))]
    BY <1>1 DEF FromHere
  <1>4. Last(FromHere(path, 2)) = Name(SubSeq(path, b, n))
    <2> DEFINE w == [k \in 1 .. c |-> NameTo(path, 2, EndOf(path, 2, k))]
    <2>1. w[c] = Name(SubSeq(path, b, n)) /\ Len(w) = c
      BY <1>2 DEF NameTo
    <2> HIDE DEF w
    <2> QED BY <1>3, <2>1 DEF Last, w
  <1>5. Max(slashes) \in slashes /\ \A y \in slashes : y <= Max(slashes)
    <2>1. slashes \in SUBSET Int /\ 1 \in slashes /\ IsFiniteSet(slashes)
      <3>1. IsFiniteSet(1 .. n - 1) /\ slashes \subseteq 1 .. n - 1
        BY <1>1, FS_Interval
      <3> QED BY <1>1, <3>1, FS_Subset
    <2> HIDE DEF slashes
    <2>2. slashes \in SUBSET (1 .. n - 1)
      BY DEF slashes
    <2>3. n - 1 \in Nat
      BY <1>1
    <2> QED BY <2>1, <2>2, <2>3, MaxNat
  <1>6. b = Max(slashes) + 1
    <2> DEFINE M == Max(slashes)
    <2>1. M \in 1 .. n - 1 /\ path[M] = "/" /\ \A i \in 1 .. n - 1 : path[i] = "/" => i <= M
      BY <1>5
    <2> HIDE DEF M, slashes
    <2>2. M + 1 \in 2 .. n /\ IsBegin(path, 2, n, M + 1)
      <3>1. M + 1 - 1 = M /\ M + 1 \in 2 .. n
        BY <1>1, <2>1
      <3>2. \A j \in M + 1 .. n - 1 : path[j] # "/"
        BY <1>1, <2>1
      <3> QED BY <2>1, <3>1, <3>2 DEF IsBegin
    <2>3. ASSUME NEW a \in 2 .. n, IsBegin(path, 2, n, a)
          PROVE  a = M + 1
      <3>1. path[a - 1] = "/" /\ \A j \in a .. n - 1 : path[j] # "/"
        BY <1>1, <2>3 DEF IsBegin
      <3>2. a - 1 <= M /\ ~(a <= M)
        BY <1>1, <2>1, <3>1
      <3> QED BY <2>1, <3>2
    <2> QED BY <2>2, <2>3 DEF BeginOf, M
  <1>7. slashes # {}
    BY <1>1
  <1> QED BY <1>4, <1>6, <1>7 DEF getLastLevelName, From

(***************************************************************************)
(* The names the search loops find in an absolute path are its components, *)
(* whatever path_offset the last search has left, and the name makeFL      *)
(* takes for a new file is the last of them, except for "/".               *)
(***************************************************************************)
THEOREM NamesAreComponents ==
  ASSUME NEW S, NEW path \in Seq(S), IsAbsolute(path), NEW offset
  PROVE  /\ Names(path, offset) = Components(path)
         /\ Len(path) > 1 => getLastLevelName(path) = Last(Components(path))
  BY NamesFound, FoundComponents, LastComponent

-----------------------------------------------------------------------------
(***************************************************************************)
(* The memory of the programs, the paths and the files, for every number   *)
(* of PCBs, of cells and of strings.                                       *)
(***************************************************************************)

(* The father is pcb[1] and its one child pcb[2], so that each live        *)
(* process has a region of its own.                                        *)
TwoRegions ==
  /\ Live \subseteq {1, 2}
  /\ mem \in [Regions -> [Cells -> Strings]]

KInv == IInv /\ TwoRegions

(* Live is what p_num counts. *)
LEMMA LiveFacts ==
  ASSUME IInv
  PROVE  /\ Live = Pcbs \ In("DEAD")
         /\ current # Idle => current \in Live
         /\ Live = {1} => p_num = 2
  <1>1. Live = Pcbs \ In("DEAD")
    BY DEF Live, In
  <1>2. current # Idle => current \in Live
    BY ProcsFacts DEF Live, IInv, SchedInv, SchedTypes, OneRuns
  <1>3. Live = {1} => p_num = 2
    <2>1. Cardinality({1}) = 1
      BY FS_Singleton
    <2>2. p_num = 1 + Cardinality(Live)
      BY <1>1 DEF IInv, CountInv, CountsProcesses
    <2> QED BY <2>1, <2>2
  <1> QED BY <1>1, <1>2, <1>3

-----------------------------------------------------------------------------
(* What each kind of step does to the set of live processes and to memory. *)
Calls ==
  \/ \E c \in Cells : OpenOrRemove(c) \/ Cat(c)
  \/ \E fd \in Files!Fds : CloseFile(fd)
  \/ \E fd \in Files!Fds, len \in Lens, c \in Cells :
       WriteBuffer(fd, len, c) \/ \E s \in Strings : ReadBuffer(fd, len, c, s)
  \/ \E c \in Cells, s \in Strings : Compute(c, s)

(* Calls to the file system, and computing, leave the processes alone. *)
LEMMA CallsLeaveProcesses ==
  ASSUME Calls \/ Stopped \/ UNCHANGED allVars
  PROVE  UNCHANGED vars
  BY DEF Calls, OpenOrRemove, Cat, Walk, CloseFile, WriteBuffer, ReadBuffer, Compute,
         Stopped, allVars

(* Every step of the kernel is, for the scheduler, one of Processes.tla. *)
LEMMA KernelKeepsIInv ==
  ASSUME IInv, [KernelNext]_allVars
  PROVE  IInv'
  <1>1. CASE Calls \/ Stopped \/ UNCHANGED allVars
    BY <1>1, CallsLeaveProcesses, NextKeeps
  <1>2. CASE Scheduling \/ ForkAll \/ ExitAll
    <2>1. Next
      BY <1>2 DEF Scheduling, ForkAll, ExitAll, Next, Syscall
    <2> QED BY <2>1, NextKeeps
  <1> QED BY <1>1, <1>2 DEF KernelNext, Calls

(* fork adds pcb[2], which is on the free list while the father is alone,  *)
(* exit takes its caller out, and nothing else changes the set of live     *)
(* processes.                                                              *)
LEMMA LiveEffects ==
  ASSUME IInv, [KernelNext]_allVars
  PROVE  /\ ForkAll => Live' = {1, 2} /\ 2 \in Pcbs /\ UNCHANGED <<current, panic>>
         /\ ExitAll => Live' = Live \ {current}
         /\ Scheduling => Live' = Live
         /\ Calls \/ Stopped \/ UNCHANGED allVars => Live' = Live
  <1>1. ASSUME ForkAll
        PROVE  Live' = {1, 2} /\ 2 \in Pcbs /\ UNCHANGED <<current, panic>>
    <2>1. Live = {1} /\ p_num = 2 /\ Fork
      BY <1>1, LiveFacts DEF ForkAll, OneChild
    <2>2. 1 \in Pcbs /\ 2 \in Pcbs
      <3>1. 2 < MaxPcb
        BY <2>1, KernelAssumption DEF KernelAssumption, Fork, Rule
      <3> QED BY <3>1, ConstantsAssumption DEF ConstantsAssumption, Pcbs
    <2>3. OnList(free_list, 2)
      <3>1. Lists(Pcbs, free_list, Pcbs \ Live)
        BY LiveFacts DEF IInv, SchedInv, ListInv, Live, In
      <3>2. 2 \in Pcbs \ Live
        BY <2>1, <2>2
      <3> QED BY <3>1, <3>2, OnListProperties DEF Lists
    <2>4. /\ state' = [state EXCEPT ![2] = "RUNNABLE"]
          /\ UNCHANGED <<current, panic>>
      BY <2>1, <2>3 DEF Fork
    <2>5. \A p \in Pcbs : state'[p] = IF p = 2 THEN "RUNNABLE" ELSE state[p]
      BY <2>4, ProcsFacts DEF IInv, SchedInv, SchedTypes
    <2>6. \A p \in Pcbs : state[p] # "DEAD" <=> p = 1
      BY <2>1, <2>2 DEF Live
    <2>7. \A p \in Pcbs : state'[p] # "DEAD" <=> p \in {1, 2}
      BY <2>5, <2>6
    <2> QED BY <2>2, <2>4, <2>7 DEF Live
  <1>2. ASSUME ExitAll
        PROVE  Live' = Live \ {current}
    <2>1. In("DEAD")' = In("DEAD") \cup {current}
      BY <1>2, GiveUpCpuKeeps DEF ExitAll, Exit, InUser, IInv, SchedInv, SchedTypes
    <2>2. Live = Pcbs \ In("DEAD") /\ Live' = Pcbs \ In("DEAD")'
      BY DEF Live, In
    <2> QED BY <2>1, <2>2
  <1>3. ASSUME Scheduling
        PROVE  Live' = Live
    <2>1. In("DEAD")' = In("DEAD")
      <3>1. CASE Timer
        BY <3>1, TimerKeeps
      <3>2. CASE \E time \in SleepTimes : Sleep(time)
        <4>1. PICK time \in SleepTimes : Sleep(time)
          BY <3>2
        <4>2. [sleepTime EXCEPT ![current] = time] \in [Pcbs -> IntMin .. IntMax]
          BY ConstantsAssumption DEF ConstantsAssumption, IInv, SchedInv, SchedTypes
        <4> QED BY <4>1, <4>2, GiveUpCpuKeeps DEF Sleep, InUser, IInv
      <3> QED BY <1>3, <3>1, <3>2 DEF Scheduling
    <2>2. Live = Pcbs \ In("DEAD") /\ Live' = Pcbs \ In("DEAD")'
      BY DEF Live, In
    <2> QED BY <2>1, <2>2
  <1>4. ASSUME Calls \/ Stopped \/ UNCHANGED allVars
        PROVE  Live' = Live
    BY <1>4, CallsLeaveProcesses DEF vars, schedVars, Live
  <1> QED BY <1>1, <1>2, <1>3, <1>4

-----------------------------------------------------------------------------
(* Two processes have different regions, and the kernel knows which. *)
LEMMA RegionFacts ==
  /\ \A p \in {1, 2} : Region(p) \in Regions /\ BufferRegion(p) = Region(p)
  /\ \A p, q \in {1, 2} : Region(p) = Region(q) => p = q
  /\ PathRegion \in Regions
  BY DEF Region, BufferRegion, Regions, PathRegion

(* A user process is live, and so it is 1 or 2. *)
LEMMA CallerIsLive ==
  ASSUME KInv, InUserMode
  PROVE  current \in Live /\ current \in {1, 2}
  BY LiveFacts DEF KInv, TwoRegions, InUserMode, InUser

LEMMA InitKInv == KernelInit => KInv
  <1> SUFFICES ASSUME KernelInit PROVE KInv
    OBVIOUS
  <1>1. IInv
    BY InitIInv DEF KernelInit
  <1>2. \A p \in Pcbs : state[p] # "DEAD" => p = 1
    BY ProcsFacts DEF KernelInit, Init
  <1> QED BY <1>1, <1>2 DEF KInv, TwoRegions, Live, KernelInit

(* A store into one cell. *)
LEMMA PutKeeps ==
  ASSUME mem \in [Regions -> [Cells -> Strings]],
         NEW r \in Regions, NEW c \in Cells, NEW content \in Strings, Put(r, c, content)
  PROVE  /\ mem' \in [Regions -> [Cells -> Strings]]
         /\ \A q \in Regions : mem'[q] = IF q = r THEN [mem[q] EXCEPT ![c] = content] ELSE mem[q]
  BY DEF Put

LEMMA KInvKept == KInv /\ [KernelNext]_allVars => KInv'
  <1> SUFFICES ASSUME KInv, [KernelNext]_allVars PROVE KInv'
    OBVIOUS
  <1>1. IInv'
    BY KernelKeepsIInv DEF KInv
  <1>2. Live' \subseteq {1, 2}
    <2>1. Live' \subseteq Live \cup {1, 2}
      BY LiveEffects DEF KInv, KernelNext, Calls
    <2> QED BY <2>1 DEF KInv, TwoRegions
  <1>3. mem' \in [Regions -> [Cells -> Strings]]
    <2>1. CASE UNCHANGED mem
      BY <2>1 DEF KInv, TwoRegions
    <2>2. CASE ForkAll
      BY <2>2 DEF ForkAll, KInv, TwoRegions, Regions
    <2>3. ASSUME NEW c \in Cells, NEW content \in Strings, InUserMode,
                 Put(Region(current), c, content) \/ Put(BufferRegion(current), c, content)
          PROVE  mem' \in [Regions -> [Cells -> Strings]]
      BY <2>3, CallerIsLive, RegionFacts, PutKeeps DEF KInv, TwoRegions
    <2> QED BY <2>1, <2>2, <2>3
            DEF KernelNext, Scheduling, ExitAll, Stopped, OpenOrRemove, Cat, Walk, Compute,
                CloseFile, WriteBuffer, ReadBuffer, allVars
  <1> QED BY <1>1, <1>2, <1>3 DEF KInv, TwoRegions

(* A store into the caller's region is a store into its memory. *)
LEMMA StoreOfCaller ==
  ASSUME KInv, InUserMode, NEW c \in Cells, NEW content \in Strings,
         Put(Region(current), c, content), seen' = Nothing, Live' = Live, UNCHANGED current
  PROVE  Spaces!Store
  <1> DEFINE memory == [p \in Live |-> mem[Region(p)]]
  <1>1. current \in Live /\ current \in {1, 2} /\ Live \subseteq {1, 2}
    BY CallerIsLive DEF KInv, TwoRegions
  <1>2. \A q \in Regions :
          mem'[q] = IF q = Region(current) THEN [mem[q] EXCEPT ![c] = content] ELSE mem[q]
    <2>1. Region(current) \in Regions /\ mem \in [Regions -> [Cells -> Strings]]
      BY <1>1, RegionFacts DEF KInv, TwoRegions
    <2> QED BY <2>1, PutKeeps
  <1>3. memory' = [memory EXCEPT ![current][c] = content]
    <2> DEFINE now == [p \in Live |-> mem'[Region(p)]]
    <2>1. \A p \in Live : mem'[Region(p)] = IF p = current THEN [mem[Region(p)] EXCEPT ![c] = content]
                                            ELSE mem[Region(p)]
      BY <1>1, <1>2, RegionFacts
    <2>2. now = [memory EXCEPT ![current] = [memory[current] EXCEPT ![c] = content]]
      BY <1>1, <2>1
    <2>3. memory' = now
      BY DEF Region
    <2> QED BY <2>2, <2>3
  <1> QED BY <1>1, <1>3 DEF Spaces!Store

(* An argument taken from the caller's region is taken from its memory. *)
LEMMA TakeOfCaller ==
  ASSUME KInv, InUserMode, NEW c \in Cells,
         seen' = mem[Region(current)][c], Live' = Live, UNCHANGED <<current, mem>>
  PROVE  Spaces!Take
  <1>1. current \in Live
    BY CallerIsLive
  <1>2. [p \in Live |-> mem[Region(p)]]' = [p \in Live |-> mem[Region(p)]]
    BY DEF Region
  <1> QED BY <1>1, <1>2 DEF Spaces!Take

(* Every step of the kernel is one of the abstract memories, or none. *)
LEMMA PrivateStep ==
  ASSUME KInv, [KernelNext]_allVars
  PROVE  [Spaces!Next]_(Spaces!vars)
  <1> DEFINE memory == [p \in Live |-> mem[Region(p)]]
  <1>0. Live \subseteq {1, 2} /\ mem \in [Regions -> [Cells -> Strings]]
    BY DEF KInv, TwoRegions
  <1>1. CASE UNCHANGED allVars \/ Stopped
    <2>1. Live' = Live /\ UNCHANGED <<mem, current, seen>>
      BY <1>1, LiveEffects DEF KInv, Stopped, allVars, vars, schedVars
    <2>2. memory' = memory
      BY <2>1 DEF Region
    <2> QED BY <2>1, <2>2 DEF Spaces!vars
  <1>2. CASE Scheduling
    <2>1. Live' = Live /\ UNCHANGED mem /\ seen' = Nothing
      BY <1>2, LiveEffects DEF KInv, Scheduling, NoArgument
    <2>2. memory' = memory
      BY <2>1 DEF Region
    <2> QED BY <2>1, <2>2 DEF Spaces!Next, Spaces!Dispatch
  <1>3. CASE ForkAll
    <2>1. /\ current = 1 /\ Live = {1} /\ seen' = Nothing
          /\ mem' = [r \in Regions |-> mem["father"]]
      BY <1>3 DEF ForkAll, OneChild, NoArgument
    <2>2. \A p : mem'[Region(p)] = mem["father"]
      BY <2>1 DEF Region, Regions
    <2>3. Live' = {1, 2} /\ 2 \in Pcbs /\ UNCHANGED current
      BY <1>3, LiveEffects DEF KInv
    <2>4. memory' = [p \in {1, 2} |-> mem["father"]]
      BY <2>2, <2>3 DEF Region
    <2>5. memory = [p \in {1} |-> mem["father"]]
      BY <2>1 DEF Region
    <2>6. Spaces!Spawn(2)
      BY <2>1, <2>3, <2>4, <2>5 DEF Spaces!Spawn
    <2> QED BY <2>3, <2>6 DEF Spaces!Next
  <1>4. CASE ExitAll
    <2>1. Live' = Live \ {current} /\ UNCHANGED mem /\ seen' = Nothing /\ current \in Live
      BY <1>4, LiveEffects, CallerIsLive DEF KInv, ExitAll, NoArgument
    <2>2. memory' = [p \in Live \ {current} |-> mem[Region(p)]]
      BY <2>1 DEF Region
    <2> QED BY <2>1, <2>2 DEF Spaces!Next, Spaces!End
  <1>5. CASE Calls
    <2>1. Live' = Live /\ UNCHANGED current
      BY <1>5, LiveEffects, CallsLeaveProcesses DEF KInv, vars, schedVars
    <2>2. ASSUME NEW c \in Cells, OpenOrRemove(c) \/ Cat(c)
          PROVE  Spaces!Take
      <3>1. InUserMode /\ seen' = mem[Region(current)][c] /\ UNCHANGED mem
        BY <2>2 DEF OpenOrRemove, Cat, Walk, PathOfFather, Taken
      <3> QED BY <2>1, <3>1, TakeOfCaller
    <2>3. ASSUME NEW fd \in Files!Fds, CloseFile(fd)
          PROVE  Spaces!Dispatch
      <3>1. UNCHANGED mem /\ seen' = Nothing
        BY <2>3 DEF CloseFile, NoArgument
      <3>2. memory' = memory
        BY <2>1, <3>1 DEF Region
      <3> QED BY <3>1, <3>2 DEF Spaces!Dispatch
    <2>4. ASSUME NEW fd \in Files!Fds, NEW len \in Lens, NEW c \in Cells, WriteBuffer(fd, len, c)
          PROVE  Spaces!Take
      <3>1. InUserMode /\ seen' = mem[BufferRegion(current)][c] /\ UNCHANGED mem
        BY <2>4 DEF WriteBuffer, Taken
      <3> QED BY <2>1, <3>1, TakeOfCaller, CallerIsLive, RegionFacts
    <2>5. ASSUME NEW fd \in Files!Fds, NEW len \in Lens, NEW c \in Cells, NEW s \in Strings,
                 ReadBuffer(fd, len, c, s)
          PROVE  Spaces!Store
      <3>1. InUserMode /\ Put(BufferRegion(current), c, s) /\ seen' = Nothing
        BY <2>5 DEF ReadBuffer, NoArgument
      <3>2. BufferRegion(current) = Region(current)
        BY <3>1, CallerIsLive, RegionFacts
      <3> QED BY <2>1, <3>1, <3>2, StoreOfCaller
    <2>6. ASSUME NEW c \in Cells, NEW s \in Strings, Compute(c, s)
          PROVE  Spaces!Store
      BY <2>1, <2>6, StoreOfCaller DEF Compute, NoArgument
    <2> QED BY <1>5, <2>2, <2>3, <2>4, <2>5, <2>6 DEF Calls, Spaces!Next
  <1> QED BY <1>1, <1>2, <1>3, <1>4, <1>5 DEF KernelNext, Calls

(***************************************************************************)
(* Two regions are enough for programs that keep the rules: every live     *)
(* process has memory of its own, a child begins with a copy of its        *)
(* father's, and calls take their arguments from, and put what they read   *)
(* into, the caller's.                                                     *)
(***************************************************************************)
THEOREM MemoriesArePrivate == KernelSpec => PrivateMemories
  <1>1. KernelInit => Spaces!Init
    <2> SUFFICES ASSUME KernelInit PROVE Spaces!Init
      OBVIOUS
    <2>1. Live = {1} /\ 1 \in Pcbs
      BY ProcsFacts DEF KernelInit, Init, Live
    <2>2. PICK content \in [Cells -> Strings] : mem = [r \in Regions |-> content]
      BY DEF KernelInit
    <2>3. [p \in Live |-> mem[Region(p)]] = [q \in {1} |-> content]
      BY <2>1, <2>2, RegionFacts
    <2>4. seen = Nothing
      BY DEF KernelInit
    <2> QED BY <2>1, <2>3, <2>4 DEF Spaces!Init
  <1>2. KInv /\ [KernelNext]_allVars => [Spaces!Next]_(Spaces!vars)
    BY PrivateStep
  <1> QED BY <1>1, <1>2, InitKInv, KInvKept, PTL DEF KernelSpec, PrivateMemories, Spaces!Spec

-----------------------------------------------------------------------------
(* What the calls that take a path find in it; the other steps take none. *)
LEMMA ResolvesKept ==
  ASSUME KInv, PathsResolve, [KernelNext]_allVars
  PROVE  PathsResolve'
  <1>1. CASE UNCHANGED <<seen, names>>
    BY <1>1 DEF PathsResolve
  <1>2. CASE names' = <<>>
    BY <1>2 DEF PathsResolve
  <1>3. ASSUME NEW c \in Cells, Walk(c)
        PROVE  PathsResolve'
    <2> DEFINE path == Taken(PathRegion, c)
    <2>1. path \in Seq(STRING)
      BY RegionFacts, KernelAssumption DEF KInv, TwoRegions, Taken, KernelAssumption
    <2>2. seen' = path /\ names' = Names(path, path_offset)
      BY <1>3 DEF Walk, NamesIn
    <2> HIDE DEF path
    <2>3. IsAbsolute(path) =>
            /\ Names(path, path_offset) = Components(path)
            /\ Len(path) > 1 => getLastLevelName(path) = Last(Components(path))
      BY <2>1, NamesAreComponents
    <2> QED BY <2>2, <2>3 DEF PathsResolve
  <1> QED BY <1>1, <1>2, <1>3
          DEF KernelNext, Scheduling, ForkAll, ExitAll, Stopped, OpenOrRemove, Cat, Compute,
              WriteBuffer, ReadBuffer, CloseFile, NoArgument, allVars

(***************************************************************************)
(* An absolute path is searched for by its own components, whatever path   *)
(* was searched for before and has left in path_offset, and a new file     *)
(* gets the last of them for its name: whatever strings the programs have  *)
(* in their memory.                                                        *)
(***************************************************************************)
THEOREM SearchesFollowPaths == KernelSpec => []PathsResolve
  <1>1. KernelInit => PathsResolve
    BY DEF KernelInit, PathsResolve
  <1>2. KInv /\ PathsResolve /\ [KernelNext]_allVars => PathsResolve'
    BY ResolvesKept
  <1> QED BY <1>1, <1>2, InitKInv, KInvKept, PTL DEF KernelSpec

-----------------------------------------------------------------------------
(* The files see of a call what it does to them, and of the others nothing. *)
LEMMA FilesUnseen ==
  ASSUME Live' = Live, UNCHANGED <<current, fileVars>>
  PROVE  UNCHANGED Files!vars
  BY DEF Files!vars, Files!tables, fileVars

(* Every step of the kernel is one of OpenFiles.tla, or none of its own. *)
LEMMA FilesStep ==
  ASSUME KInv, [KernelNext]_allVars
  PROVE  [Files!Next]_(Files!vars)
  <1>1. CASE UNCHANGED allVars \/ Stopped
    <2>1. Live' = Live /\ UNCHANGED <<current, fileVars>>
      BY <1>1, LiveEffects DEF KInv, Stopped, allVars, vars, schedVars
    <2> QED BY <2>1, FilesUnseen
  <1>2. CASE Scheduling
    <2>1. Live' = Live /\ UNCHANGED fileVars /\ filePanic = "none"
      BY <1>2, LiveEffects DEF KInv, Scheduling
    <2>2. current' \in Live \cup {0}
      <3>1. IInv'
        BY KernelKeepsIInv DEF KInv
      <3>2. (current # Idle => current \in Live)'
        BY <3>1, LiveFacts, PTL
      <3> QED BY <2>1, <3>2 DEF Idle
    <2>3. CASE current' = current
      BY <2>1, <2>3, FilesUnseen
    <2>4. CASE current' # current
      <3>1. Files!Switch
        BY <2>1, <2>2, <2>4 DEF Files!Switch, Files!Up, Files!tables, fileVars
      <3> QED BY <3>1 DEF Files!Next
    <2> QED BY <2>3, <2>4
  <1>3. CASE ForkAll
    <2>1. /\ current = 1 /\ Live = {1} /\ InUserMode /\ UNCHANGED filePanic
          /\ Files!ForkTables(2)
      BY <1>3, LiveFacts DEF ForkAll, OneChild, ChildSlot, KInv
    <2>2. Live' = {1, 2} /\ 2 \in Pcbs /\ UNCHANGED current
      BY <1>3, LiveEffects DEF KInv
    <2>3. Files!Fork(2)
      BY <2>1, <2>2 DEF Files!Fork, Files!Up, InUserMode
    <2>4. 2 \in Files!Pcbs
      BY <2>2 DEF Pcbs, Files!Pcbs
    <2> QED BY <2>3, <2>4 DEF Files!Next
  <1>4. CASE ExitAll
    <2>1. /\ Live' = Live \ {current} /\ UNCHANGED fileVars
          /\ filePanic = "none" /\ current # 0 /\ Files!Opened(current) = {}
      BY <1>4, LiveEffects DEF KInv, ExitAll, InUserMode, InUser, Idle
    <2>2. current' \in Live' \cup {0}
      <3>1. IInv'
        BY KernelKeepsIInv DEF KInv
      <3>2. (current # Idle => current \in Live)'
        BY <3>1, LiveFacts, PTL
      <3> QED BY <3>2 DEF Idle
    <2>3. Files!Exit
      BY <2>1, <2>2 DEF Files!Exit, Files!Up, Files!Rule, Files!tables, fileVars
    <2> QED BY <2>3 DEF Files!Next
  <1>5. CASE Calls
    <2>1. Live' = Live /\ UNCHANGED current
      BY <1>5, LiveEffects, CallsLeaveProcesses DEF KInv, vars, schedVars
    <2>2. ASSUME NEW c \in Cells, OpenOrRemove(c)
          PROVE  Files!Next
      <3> DEFINE path == Taken(PathRegion, c)
                 FilePaths == {Components(s) : s \in {t \in Strings : IsAbsolute(t)}}
      <3>1. path \in Strings /\ IsAbsolute(path)
        BY <2>2, RegionFacts DEF OpenOrRemove, KInv, TwoRegions, Taken
      <3>2. NamesIn(c) = Components(path)
        <4>1. path \in Seq(STRING)
          BY <3>1, KernelAssumption DEF KernelAssumption
        <4> HIDE DEF path
        <4>2. Names(path, path_offset) = Components(path)
          BY <3>1, <4>1, NamesAreComponents
        <4> QED BY <4>2 DEF NamesIn, path
      <3>3. NamesIn(c) \in FilePaths
        BY <3>1, <3>2
      <3>4. Files!Open(NamesIn(c)) \/ Files!Unlink(NamesIn(c))
        BY <2>2 DEF OpenOrRemove
      <3> HIDE DEF FilePaths
      <3>5. \E p \in FilePaths : Files!Open(p) \/ Files!Unlink(p) \/ Files!Show(p)
        BY <3>3, <3>4
      <3> QED BY <3>5 DEF Files!Next, FilePaths
    <2>3. ASSUME NEW c \in Cells, Cat(c)
          PROVE  Files!Next
      <3>1. filePanic = "none" /\ current # 0
        BY <2>3 DEF Cat, Walk, InUserMode, InUser, Idle
      <3>2. \/ UNCHANGED fileVars
            \/ Files!Panic("assert")
            \/ Files!Oversized # {} /\ Files!Panic("wild")
            \/ UNCHANGED Files!vars
        BY <2>3 DEF Cat, Files!Show
      <3>3. \/ Files!Panic("assert")
            \/ Files!Oversized # {} /\ Files!Panic("wild")
            \/ UNCHANGED Files!vars
        BY <2>1, <3>2, FilesUnseen
      <3>4. Files!CatRelative
        BY <3>1, <3>3 DEF Files!CatRelative, Files!Up
      <3> QED BY <3>4 DEF Files!Next
    <2>4. ASSUME NEW fd \in Files!Fds, CloseFile(fd)
          PROVE  Files!Next
      BY <2>4 DEF CloseFile, Files!Next
    <2>5. ASSUME NEW fd \in Files!Fds, NEW len \in Lens, NEW c \in Cells, WriteBuffer(fd, len, c)
          PROVE  Files!Next
      BY <2>5 DEF WriteBuffer, Files!Next
    <2>6. ASSUME NEW fd \in Files!Fds, NEW len \in Lens, NEW c \in Cells, NEW s \in Strings,
                 ReadBuffer(fd, len, c, s)
          PROVE  Files!Next
      BY <2>6 DEF ReadBuffer, Files!Next
    <2>7. ASSUME NEW c \in Cells, NEW s \in Strings, Compute(c, s)
          PROVE  UNCHANGED Files!vars
      BY <2>1, <2>7, FilesUnseen DEF Compute
    <2> QED BY <1>5, <2>2, <2>3, <2>4, <2>5, <2>6, <2>7 DEF Calls
  <1> QED BY <1>1, <1>2, <1>3, <1>4, <1>5 DEF KernelNext, Calls

(***************************************************************************)
(* With the scheduler of Processes.tla in place of its own every step of   *)
(* the kernel is one of OpenFiles.tla or leaves the files alone.           *)
(***************************************************************************)
THEOREM FilesAsAlone == KernelSpec => ImplementsOpenFiles
  <1>1. KernelInit => Files!Init
    BY DEF KernelInit
  <1>2. KInv /\ [KernelNext]_allVars => [Files!Next]_(Files!vars)
    BY FilesStep
  <1> QED BY <1>1, <1>2, InitKInv, KInvKept, PTL DEF KernelSpec, ImplementsOpenFiles, Files!Spec

=============================================================================
