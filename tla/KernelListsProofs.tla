------------------------- MODULE KernelListsProofs -------------------------
(***************************************************************************)
(* What the list operators do to the members of a list.                    *)
(***************************************************************************)
EXTENDS KernelLists, TLAPS, SequenceTheorems, FiniteSetTheorems, WellFoundedInduction

(* list_add makes data the last member and leaves the others in place. *)
LEMMA AddProperties ==
  ASSUME NEW T, NEW list \in Seq(T), NEW data \in T
  PROVE  /\ list_add(list, data) \in Seq(T)
         /\ ToSet(list_add(list, data)) = ToSet(list) \cup {data}
         /\ NoRepeats(list) /\ data \notin ToSet(list)
              => NoRepeats(list_add(list, data))
  BY AppendProperties DEF list_add, ToSet, NoRepeats, IsInjective

(* list_head returns a member, and unlinking it leaves the other members. *)
LEMMA HeadProperties ==
  ASSUME NEW T, NEW list \in Seq(T), list # << >>, NoRepeats(list)
  PROVE  /\ list_head(list) \in T
         /\ list_head(list) \in ToSet(list)
         /\ Tail(list) \in Seq(T)
         /\ ToSet(Tail(list)) = ToSet(list) \ {list_head(list)}
         /\ NoRepeats(Tail(list))
  <1>1. /\ Tail(list) \in Seq(T)
        /\ Len(list) \in Nat \ {0}
        /\ Len(Tail(list)) = Len(list) - 1
        /\ \A i \in 1 .. Len(Tail(list)) : Tail(list)[i] = list[i + 1]
        /\ list_head(list) = list[1]
    BY HeadTailProperties, EmptySeq DEF list_head
  <1>2. ToSet(Tail(list)) = ToSet(list) \ {list_head(list)}
    <2>1. ASSUME NEW i \in DOMAIN Tail(list)
          PROVE  Tail(list)[i] \in ToSet(list) \ {list_head(list)}
      BY <1>1 DEF ToSet, NoRepeats, IsInjective
    <2>2. ASSUME NEW x \in ToSet(list), x # list_head(list)
          PROVE  x \in ToSet(Tail(list))
      <3>1. PICK i \in DOMAIN list : list[i] = x
        BY DEF ToSet
      <3>2. i - 1 \in DOMAIN Tail(list) /\ Tail(list)[i - 1] = x
        BY <1>1, <2>2, <3>1
      <3> QED BY <3>2 DEF ToSet
    <2> QED BY <2>1, <2>2 DEF ToSet
  <1>3. NoRepeats(Tail(list))
    BY <1>1 DEF NoRepeats, IsInjective
  <1>4. 1 \in DOMAIN list /\ list[1] \in T
    BY <1>1
  <1> QED BY <1>1, <1>2, <1>3, <1>4 DEF ToSet

(* On a list without repetitions, list_delete moves up the members behind  *)
(* its argument.                                                           *)
LEMMA DeleteMembers ==
  ASSUME NEW T, NEW list \in Seq(T), NoRepeats(list), NEW n \in 1 .. Len(list)
  PROVE  /\ list_delete(list, list[n]) \in Seq(T)
         /\ Len(list_delete(list, list[n])) = Len(list) - 1
         /\ \A j \in 1 .. Len(list) - 1 :
              list_delete(list, list[n])[j] = IF j < n THEN list[j] ELSE list[j + 1]
  <1> DEFINE data == list[n]
             I == {i \in 1 .. Len(list) : list[i] = data}
             m == Min(I)
  <1>2. I = {n}
    BY DEF NoRepeats, IsInjective
  <1>3. m = n
    BY <1>2 DEF Min
  <1>4. list_delete(list, data) = SubSeq(list, 1, n - 1) \o SubSeq(list, n + 1, Len(list))
    BY <1>2, <1>3 DEF list_delete, RemoveFirst, RemoveAt, SelectInSeq
  <1> DEFINE d == list_delete(list, data)
             P == SubSeq(list, 1, n - 1)
             Q == SubSeq(list, n + 1, Len(list))
  <1>5. /\ d \in Seq(T)
        /\ Len(d) = Len(list) - 1
        /\ \A j \in 1 .. Len(d) : d[j] = IF j < n THEN list[j] ELSE list[j + 1]
    <2>1. /\ P \in Seq(T)
          /\ Len(P) = n - 1
          /\ \A j \in 1 .. n - 1 : P[j] = list[j]
      BY LenProperties, SubSeqProperties
    <2>2. /\ Q \in Seq(T)
          /\ Len(Q) = Len(list) - n
          /\ \A j \in 1 .. Len(list) - n : Q[j] = list[n + j]
      BY LenProperties, SubSeqProperties
    <2>3. Len(list) \in Nat /\ n \in 1 .. Len(list)
      BY LenProperties
    <2>4. d = P \o Q
      BY <1>4
    <2> HIDE DEF P, Q, d, I, m
    <2>5. /\ P \o Q \in Seq(T)
          /\ Len(P \o Q) = Len(P) + Len(Q)
          /\ \A i \in 1 .. Len(P) + Len(Q) :
               (P \o Q)[i] = IF i <= Len(P) THEN P[i] ELSE Q[i - Len(P)]
      BY <2>1, <2>2, ConcatProperties
    <2>6. d \in Seq(T) /\ Len(d) = Len(list) - 1
      BY <2>1, <2>2, <2>3, <2>4, <2>5
    <2>7. ASSUME NEW j \in 1 .. Len(d)
          PROVE  d[j] = IF j < n THEN list[j] ELSE list[j + 1]
      <3>1. d[j] = IF j <= n - 1 THEN P[j] ELSE Q[j - (n - 1)]
        BY <2>1, <2>2, <2>3, <2>4, <2>5, <2>6
      <3>2. CASE j < n
        BY <2>1, <2>3, <2>6, <3>1, <3>2
      <3>3. CASE j >= n
        <4>1. j - (n - 1) \in 1 .. Len(list) - n /\ n + (j - (n - 1)) = j + 1
          BY <2>3, <2>6, <3>3
        <4>2. Q[j - (n - 1)] = list[n + (j - (n - 1))]
          BY <2>2, <4>1
        <4> QED BY <2>3, <3>1, <3>3, <4>1, <4>2
      <3> QED BY <2>3, <2>6, <3>2, <3>3
    <2> QED BY <2>6, <2>7
  <1> QED BY <1>5

(* It unlinks its argument and nothing else.                               *)
LEMMA DeleteProperties ==
  ASSUME NEW T, NEW list \in Seq(T), NEW data \in T,
         OnList(list, data), NoRepeats(list)
  PROVE  /\ list_delete(list, data) \in Seq(T)
         /\ ToSet(list_delete(list, data)) = ToSet(list) \ {data}
         /\ NoRepeats(list_delete(list, data))
  <1> DEFINE d == list_delete(list, data)
  <1>1. PICK n \in 1 .. Len(list) : list[n] = data
    BY DEF OnList, Contains
  <1>5. /\ d \in Seq(T)
        /\ Len(d) = Len(list) - 1
        /\ \A j \in 1 .. Len(d) : d[j] = IF j < n THEN list[j] ELSE list[j + 1]
    BY <1>1, DeleteMembers
  <1> HIDE DEF d
  <1>6. NoRepeats(d)
    <2> SUFFICES ASSUME NEW a \in 1 .. Len(d), NEW b \in 1 .. Len(d), d[a] = d[b]
                 PROVE  a = b
      BY <1>5 DEF NoRepeats, IsInjective
    <2>1. \A i, j \in 1 .. Len(list) : list[i] = list[j] => i = j
      BY DEF NoRepeats, IsInjective
    <2> QED BY <1>1, <1>5, <2>1
  <1>7. ToSet(d) = ToSet(list) \ {data}
    <2>1. ASSUME NEW j \in DOMAIN d
          PROVE  d[j] \in ToSet(list) \ {data}
      BY <1>1, <1>5 DEF ToSet, NoRepeats, IsInjective
    <2>2. ASSUME NEW x \in ToSet(list), x # data
          PROVE  x \in ToSet(d)
      <3>1. PICK i \in DOMAIN list : list[i] = x
        BY DEF ToSet
      <3>2. CASE i < n
        BY <1>1, <1>5, <3>1, <3>2 DEF ToSet
      <3>3. CASE i > n
        <4>1. i - 1 \in DOMAIN d /\ d[i - 1] = x
          BY <1>1, <1>5, <3>1, <3>3
        <4> QED BY <4>1 DEF ToSet
      <3> QED BY <1>1, <2>2, <3>1, <3>2, <3>3
    <2> QED BY <2>1, <2>2 DEF ToSet
  <1> QED BY <1>5, <1>6, <1>7 DEF d

(* A list is its head and the rest.                                        *)
LEMMA HeadAndTail ==
  ASSUME NEW T, NEW list \in Seq(T), list # << >>
  PROVE  list = <<Head(list)>> \o Tail(list)
  <1>1. Len(list) \in Nat \ {0} /\ Head(list) = list[1] /\ 1 \in 1 .. Len(list)
    BY EmptySeq, HeadTailProperties
  <1>2. SubSeq(list, 1, Len(list)) = <<list[1]>> \o SubSeq(list, 1 + 1, Len(list))
    <2>1. Len(list) \in 1 .. Len(list)
      BY <1>1
    <2> QED BY <1>1, <2>1, SubSeqRecursiveFirst
  <1> QED BY <1>1, <1>2, SubSeqFull, TailIsSubSeq

(* Unlinking the first member of the second of two parts of a list.        *)
LEMMA DeleteBetween ==
  ASSUME NEW T, NEW l \in Seq(T), NEW m \in Seq(T), m # << >>, NoRepeats(l \o m)
  PROVE  list_delete(l \o m, Head(m)) = l \o Tail(m)
  <1> DEFINE c == l \o m
             t == Tail(m)
             e == l \o t
             n == Len(l) + 1
  <1>1. /\ Len(l) \in Nat /\ Len(m) \in Nat \ {0}
        /\ t \in Seq(T) /\ Len(t) = Len(m) - 1 /\ Head(m) = m[1]
        /\ \A i \in 1 .. Len(t) : t[i] = m[i + 1]
    BY EmptySeq, HeadTailProperties, LenProperties
  <1>2. /\ c \in Seq(T) /\ Len(c) = Len(l) + Len(m)
        /\ \A i \in 1 .. Len(l) + Len(m) : c[i] = IF i <= Len(l) THEN l[i] ELSE m[i - Len(l)]
    BY ConcatProperties
  <1> HIDE DEF t
  <1>3. /\ e \in Seq(T) /\ Len(e) = Len(l) + Len(t)
        /\ \A i \in 1 .. Len(l) + Len(t) : e[i] = IF i <= Len(l) THEN l[i] ELSE t[i - Len(l)]
    BY <1>1, ConcatProperties, ZenonT(60)
  <1> HIDE DEF e
  <1>4. NoRepeats(c)
    OBVIOUS
  <1> HIDE DEF c
  <1>5. n \in 1 .. Len(c) /\ c[n] = m[1]
    <2>1. n \in 1 .. Len(l) + Len(m) /\ n - Len(l) = 1 /\ ~(n <= Len(l))
      BY <1>1
    <2> QED BY <1>2, <2>1
  <1> DEFINE d == list_delete(c, c[n])
  <1>6. /\ d \in Seq(T) /\ Len(d) = Len(c) - 1
        /\ \A j \in 1 .. Len(c) - 1 : d[j] = IF j < n THEN c[j] ELSE c[j + 1]
    BY <1>2, <1>4, <1>5, DeleteMembers
  <1> HIDE DEF d
  <1>7. Len(d) = Len(e)
    BY <1>1, <1>2, <1>3, <1>6
  <1>8. ASSUME NEW j \in 1 .. Len(d)
        PROVE  d[j] = e[j]
    <2>1. CASE j <= Len(l)
      BY <1>1, <1>2, <1>3, <1>6, <2>1, SMTT(60)
    <2>2. CASE j > Len(l)
      <3>1. /\ j \in 1 .. Len(c) - 1 /\ ~(j < n)
            /\ j \in 1 .. Len(l) + Len(t) /\ ~(j <= Len(l))
            /\ j + 1 \in 1 .. Len(l) + Len(m) /\ ~(j + 1 <= Len(l))
            /\ j - Len(l) \in 1 .. Len(t)
            /\ (j - Len(l)) + 1 = j + 1 - Len(l)
        BY <1>1, <1>2, <1>3, <1>6, <2>2
      <3>2. d[j] = c[j + 1] /\ e[j] = t[j - Len(l)]
        BY <1>3, <1>6, <3>1
      <3>3. c[j + 1] = m[j + 1 - Len(l)]
        BY <1>2, <3>1
      <3>4. t[j - Len(l)] = m[(j - Len(l)) + 1]
        BY <1>1, <3>1
      <3> QED BY <3>1, <3>2, <3>3, <3>4
    <2> QED BY <1>1, <1>6, <2>1, <2>2
  <1>9. d = e
    BY <1>3, <1>6, <1>7, <1>8, SeqEqual
  <1> QED BY <1>1, <1>5, <1>9 DEF c, d, e, t

(* Rank counts: it starts at 0, grows by one at a member of S and stays    *)
(* put elsewhere.                                                          *)
LEMMA RankProperties ==
  ASSUME NEW T, NEW list \in Seq(T), NEW S
  PROVE  /\ \A i \in 0 .. Len(list) : Rank(list, S, i) \in Nat
         /\ Rank(list, S, 0) = 0
         /\ \A i \in 1 .. Len(list) :
              Rank(list, S, i) = Rank(list, S, i - 1) + (IF list[i] \in S THEN 1 ELSE 0)
         /\ \A i, j \in 0 .. Len(list) : i <= j => Rank(list, S, i) <= Rank(list, S, j)
  <1> DEFINE K(i) == {k \in 1 .. i : list[k] \in S}
  <1>1. \A i \in 0 .. Len(list) : IsFiniteSet(K(i)) /\ Cardinality(K(i)) \in Nat
    <2> TAKE i \in 0 .. Len(list)
    <2>1. IsFiniteSet(1 .. i)
      BY FS_Interval
    <2> QED BY <2>1, FS_Subset, FS_CardinalityType
  <1>2. Rank(list, S, 0) = 0
    <2>1. K(0) = {}
      OBVIOUS
    <2> QED BY <2>1, FS_EmptySet DEF Rank
  <1>3. ASSUME NEW i \in 1 .. Len(list)
        PROVE  Rank(list, S, i) = Rank(list, S, i - 1) + (IF list[i] \in S THEN 1 ELSE 0)
    <2>1. i - 1 \in 0 .. Len(list) /\ i \notin K(i - 1)
      OBVIOUS
    <2>2. CASE list[i] \in S
      <3>1. K(i) = K(i - 1) \cup {i}
        BY <2>2
      <3> QED BY <1>1, <2>1, <2>2, <3>1, FS_AddElement DEF Rank
    <2>3. CASE list[i] \notin S
      <3>1. K(i) = K(i - 1)
        BY <2>3
      <3>2. Cardinality(K(i - 1)) \in Nat
        BY <1>1, <2>1
      <3>3. Rank(list, S, i) = Rank(list, S, i - 1) /\ Rank(list, S, i - 1) \in Nat
        BY <3>1, <3>2 DEF Rank
      <3> QED BY <2>3, <3>3
    <2> QED BY <2>2, <2>3
  <1>4. ASSUME NEW i \in 0 .. Len(list), NEW j \in 0 .. Len(list), i <= j
        PROVE  Rank(list, S, i) <= Rank(list, S, j)
    <2>1. K(i) \subseteq K(j)
      BY <1>4
    <2> QED BY <1>1, <2>1, FS_Subset DEF Rank
  <1> QED BY <1>1, <1>2, <1>3, <1>4 DEF Rank

(* Every non-empty set of naturals has a least element. *)
LEMMA LeastNat ==
  ASSUME NEW M \in SUBSET Nat, M # {}
  PROVE  \E i \in M : \A j \in M : i <= j
  <1> DEFINE Less == {ss \in Nat \X Nat : ss[1] < ss[2]}
  <1>1. OpToRel(<, Nat) = Less
    BY Zenon DEF OpToRel
  <1>2. IsWellFoundedOn(Less, Nat)
    BY <1>1, NatLessThanWellFounded, Zenon
  <1>3. PICK i \in M : \A j \in M : ~ (<<j, i>> \in Less)
    BY <1>2, WFMin
  <1>4. ASSUME NEW j \in M
        PROVE  i <= j
    <2>1. i \in Nat /\ j \in Nat
      OBVIOUS
    <2>2. j < i => <<j, i>> \in Less
      BY <2>1
    <2> QED BY <1>3, <2>1, <2>2
  <1> QED BY <1>4

(* Min of a set of natural numbers. *)
LEMMA MinNat ==
  ASSUME NEW S \in SUBSET Nat, S # {}
  PROVE  Min(S) \in S /\ \A y \in S : Min(S) <= y
  BY LeastNat DEF Min

(* Which one it is. *)
LEMMA MinIs ==
  ASSUME NEW M \in SUBSET Nat, NEW k \in M, \A y \in M : k <= y
  PROVE  Min(M) = k
  <1>1. Min(M) \in M /\ \A y \in M : Min(M) <= y
    BY MinNat
  <1>2. Min(M) <= k /\ k <= Min(M) /\ Min(M) \in Nat /\ k \in Nat
    BY <1>1
  <1> QED BY <1>2

(* Max of a bounded set of them. *)
LEMMA MaxNat ==
  ASSUME NEW n \in Nat, NEW M \in SUBSET (1 .. n), M # {}
  PROVE  Max(M) \in M /\ \A y \in M : y <= Max(M)
  <1> DEFINE D == {d \in Nat : \E y \in M : d = n - y}
  <1>1. \A y \in M : y \in Nat /\ n - y \in D
    OBVIOUS
  <1>2. D \in SUBSET Nat /\ D # {}
    BY <1>1
  <1>3. PICK d \in D : \A c \in D : d <= c
    BY <1>2, LeastNat
  <1>4. PICK x \in M : d = n - x
    OBVIOUS
  <1>5. \A y \in M : y <= x
    BY <1>1, <1>3, <1>4
  <1>6. \E z \in M : \A y \in M : y <= z
    BY <1>5
  <1> QED BY <1>6 DEF Max

(* Keep selects: its members are the members of the list that belong to S, *)
(* each as often as on the list.                                           *)
LEMMA KeepProperties ==
  ASSUME NEW T, NEW list \in Seq(T), NEW S
  PROVE  /\ Keep(list, S) \in Seq(T)
         /\ ToSet(Keep(list, S)) = ToSet(list) \cap S
         /\ NoRepeats(list) => NoRepeats(Keep(list, S))
  <1> DEFINE n == Len(list)
             r(i) == Rank(list, S, i)
             c(j) == CHOOSE i \in 1 .. n : list[i] \in S /\ r(i) = j
             keep == [j \in 1 .. r(n) |-> list[c(j)]]
  <1>1. n \in Nat /\ DOMAIN list = 1 .. n /\ \A i \in 1 .. n : list[i] \in T
    BY LenProperties
  <1>2. /\ \A i \in 0 .. n : r(i) \in Nat
        /\ r(0) = 0
        /\ \A i \in 1 .. n : r(i) = r(i - 1) + (IF list[i] \in S THEN 1 ELSE 0)
        /\ \A i, j \in 0 .. n : i <= j => r(i) <= r(j)
    BY RankProperties
  <1>3. keep = Keep(list, S)
    BY DEF Keep
  <1> HIDE DEF r
  <1>4. ASSUME NEW j \in 1 .. r(n)
        PROVE  \E i \in 1 .. n : list[i] \in S /\ r(i) = j
    <2> DEFINE M == {i \in 0 .. n : r(i) >= j}
    <2>1. n \in M /\ M \in SUBSET Nat
      BY <1>1, <1>2
    <2>2. PICK i \in M : \A k \in M : i <= k
      BY <2>1, LeastNat
    <2>3. i \in 1 .. n /\ r(i) >= j
      BY <1>1, <1>2, <2>2
    <2>4. i - 1 \in 0 .. n /\ i - 1 \notin M
      BY <1>1, <2>2, <2>3
    <2>5. r(i - 1) < j
      BY <1>2, <2>4
    <2> QED BY <1>2, <2>3, <2>4, <2>5
  <1>5. ASSUME NEW j \in 1 .. r(n)
        PROVE  c(j) \in 1 .. n /\ list[c(j)] \in S /\ r(c(j)) = j
    BY <1>4
  <1> HIDE DEF c
  <1>6. keep \in Seq(T) /\ Len(keep) = r(n) /\ DOMAIN keep = 1 .. r(n)
    <2>1. n \in 0 .. n /\ r(n) \in Nat
      BY <1>1, <1>2
    <2>2. keep \in [1 .. r(n) -> T]
      BY <1>1, <1>5
    <2> QED BY <2>1, <2>2, IsASeq, LenProperties
  <1>7. NoRepeats(list) => NoRepeats(keep)
    <2> SUFFICES ASSUME NoRepeats(list),
                        NEW a \in 1 .. r(n), NEW b \in 1 .. r(n), keep[a] = keep[b]
                 PROVE  a = b
      BY <1>6 DEF NoRepeats, IsInjective
    <2>1. c(a) = c(b)
      BY <1>1, <1>5 DEF NoRepeats, IsInjective
    <2> QED BY <1>5, <2>1
  <1>8. ToSet(keep) \subseteq ToSet(list) \cap S
    BY <1>1, <1>5, <1>6 DEF ToSet
  <1>9. ASSUME NEW x \in ToSet(list) \cap S
        PROVE  x \in ToSet(keep)
    <2>1. PICK i \in 1 .. n : list[i] = x
      BY <1>1 DEF ToSet
    <2>2. /\ i - 1 \in 0 .. n /\ i \in 0 .. n /\ n \in 0 .. n
          /\ r(i) = r(i - 1) + 1
      BY <1>1, <1>2, <1>9, <2>1
    <2>3. r(i) \in 1 .. r(n)
      BY <1>1, <1>2, <2>1, <2>2
    <2> DEFINE k == c(r(i))
    <2>4. k \in 1 .. n /\ list[k] \in S /\ r(k) = r(i)
      BY <1>5, <2>3
    <2> HIDE DEF k
    <2>5. ~ (k < i)
      <3>1. k < i => r(k) <= r(i - 1)
        BY <1>1, <1>2, <2>2, <2>4
      <3> QED BY <1>2, <2>2, <2>4, <3>1, SMTT(60)
    <2>6. ~ (i < k)
      <3>1. k - 1 \in 0 .. n /\ k \in 0 .. n /\ r(k) = r(k - 1) + 1
        BY <1>1, <1>2, <2>4
      <3>2. i < k => r(i) <= r(k - 1)
        BY <1>1, <1>2, <2>2, <3>1
      <3> QED BY <1>2, <2>2, <2>4, <3>1, <3>2, SMTT(60)
    <2>7. k = i
      BY <2>4, <2>5, <2>6
    <2>8. keep[r(i)] = x
      BY <2>1, <2>3, <2>7 DEF k
    <2> QED BY <1>6, <2>3, <2>8 DEF ToSet
  <1> QED BY <1>3, <1>6, <1>7, <1>8, <1>9

(* The loop that keeps the members of S takes the next PCB or passes it.   *)
LEMMA KeepOfAppend ==
  ASSUME NEW T, NEW list \in Seq(T), NEW data \in T, NEW S
  PROVE  Keep(Append(list, data), S)
           = IF data \in S THEN Append(Keep(list, S), data) ELSE Keep(list, S)
  <1> DEFINE n == Len(list)
             more == Append(list, data)
             r(i) == Rank(list, S, i)
             q(i) == Rank(more, S, i)
             c(j) == CHOOSE i \in 1 .. n : list[i] \in S /\ r(i) = j
             d(j) == CHOOSE i \in 1 .. Len(more) : more[i] \in S /\ q(i) = j
  <1>1. /\ more \in Seq(T) /\ n \in Nat /\ Len(more) = n + 1
        /\ \A i \in 1 .. n : more[i] = list[i]
        /\ more[n + 1] = data
    BY AppendProperties, LenProperties
  <1> HIDE DEF more
  <1>2. \A i \in 0 .. n : q(i) = r(i)
    <2> TAKE i \in 0 .. n
    <2>1. \A k \in 1 .. i : more[k] = list[k]
      BY <1>1
    <2>2. {k \in 1 .. i : more[k] \in S} = {k \in 1 .. i : list[k] \in S}
      BY <2>1
    <2> QED BY <2>2 DEF Rank
  <1>3. /\ \A i \in 0 .. n : r(i) \in Nat
        /\ \A i, j \in 0 .. n : i <= j => r(i) <= r(j)
        /\ q(n + 1) = q(n) + (IF data \in S THEN 1 ELSE 0)
    <2>1. n + 1 \in 1 .. Len(more) /\ n + 1 - 1 = n
      BY <1>1
    <2>2. \A i \in 1 .. Len(more) : q(i) = q(i - 1) + (IF more[i] \in S THEN 1 ELSE 0)
      BY <1>1, RankProperties, ZenonT(60)
    <2>3. /\ \A i \in 0 .. n : r(i) \in Nat
          /\ \A i, j \in 0 .. n : i <= j => r(i) <= r(j)
      BY RankProperties
    <2> HIDE DEF r, q
    <2> QED BY <1>1, <2>1, <2>2, <2>3
  <1>4. Keep(list, S) = [j \in 1 .. r(n) |-> list[c(j)]]
    BY DEF Keep
  <1>5. Keep(more, S) = [j \in 1 .. q(n + 1) |-> more[d(j)]]
    BY <1>1 DEF Keep
  <1> HIDE DEF r, q
  <1>6. n \in 0 .. n /\ r(n) \in Nat /\ q(n) = r(n) /\ q(n + 1) \in Nat
    BY <1>1, <1>2, <1>3
  <1>7. \A j \in 1 .. r(n) : d(j) = c(j) /\ c(j) \in 1 .. n
    <2> TAKE j \in 1 .. r(n)
    <2>1. \E i \in 1 .. n : list[i] \in S /\ r(i) = j
      <3> DEFINE M == {i \in 0 .. n : r(i) >= j}
      <3>1. n \in M /\ M \in SUBSET Nat
        BY <1>1, <1>6
      <3>2. PICK i \in M : \A k \in M : i <= k
        BY <3>1, LeastNat
      <3>3. r(0) = 0 /\ \A k \in 1 .. n : r(k) = r(k - 1) + (IF list[k] \in S THEN 1 ELSE 0)
        BY RankProperties, ZenonT(60) DEF r
      <3>4. i \in 1 .. n /\ r(i) >= j
        BY <1>1, <3>2, <3>3
      <3>5. i - 1 \in 0 .. n /\ i - 1 \notin M
        BY <1>1, <3>2, <3>4
      <3>6. r(i - 1) < j
        BY <1>3, <3>5
      <3> QED BY <1>3, <3>3, <3>4, <3>5, <3>6, SMTT(60)
    <2>2. c(j) \in 1 .. n /\ list[c(j)] \in S /\ r(c(j)) = j
      BY <2>1
    <2>3. \A i \in 1 .. n : list[i] \in S /\ r(i) = j => i = c(j)
      <3> SUFFICES ASSUME NEW i \in 1 .. n, NEW k \in 1 .. n, i < k,
                          list[i] \in S, list[k] \in S, r(i) = r(k)
                   PROVE  FALSE
        BY <1>1, <2>2
      <3>1. r(k) = r(k - 1) + 1 /\ i <= k - 1 /\ k - 1 \in 0 .. n /\ i \in 0 .. n
        <4>1. \A j0 \in 1 .. n : r(j0) = r(j0 - 1) + (IF list[j0] \in S THEN 1 ELSE 0)
          BY RankProperties DEF r
        <4> QED BY <1>1, <4>1
      <3> QED BY <1>3, <3>1, SMTT(60)
    <2> HIDE DEF c
    <2>4. \A i \in 1 .. Len(more) : more[i] \in S /\ q(i) = j => i = c(j)
      <3>1. n + 1 \in 1 .. Len(more) /\ ~(more[n + 1] \in S /\ q(n + 1) = j)
        BY <1>1, <1>3, <1>6
      <3> QED BY <1>1, <1>2, <2>3, <3>1
    <2>5. c(j) \in 1 .. Len(more) /\ more[c(j)] \in S /\ q(c(j)) = j
      BY <1>1, <1>2, <2>2
    <2> QED BY <2>2, <2>4, <2>5
  <1>8. CASE data \notin S
    <2>1. q(n + 1) = r(n)
      BY <1>3, <1>6, <1>8
    <2>2. \A j \in 1 .. r(n) : more[d(j)] = list[c(j)]
      BY <1>1, <1>7
    <2> HIDE DEF c, d
    <2>3. Keep(more, S) = [j \in 1 .. r(n) |-> more[d(j)]]
      BY <1>5, <2>1
    <2>4. [j \in 1 .. r(n) |-> more[d(j)]] = [j \in 1 .. r(n) |-> list[c(j)]]
      BY <2>2
    <2>5. Keep(more, S) = Keep(list, S)
      BY <1>4, <2>3, <2>4, Zenon
    <2> QED BY <1>8, <2>5 DEF more
  <1>9. CASE data \in S
    <2>1. q(n + 1) = r(n) + 1
      BY <1>3, <1>6, <1>9
    <2>2. d(r(n) + 1) = n + 1
      <3>1. \A i \in 1 .. n : q(i) <= r(n)
        BY <1>1, <1>2, <1>3, <1>6
      <3>2. \A i \in 1 .. Len(more) : more[i] \in S /\ q(i) = r(n) + 1 <=> i = n + 1
        BY <1>1, <1>2, <1>3, <1>6, <1>9, <2>1, <3>1
      <3> QED BY <1>1, <3>2
    <2> DEFINE k == Keep(list, S)
    <2>3. k \in Seq(T) /\ Len(k) = r(n)
      BY <1>4, <1>6, KeepProperties, LenProperties
    <2> DEFINE a == Append(k, data)
               b == Keep(more, S)
    <2>4. /\ a \in Seq(T) /\ Len(a) = r(n) + 1
          /\ \A j \in 1 .. r(n) : a[j] = k[j]
          /\ a[r(n) + 1] = data
      BY <2>3, AppendProperties
    <2>5. b \in Seq(T) /\ Len(b) = r(n) + 1
      BY <1>1, <1>5, <1>6, <2>1, KeepProperties, LenProperties, SMTT(60)
    <2> HIDE DEF a
    <2>6. ASSUME NEW j \in 1 .. r(n) + 1
          PROVE  b[j] = a[j]
      <3>1. b[j] = more[d(j)]
        BY <1>5, <2>1
      <3>2. CASE j = r(n) + 1
        BY <1>1, <2>2, <2>4, <3>1, <3>2
      <3>3. CASE j \in 1 .. r(n)
        <4>1. k[j] = list[c(j)]
          BY <1>4, <3>3
        <4> QED BY <1>1, <1>7, <2>4, <3>1, <3>3, <4>1
      <3> QED BY <1>6, <3>2, <3>3
    <2> HIDE DEF b, k
    <2>7. a = b
      BY <2>4, <2>5, <2>6, SeqEqual
    <2> QED BY <1>9, <2>7 DEF a, b, k, more
  <1> QED BY <1>8, <1>9

(* A list without repetitions is not longer than there are PCBs.           *)
LEMMA ListFits ==
  ASSUME NEW T, IsFiniteSet(T), NEW list \in Seq(T), NoRepeats(list)
  PROVE  Len(list) <= Cardinality(T) /\ Len(list) \in Nat /\ Cardinality(T) \in Nat
  <1>1. Len(list) \in Nat /\ list \in [1 .. Len(list) -> T]
    BY LenProperties
  <1>2. list \in Injection(1 .. Len(list), T)
    BY <1>1, LenProperties DEF Injection, NoRepeats, IsInjective
  <1>3. Cardinality(1 .. Len(list)) = Len(list)
    BY <1>1, FS_Interval, SMTT(60)
  <1> QED BY <1>1, <1>2, <1>3, FS_Injection, FS_CardinalityType

-----------------------------------------------------------------------------
(* The list holds exactly the PCBs in X, each once. *)
Lists(T, list, X) == list \in Seq(T) /\ NoRepeats(list) /\ ToSet(list) = X

(* The test that list_delete makes on its walk finds the members. *)
LEMMA OnListProperties ==
  ASSUME NEW T, NEW list \in Seq(T), NEW data
  PROVE  OnList(list, data) <=> data \in ToSet(list)
  BY DEF OnList, Contains, ToSet

(* The list after an initialisation, `dummy.next = NULL'. *)
LEMMA ListsEmpty ==
  ASSUME NEW T
  PROVE  /\ Lists(T, << >>, {})
         /\ \A list \in Seq(T) : list # << >> <=> ToSet(list) # {}
  <1>1. ASSUME NEW list \in Seq(T), list # << >>
        PROVE  ToSet(list) # {}
    <2>1. Len(list) \in Nat \ {0} /\ DOMAIN list = 1 .. Len(list)
      BY <1>1, EmptySeq, LenProperties
    <2>2. 1 \in DOMAIN list
      BY <2>1
    <2> QED BY <2>2 DEF ToSet
  <1> QED BY <1>1 DEF Lists, NoRepeats, IsInjective, ToSet

(* list_add of a PCB that is not on the list. *)
LEMMA ListsAdd ==
  ASSUME NEW T, NEW list, NEW X, Lists(T, list, X), NEW data \in T \ X
  PROVE  Lists(T, list_add(list, data), X \cup {data})
  BY AddProperties DEF Lists

(* list_delete of a PCB that is on the list. *)
LEMMA ListsDelete ==
  ASSUME NEW T, NEW list, NEW X, Lists(T, list, X), NEW data \in X
  PROVE  Lists(T, list_delete(list, data), X \ {data})
  <1>1. data \in T
    BY DEF Lists, ToSet
  <1> QED BY <1>1, OnListProperties, DeleteProperties DEF Lists

(* list_head of a list that is not empty. *)
LEMMA ListsHead ==
  ASSUME NEW T, NEW list, NEW X, Lists(T, list, X), list # << >>
  PROVE  list_head(list) \in X /\ list_head(list) \in T
  BY HeadProperties DEF Lists

(* The loop of try_to_wakeup splits a list in two. *)
LEMMA ListsKeep ==
  ASSUME NEW T, NEW list, NEW X, Lists(T, list, X), NEW S
  PROVE  Lists(T, Keep(list, S), X \cap S)
  BY KeepProperties DEF Lists

(* A PCB that joins a list which is not empty does not become its head. *)
LEMMA HeadOfAdd ==
  ASSUME NEW T, NEW list \in Seq(T), NEW data \in T, list # << >>
  PROVE  list_head(list_add(list, data)) = list_head(list)
  <1>1. Len(list) \in Nat \ {0}
    BY EmptySeq
  <1> QED BY <1>1, AppendProperties, HeadTailProperties DEF list_head, list_add

(* list_add makes the list one longer. *)
LEMMA LenOfAdd ==
  ASSUME NEW T, NEW list \in Seq(T), NEW data \in T
  PROVE  Len(list_add(list, data)) = Len(list) + 1
  BY AppendProperties DEF list_add

(* Unlinking the head leaves the rest of the list, in its order. *)
LEMMA DeleteHead ==
  ASSUME NEW T, NEW list \in Seq(T), list # << >>
  PROVE  /\ list_delete(list, list_head(list)) = Tail(list)
         /\ Len(Tail(list)) = Len(list) - 1
  <1> DEFINE head == Head(list)
             I == {i \in 1 .. Len(list) : list[i] = head}
             m == Min(I)
  <1>1. Len(list) \in Nat \ {0} /\ list[1] = Head(list) /\ Len(Tail(list)) = Len(list) - 1
    BY EmptySeq, HeadTailProperties
  <1>2. 1 \in I /\ \A i \in I : 1 <= i /\ i \in Int
    BY <1>1
  <1>3. m = 1
    BY <1>2 DEF Min
  <1>4. list_delete(list, head) = SubSeq(list, 1, m - 1) \o SubSeq(list, m + 1, Len(list))
    <2>1. I # {} /\ \E i \in 1 .. Len(list) : list[i] = head
      BY <1>2
    <2> HIDE DEF head
    <2> QED BY <2>1 DEF list_delete, RemoveFirst, RemoveAt, SelectInSeq
  <1> HIDE DEF m, I
  <1>5. SubSeq(list, 1, m - 1) = << >>
    <2>1. m - 1 < 1 /\ m - 1 \in Int
      BY <1>3
    <2> QED BY <2>1, SubSeqEmpty
  <1>6. SubSeq(list, m + 1, Len(list)) = Tail(list)
    <2>1. m + 1 = 2
      BY <1>3
    <2> QED BY <2>1, TailIsSubSeq
  <1>7. << >> \o Tail(list) = Tail(list)
    BY HeadTailProperties, ConcatEmptySeq
  <1> QED BY <1>1, <1>4, <1>5, <1>6, <1>7 DEF list_head

(* Linking the PCBs of one list behind those of another. *)
LEMMA ListsConcat ==
  ASSUME NEW T, NEW l, NEW X, Lists(T, l, X), NEW m, NEW Y, Lists(T, m, Y), X \cap Y = {}
  PROVE  Lists(T, l \o m, X \cup Y)
  <1>1. /\ l \in Seq(T) /\ m \in Seq(T)
        /\ Len(l) \in Nat /\ DOMAIN l = 1 .. Len(l)
        /\ Len(m) \in Nat /\ DOMAIN m = 1 .. Len(m)
    BY LenProperties DEF Lists
  <1>2. /\ l \o m \in Seq(T)
        /\ Len(l \o m) = Len(l) + Len(m)
        /\ DOMAIN (l \o m) = 1 .. Len(l) + Len(m)
        /\ \A i \in 1 .. Len(l) + Len(m) :
             (l \o m)[i] = IF i <= Len(l) THEN l[i] ELSE m[i - Len(l)]
    BY <1>1, ConcatProperties, LenProperties
  <1> DEFINE c == l \o m
  <1> HIDE DEF c
  <1>3. /\ \A i \in 1 .. Len(l) : i \in DOMAIN c /\ c[i] = l[i]
        /\ \A i \in 1 .. Len(m) : i + Len(l) \in DOMAIN c /\ c[i + Len(l)] = m[i]
        /\ \A i \in DOMAIN c : IF i <= Len(l) THEN i \in 1 .. Len(l) /\ c[i] = l[i]
                               ELSE i - Len(l) \in 1 .. Len(m) /\ c[i] = m[i - Len(l)]
    BY <1>1, <1>2 DEF c
  <1>4. /\ \A i \in 1 .. Len(l) : l[i] \in X
        /\ \A i \in 1 .. Len(m) : m[i] \in Y
        /\ \A x \in X : \E i \in 1 .. Len(l) : l[i] = x
        /\ \A x \in Y : \E i \in 1 .. Len(m) : m[i] = x
    BY <1>1 DEF Lists, ToSet
  <1>5. ToSet(c) = X \cup Y
    <2>1. ASSUME NEW i \in DOMAIN c PROVE c[i] \in X \cup Y
      BY <1>3, <1>4
    <2>2. ASSUME NEW x \in X \cup Y PROVE \E i \in DOMAIN c : c[i] = x
      BY <1>3, <1>4
    <2> QED BY <2>1, <2>2 DEF ToSet
  <1>6. NoRepeats(c)
    <2> SUFFICES ASSUME NEW a \in DOMAIN c, NEW b \in DOMAIN c, c[a] = c[b]
                 PROVE  a = b
      BY DEF NoRepeats, IsInjective
    <2>1. /\ \A i, j \in 1 .. Len(l) : l[i] = l[j] => i = j
          /\ \A i, j \in 1 .. Len(m) : m[i] = m[j] => i = j
      BY <1>1 DEF Lists, NoRepeats, IsInjective
    <2>2. a \in Int /\ b \in Int
      BY <1>2 DEF c
    <2> QED BY <1>1, <1>3, <1>4, <2>1, <2>2
  <1> QED BY <1>2, <1>5, <1>6 DEF Lists, c

-----------------------------------------------------------------------------
(***************************************************************************)
(* What becomes of the order of a list: whoever stays on it stays ahead of *)
(* everybody behind him and of everybody who joins.                        *)
(***************************************************************************)
KeepsOrder(old, new) ==
  \A p \in ToSet(old) \cap ToSet(new), q \in ToSet(new) :
    p # q /\ (q \in ToSet(old) => Ahead(old, p, q)) => Ahead(new, p, q)

(* Nothing changes, and two changes of which the first removes nobody whom *)
(* the second brings back.                                                 *)
LEMMA OrderOfNone ==
  ASSUME NEW list
  PROVE  KeepsOrder(list, list)
  BY DEF KeepsOrder

LEMMA OrderOfTwo ==
  ASSUME NEW l, NEW m, NEW n, KeepsOrder(l, m), KeepsOrder(m, n),
         ToSet(l) \cap ToSet(n) \subseteq ToSet(m)
  PROVE  KeepsOrder(l, n)
  BY DEF KeepsOrder

(* Whoever joins at the end is behind everybody. *)
LEMMA OrderOfConcat ==
  ASSUME NEW T, NEW l \in Seq(T), NEW m \in Seq(T)
  PROVE  KeepsOrder(l, l \o m)
  <1> DEFINE c == l \o m
  <1>1. /\ Len(l) \in Nat /\ DOMAIN l = 1 .. Len(l)
        /\ Len(m) \in Nat
        /\ Len(c) = Len(l) + Len(m) /\ DOMAIN c = 1 .. Len(c)
        /\ \A i \in 1 .. Len(c) : c[i] = IF i <= Len(l) THEN l[i] ELSE m[i - Len(l)]
    BY ConcatProperties, LenProperties
  <1> SUFFICES ASSUME NEW p \in ToSet(l), NEW q \in ToSet(c),
                      q \in ToSet(l) => Ahead(l, p, q)
               PROVE  Ahead(c, p, q)
    BY DEF KeepsOrder
  <1> HIDE DEF c
  <1>2. \A i \in 1 .. Len(l) : i \in 1 .. Len(c) /\ c[i] = l[i]
    BY <1>1
  <1>3. CASE q \in ToSet(l)
    <2>1. PICK i \in 1 .. Len(l), j \in 1 .. Len(l) : i < j /\ l[i] = p /\ l[j] = q
      BY <1>3 DEF Ahead
    <2> QED BY <1>2, <2>1 DEF Ahead
  <1>4. CASE q \notin ToSet(l)
    <2>1. PICK i \in 1 .. Len(l) : l[i] = p
      BY <1>1 DEF ToSet
    <2>2. PICK j \in 1 .. Len(c) : c[j] = q
      BY <1>1 DEF ToSet
    <2>3. ~(j <= Len(l))
      BY <1>1, <1>4, <2>2 DEF ToSet
    <2>4. i < j
      BY <1>1, <2>3
    <2> QED BY <1>2, <2>1, <2>2, <2>4 DEF Ahead
  <1> QED BY <1>3, <1>4

LEMMA OrderOfAdd ==
  ASSUME NEW T, NEW list \in Seq(T), NEW data \in T
  PROVE  KeepsOrder(list, list_add(list, data))
  <1>1. <<data>> \in Seq(T) /\ list_add(list, data) = list \o <<data>>
    BY AppendIsConcat DEF list_add
  <1> QED BY <1>1, OrderOfConcat

(* The others move up when the head is taken. *)
LEMMA OrderOfHead ==
  ASSUME NEW T, NEW list \in Seq(T), NoRepeats(list), list # << >>
  PROVE  KeepsOrder(list, list_delete(list, list_head(list)))
  <1> DEFINE t == Tail(list)
  <1>1. /\ Len(list) \in Nat \ {0} /\ DOMAIN list = 1 .. Len(list)
        /\ Len(t) = Len(list) - 1
        /\ \A i \in 1 .. Len(t) : t[i] = list[i + 1]
        /\ list_head(list) = list[1]
        /\ ToSet(t) = ToSet(list) \ {list_head(list)}
    BY EmptySeq, LenProperties, HeadTailProperties, HeadProperties DEF list_head
  <1> HIDE DEF t
  <1> SUFFICES ASSUME NEW p \in ToSet(t), NEW q \in ToSet(t), Ahead(list, p, q)
               PROVE  Ahead(t, p, q)
    BY <1>1, DeleteHead, ZenonT(60) DEF KeepsOrder, t
  <1>2. PICK i \in 1 .. Len(list), j \in 1 .. Len(list) :
          i < j /\ list[i] = p /\ list[j] = q
    BY DEF Ahead
  <1>3. i # 1
    BY <1>1, <1>2
  <1>4. i - 1 \in 1 .. Len(t) /\ j - 1 \in 1 .. Len(t) /\ t[i - 1] = p /\ t[j - 1] = q
    BY <1>1, <1>2, <1>3
  <1> QED BY <1>2, <1>4 DEF Ahead

=============================================================================
