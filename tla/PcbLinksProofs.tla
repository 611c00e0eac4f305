--------------------------- MODULE PcbLinksProofs ---------------------------
(***************************************************************************)
(* PcbLinks.tla: the pointer code of list.c implements queues, and a walk  *)
(* of try_to_wakeup over a list whose nodes it relinks visits every        *)
(* sleeper once, for every finite set of PCBs.                             *)
(***************************************************************************)
EXTENDS PcbLinks, KernelListsProofs

(***************************************************************************)
(* Place(x, s, i) is where i steps from x lead if s holds what is met on   *)
(* the way, and Linked says that s is the chain of x: every place on it    *)
(* points to the next one and the last to NULL.                            *)
(***************************************************************************)
Places == Nodes \cup Heads
Pointers == [Places -> Nodes \cup {Null}]
Place(x, s, i) == IF i = 0 THEN x ELSE s[i]
Linked(nx, x, s) ==
  /\ s \in Seq(Nodes)
  /\ \A i \in 0 .. Len(s) : nx[Place(x, s, i)] = IF i < Len(s) THEN s[i + 1] ELSE Null

(* The places of a chain are PCBs and list heads. *)
LEMMA PlaceType ==
  ASSUME NEW x \in Places, NEW s \in Seq(Nodes), NEW i \in 0 .. Len(s)
  PROVE  /\ Len(s) \in Nat
         /\ Place(x, s, i) \in Places
         /\ i > 0 => Place(x, s, i) \in Nodes /\ Place(x, s, i) \in ToSet(s)
  <1>1. Len(s) \in Nat /\ DOMAIN s = 1 .. Len(s) /\ \A j \in 1 .. Len(s) : s[j] \in Nodes
    BY LenProperties
  <1>2. i = 0 \/ i \in 1 .. Len(s)
    BY <1>1
  <1> QED BY <1>1, <1>2 DEF Place, Places, ToSet

-----------------------------------------------------------------------------
(***************************************************************************)
(* The chain of x, as far as n steps can see it.                           *)
(***************************************************************************)
Trail(nx, x, n, s) ==
  /\ s \in Seq(Nodes) /\ Len(s) <= n
  /\ \A i \in 0 .. Len(s) - 1 : nx[Place(x, s, i)] = s[i + 1]
  /\ Len(s) < n => nx[Place(x, s, Len(s))] = Null

(* There is one at most, *)
LEMMA TrailUnique ==
  ASSUME NEW nx, NEW x, NEW n \in Nat, NEW s, Trail(nx, x, n, s), NEW t, Trail(nx, x, n, t),
         Null \notin Nodes
  PROVE  s = t
  <1>1. /\ s \in Seq(Nodes) /\ Len(s) \in Nat /\ \A i \in 1 .. Len(s) : s[i] \in Nodes
        /\ t \in Seq(Nodes) /\ Len(t) \in Nat /\ \A i \in 1 .. Len(t) : t[i] \in Nodes
        /\ Len(s) <= n /\ Len(t) <= n
    BY LenProperties DEF Trail
  <1>2. \A i \in 1 .. Len(s) : i <= Len(t) => s[i] = t[i]
    <2> DEFINE M == {i \in 1 .. Len(s) : i <= Len(t) /\ s[i] # t[i]}
    <2> SUFFICES ASSUME M # {} PROVE FALSE
      OBVIOUS
    <2>0. M \in SUBSET Nat
      BY <1>1
    <2>1. PICK i \in M : \A j \in M : i <= j
      BY <2>0, LeastNat
    <2>2. i - 1 \in 0 .. Len(s) - 1 /\ i - 1 \in 0 .. Len(t) - 1 /\ (i - 1) + 1 = i
      BY <1>1, <2>1
    <2>3. Place(x, s, i - 1) = Place(x, t, i - 1)
      <3>1. CASE i = 1
        BY <3>1 DEF Place
      <3>2. CASE i # 1
        <4>1. i - 1 \in 1 .. Len(s) /\ i - 1 <= Len(t) /\ ~(i <= i - 1)
          BY <1>1, <2>1, <3>2
        <4>2. s[i - 1] = t[i - 1]
          BY <2>1, <4>1
        <4> QED BY <4>2 DEF Place
      <3> QED BY <3>1, <3>2
    <2>4. s[i] = nx[Place(x, s, i - 1)] /\ t[i] = nx[Place(x, t, i - 1)]
      BY <2>2 DEF Trail
    <2> QED BY <2>1, <2>3, <2>4
  <1>3. ASSUME NEW u, NEW v, Trail(nx, x, n, u), Trail(nx, x, n, v),
               \A i \in 1 .. Len(u) : i <= Len(v) => u[i] = v[i]
        PROVE  ~(Len(u) < Len(v))
    <2> SUFFICES ASSUME Len(u) < Len(v) PROVE FALSE
      OBVIOUS
    <2>1. /\ Len(u) \in Nat /\ Len(v) \in Nat /\ Len(v) <= n
          /\ \A i \in 1 .. Len(v) : v[i] \in Nodes
      BY <1>3, LenProperties DEF Trail
    <2>2. nx[Place(x, u, Len(u))] = Null
      BY <1>3, <2>1 DEF Trail
    <2>3. Len(u) \in 0 .. Len(v) - 1
      BY <2>1
    <2>4. nx[Place(x, v, Len(u))] = v[Len(u) + 1]
      BY <1>3, <2>3 DEF Trail
    <2>5. Place(x, u, Len(u)) = Place(x, v, Len(u))
      BY <1>3, <2>1 DEF Place
    <2> QED BY <2>1, <2>2, <2>3, <2>4, <2>5
  <1>4. \A i \in 1 .. Len(t) : i <= Len(s) => t[i] = s[i]
    BY <1>1, <1>2
  <1>5. ~(Len(s) < Len(t)) /\ ~(Len(t) < Len(s))
    BY <1>2, <1>3, <1>4
  <1>6. Len(s) = Len(t)
    BY <1>1, <1>5
  <1> QED BY <1>1, <1>2, <1>6, SeqEqual

(* and a step of Chain leads from the trail of a successor to the trail.   *)
LEMMA TrailStep ==
  ASSUME NEW nx \in Pointers, NEW x \in Places, NEW n \in Nat, n # 0, nx[x] # Null,
         NEW s, Trail(nx, nx[x], n - 1, s)
  PROVE  Trail(nx, x, n, <<nx[x]>> \o s)
  <1> DEFINE t == <<nx[x]>> \o s
  <1>1. nx[x] \in Nodes
    BY DEF Pointers
  <1>2. s \in Seq(Nodes) /\ Len(s) \in Nat /\ Len(s) <= n - 1
    BY LenProperties DEF Trail
  <1>3. <<nx[x]>> \in Seq(Nodes) /\ Len(<<nx[x]>>) = 1 /\ <<nx[x]>>[1] = nx[x]
    BY <1>1
  <1>4. /\ t \in Seq(Nodes) /\ Len(t) = 1 + Len(s)
        /\ \A i \in 1 .. 1 + Len(s) : t[i] = IF i <= 1 THEN <<nx[x]>>[i] ELSE s[i - 1]
    BY <1>2, <1>3, ConcatProperties
  <1> HIDE DEF t
  <1>5. t[1] = nx[x]
    BY <1>2, <1>3, <1>4
  <1>6. \A i \in 1 .. Len(s) : t[i + 1] = s[i]
    <2> TAKE i \in 1 .. Len(s)
    <2>1. i + 1 \in 1 .. 1 + Len(s) /\ ~(i + 1 <= 1) /\ (i + 1) - 1 = i
      BY <1>2
    <2> QED BY <1>4, <2>1
  <1>7. \A i \in 0 .. Len(s) : Place(x, t, i + 1) = Place(nx[x], s, i)
    <2> TAKE i \in 0 .. Len(s)
    <2>1. i = 0 \/ i \in 1 .. Len(s)
      BY <1>2
    <2> QED BY <1>2, <1>5, <1>6, <2>1 DEF Place
  <1>8. ASSUME NEW i \in 0 .. Len(t) - 1
        PROVE  nx[Place(x, t, i)] = t[i + 1]
    <2>1. CASE i = 0
      BY <1>5, <2>1 DEF Place
    <2>2. CASE i # 0
      <3>1. i - 1 \in 0 .. Len(s) - 1 /\ (i - 1) + 1 = i /\ i \in 1 .. Len(s) /\ i - 1 \in 0 .. Len(s)
        BY <1>2, <1>4, <2>2
      <3>2. nx[Place(nx[x], s, i - 1)] = s[(i - 1) + 1]
        BY <3>1 DEF Trail
      <3>3. Place(x, t, i) = Place(nx[x], s, i - 1)
        BY <1>7, <3>1
      <3> QED BY <1>6, <3>1, <3>2, <3>3
    <2> QED BY <2>1, <2>2
  <1>9. ASSUME Len(t) < n
        PROVE  nx[Place(x, t, Len(t))] = Null
    <2>1. Len(s) < n - 1 /\ Len(s) \in 0 .. Len(s) /\ Len(s) + 1 = Len(t)
      BY <1>2, <1>4, <1>9
    <2>2. nx[Place(nx[x], s, Len(s))] = Null
      BY <2>1 DEF Trail
    <2>3. Place(x, t, Len(s) + 1) = Place(nx[x], s, Len(s))
      BY <1>7, <2>1
    <2> QED BY <2>1, <2>2, <2>3
  <1>10. Len(t) <= n
    BY <1>2, <1>4
  <1> QED BY <1>4, <1>8, <1>9, <1>10 DEF Trail, t

LEMMA TrailEmpty ==
  ASSUME NEW nx, NEW x, NEW n \in Nat, n = 0 \/ nx[x] = Null
  PROVE  Trail(nx, x, n, << >>)
  <1>1. << >> \in Seq(Nodes) /\ Len(<< >>) = 0
    BY EmptySeq
  <1> QED BY <1>1 DEF Trail, Place

(* Chain(x) is the trail of x of one step more than there are PCBs.        *)
LEMMA ChainIsTrail ==
  ASSUME next \in Pointers, IsFiniteSet(Nodes), Null \notin Nodes, NEW x \in Places
  PROVE  Trail(next, x, Cardinality(Nodes) + 1, Chain(x))
  <1> DEFINE C == Cardinality(Nodes) + 1
             Step(f) == [n \in 0 .. C |-> [y \in Places |->
                           IF n = 0 \/ next[y] = Null THEN << >>
                           ELSE <<next[y]>> \o f[n - 1][next[y]]]]
             from == CHOOSE f : f = Step(f)
  <1>1. C \in Nat
    BY FS_CardinalityType
  <1>2. Chain(x) = from[C][x]
    BY Zenon DEF Chain, Places
  <1> HIDE DEF C
  <1>3. \A y \in Places : next[y] # Null => next[y] \in Nodes /\ next[y] \in Places
    BY DEF Pointers, Places
  <1>4. ASSUME NEW n \in 0 .. C, NEW y \in Places
        PROVE  \E s : Trail(next, y, n, s)
    <2> DEFINE M == {k \in 0 .. C : \E z \in Places : ~\E s : Trail(next, z, k, s)}
    <2> SUFFICES ASSUME M # {} PROVE FALSE
      OBVIOUS
    <2>1. M \in SUBSET Nat
      BY <1>1
    <2>2. PICK k \in M : \A j \in M : k <= j
      BY <2>1, LeastNat
    <2>3. PICK z \in Places : ~\E s : Trail(next, z, k, s)
      OBVIOUS
    <2>4. k \in Nat /\ k # 0 /\ next[z] # Null
      BY <2>1, <2>3, TrailEmpty
    <2>5. k - 1 \in 0 .. C /\ ~(k <= k - 1)
      BY <1>1, <2>4
    <2>6. k - 1 \notin M
      BY <2>2, <2>5
    <2>7. PICK s : Trail(next, next[z], k - 1, s)
      BY <1>3, <2>4, <2>5, <2>6
    <2>8. Trail(next, z, k, <<next[z]>> \o s)
      BY <2>4, <2>7, TrailStep
    <2> QED BY <2>3, <2>8
  <1> DEFINE best(n, y) == CHOOSE s : Trail(next, y, n, s)
             G == [n \in 0 .. C |-> [y \in Places |-> best(n, y)]]
  <1>5. \A n \in 0 .. C, y \in Places : Trail(next, y, n, best(n, y))
    BY <1>4
  <1> HIDE DEF best
  <1>6. \A n \in 0 .. C, y \in Places :
          n = 0 \/ next[y] = Null => best(n, y) = << >>
    <2> TAKE n \in 0 .. C, y \in Places
    <2> HAVE n = 0 \/ next[y] = Null
    <2>1. n \in Nat
      BY <1>1
    <2>2. Trail(next, y, n, << >>)
      BY <2>1, TrailEmpty
    <2> QED BY <1>5, <2>1, <2>2, TrailUnique
  <1>7. \A n \in 0 .. C, y \in Places :
          ~(n = 0 \/ next[y] = Null) =>
            /\ n - 1 \in 0 .. C /\ next[y] \in Places
            /\ best(n, y) = <<next[y]>> \o best(n - 1, next[y])
    <2> TAKE n \in 0 .. C, y \in Places
    <2> HAVE ~(n = 0 \/ next[y] = Null)
    <2>1. n \in Nat /\ n - 1 \in 0 .. C /\ next[y] \in Places
      BY <1>1, <1>3
    <2>2. Trail(next, next[y], n - 1, best(n - 1, next[y]))
      BY <1>5, <2>1
    <2>3. Trail(next, y, n, <<next[y]>> \o best(n - 1, next[y]))
      BY <2>1, <2>2, TrailStep
    <2>4. Trail(next, y, n, best(n, y))
      BY <1>5
    <2>5. best(n, y) = <<next[y]>> \o best(n - 1, next[y])
      BY <2>1, <2>3, <2>4, TrailUnique
    <2> QED BY <2>1, <2>5
  <1>8. G = Step(G)
    <2>1. ASSUME NEW n \in 0 .. C
          PROVE  G[n] = Step(G)[n]
      <3>1. ASSUME NEW y \in Places
            PROVE  best(n, y) = IF n = 0 \/ next[y] = Null THEN << >>
                                ELSE <<next[y]>> \o G[n - 1][next[y]]
        <4>1. CASE n = 0 \/ next[y] = Null
          <5>1. best(n, y) = << >>
            BY <1>6, <4>1
          <5> QED BY <4>1, <5>1
        <4>2. CASE ~(n = 0 \/ next[y] = Null)
          <5>1. n - 1 \in 0 .. C /\ next[y] \in Places
            BY <1>7, <4>2
          <5>2. G[n - 1][next[y]] = best(n - 1, next[y])
            BY <5>1
          <5>3. best(n, y) = <<next[y]>> \o G[n - 1][next[y]]
            BY <1>7, <4>2, <5>2
          <5> QED BY <4>2, <5>3
        <4> QED BY <4>1, <4>2
      <3>2. G[n] = [y \in Places |-> best(n, y)]
        OBVIOUS
      <3> HIDE DEF G
      <3> QED BY <3>1, <3>2
    <2>2. DOMAIN G = 0 .. C /\ DOMAIN Step(G) = 0 .. C
      OBVIOUS
    <2>3. G = [n \in 0 .. C |-> G[n]] /\ Step(G) = [n \in 0 .. C |-> Step(G)[n]]
      OBVIOUS
    <2> HIDE DEF G, Step
    <2> QED BY <2>1, <2>3
  <1> HIDE DEF G
  <1>9. from = Step(from)
    BY <1>8
  <1> HIDE DEF from
  <1>10. ASSUME NEW n \in 0 .. C, NEW y \in Places
         PROVE  from[n][y] = IF n = 0 \/ next[y] = Null THEN << >>
                             ELSE <<next[y]>> \o from[n - 1][next[y]]
    <2> DEFINE turn == [z \in Places |->
                          IF n = 0 \/ next[z] = Null THEN << >>
                          ELSE <<next[z]>> \o from[n - 1][next[z]]]
    <2>1. from[n] = Step(from)[n]
      BY <1>9
    <2>2. Step(from)[n] = turn
      OBVIOUS
    <2>3. turn[y] = IF n = 0 \/ next[y] = Null THEN << >>
                    ELSE <<next[y]>> \o from[n - 1][next[y]]
      OBVIOUS
    <2> HIDE DEF turn, Step
    <2> QED BY <2>1, <2>2, <2>3
  <1> HIDE DEF Step
  <1> DEFINE M == {k \in 0 .. C : \E z \in Places : ~Trail(next, z, k, from[k][z])}
  <1>11. M = {}
    <2> SUFFICES ASSUME M # {} PROVE FALSE
      OBVIOUS
    <2>1. M \in SUBSET Nat
      BY <1>1
    <2>2. PICK k \in M : \A j \in M : k <= j
      BY <2>1, LeastNat
    <2>3. PICK z \in Places : ~Trail(next, z, k, from[k][z])
      OBVIOUS
    <2>4. k \in Nat /\ k # 0 /\ next[z] # Null
      BY <1>10, <2>1, <2>3, TrailEmpty
    <2>5. k - 1 \in 0 .. C /\ ~(k <= k - 1)
      BY <1>1, <2>4
    <2>6. k - 1 \notin M
      BY <2>2, <2>5
    <2>7. Trail(next, next[z], k - 1, from[k - 1][next[z]])
      BY <1>3, <2>4, <2>5, <2>6
    <2>8. Trail(next, z, k, <<next[z]>> \o from[k - 1][next[z]])
      BY <2>4, <2>7, TrailStep
    <2> QED BY <1>10, <2>3, <2>4, <2>8
  <1>12. C \in 0 .. C
    BY <1>1
  <1>13. Trail(next, x, C, from[C][x])
    BY <1>11, <1>12
  <1> QED BY <1>2, <1>13 DEF C

(* So that a chain which ends is what Chain finds.                         *)
LEMMA LinkedChain ==
  ASSUME next \in Pointers, LinksAssumption, NEW x \in Places,
         NEW s, Linked(next, x, s), NoRepeats(s)
  PROVE  Chain(x) = s
  <1>1. s \in Seq(Nodes) /\ Len(s) \in Nat /\ Len(s) < Cardinality(Nodes) + 1
    BY ListFits DEF Linked, LinksAssumption
  <1>2. \A i \in 0 .. Len(s) - 1 : i \in 0 .. Len(s) /\ i < Len(s)
    BY <1>1
  <1>3. Len(s) \in 0 .. Len(s) /\ ~(Len(s) < Len(s)) /\ Cardinality(Nodes) + 1 \in Nat
    BY <1>1, FS_CardinalityType DEF LinksAssumption
  <1>4. Trail(next, x, Cardinality(Nodes) + 1, s)
    BY <1>1, <1>2, <1>3, SMTT(60) DEF Trail, Linked
  <1>5. Trail(next, x, Cardinality(Nodes) + 1, Chain(x))
    BY ChainIsTrail DEF LinksAssumption
  <1> QED BY <1>3, <1>4, <1>5, TrailUnique DEF LinksAssumption

-----------------------------------------------------------------------------
(***************************************************************************)
(* The loops of list.c walk from x while the next pointer is not in Z:     *)
(* neither NULL nor, for list_delete, the PCB they look for.  s holds the  *)
(* PCBs that such a walk passes.                                           *)
(***************************************************************************)
Walked(nx, Z, x, s) ==
  /\ s \in Seq(Nodes)
  /\ \A i \in 0 .. Len(s) - 1 : nx[Place(x, s, i)] = s[i + 1] /\ s[i + 1] \notin Z
  /\ nx[Place(x, s, Len(s))] \in Z

(* A walk is the step to the next PCB and the walk from there.             *)
LEMMA WalkedStep ==
  ASSUME NEW nx \in Pointers, NEW Z, Null \in Z, NEW x \in Places, nx[x] \notin Z
  PROVE  /\ \A t : Walked(nx, Z, nx[x], t) =>
              /\ Walked(nx, Z, x, <<nx[x]>> \o t)
              /\ Place(x, <<nx[x]>> \o t, Len(<<nx[x]>> \o t)) = Place(nx[x], t, Len(t))
         /\ \A s : Walked(nx, Z, x, s) =>
              /\ Walked(nx, Z, nx[x], Tail(s))
              /\ Place(x, s, Len(s)) = Place(nx[x], Tail(s), Len(Tail(s)))
  <1>1. nx[x] \in Nodes
    BY DEF Pointers
  <1>2. ASSUME NEW s \in Seq(Nodes), NEW t \in Seq(Nodes), Len(s) = Len(t) + 1,
               s[1] = nx[x], \A i \in 1 .. Len(t) : s[i + 1] = t[i]
        PROVE  /\ Walked(nx, Z, x, s) <=> Walked(nx, Z, nx[x], t)
               /\ Place(x, s, Len(s)) = Place(nx[x], t, Len(t))
    <2>1. Len(t) \in Nat /\ Len(s) \in Nat
      BY LenProperties
    <2>2. \A i \in 0 .. Len(t) : Place(x, s, i + 1) = Place(nx[x], t, i)
      <3> TAKE i \in 0 .. Len(t)
      <3>1. i = 0 \/ i \in 1 .. Len(t)
        BY <2>1
      <3> QED BY <1>2, <2>1, <3>1 DEF Place
    <2>3. Place(x, s, Len(s)) = Place(nx[x], t, Len(t))
      BY <1>2, <2>1, <2>2
    <2>4. ASSUME Walked(nx, Z, x, s)
          PROVE  Walked(nx, Z, nx[x], t)
      <3>1. ASSUME NEW i \in 0 .. Len(t) - 1
            PROVE  nx[Place(nx[x], t, i)] = t[i + 1] /\ t[i + 1] \notin Z
        <4>1. i + 1 \in 0 .. Len(s) - 1 /\ i \in 0 .. Len(t) /\ i + 1 \in 1 .. Len(t)
          BY <1>2, <2>1
        <4>2. nx[Place(x, s, i + 1)] = s[(i + 1) + 1] /\ s[(i + 1) + 1] \notin Z
          BY <2>4, <4>1 DEF Walked
        <4> QED BY <1>2, <2>2, <4>1, <4>2
      <3> QED BY <2>3, <2>4, <3>1 DEF Walked
    <2>5. ASSUME Walked(nx, Z, nx[x], t)
          PROVE  Walked(nx, Z, x, s)
      <3>1. ASSUME NEW i \in 0 .. Len(s) - 1
            PROVE  nx[Place(x, s, i)] = s[i + 1] /\ s[i + 1] \notin Z
        <4>1. CASE i = 0
          BY <1>2, <4>1 DEF Place
        <4>2. CASE i # 0
          <5>1. /\ i - 1 \in 0 .. Len(t) - 1 /\ i - 1 \in 0 .. Len(t) /\ (i - 1) + 1 = i
                /\ i \in 1 .. Len(t)
            BY <1>2, <2>1, <4>2
          <5>2. nx[Place(nx[x], t, i - 1)] = t[(i - 1) + 1] /\ t[(i - 1) + 1] \notin Z
            BY <2>5, <5>1 DEF Walked
          <5>3. Place(x, s, (i - 1) + 1) = Place(nx[x], t, i - 1)
            BY <2>2, <5>1
          <5> QED BY <1>2, <5>1, <5>2, <5>3
        <4> QED BY <4>1, <4>2
      <3> QED BY <2>3, <2>5, <3>1 DEF Walked
    <2> QED BY <2>3, <2>4, <2>5
  <1>3. ASSUME NEW t, Walked(nx, Z, nx[x], t)
        PROVE  /\ Walked(nx, Z, x, <<nx[x]>> \o t)
               /\ Place(x, <<nx[x]>> \o t, Len(<<nx[x]>> \o t)) = Place(nx[x], t, Len(t))
    <2> DEFINE u == <<nx[x]>>
               s == u \o t
    <2>1. t \in Seq(Nodes) /\ Len(t) \in Nat /\ u \in Seq(Nodes) /\ Len(u) = 1 /\ u[1] = nx[x]
      BY <1>1, <1>3, LenProperties DEF Walked
    <2> HIDE DEF u
    <2>0. /\ s \in Seq(Nodes) /\ Len(s) = Len(u) + Len(t)
          /\ \A i \in 1 .. Len(u) + Len(t) : s[i] = IF i <= Len(u) THEN u[i] ELSE t[i - Len(u)]
      BY <2>1, ConcatProperties
    <2> HIDE DEF s
    <2>2. /\ s \in Seq(Nodes) /\ Len(s) = 1 + Len(t)
          /\ \A i \in 1 .. 1 + Len(t) : s[i] = IF i <= 1 THEN u[i] ELSE t[i - 1]
      BY <2>0, <2>1
    <2>3. Len(s) = Len(t) + 1 /\ s[1] = nx[x]
      BY <2>1, <2>2
    <2>4. \A i \in 1 .. Len(t) : s[i + 1] = t[i]
      <3> TAKE i \in 1 .. Len(t)
      <3>1. i + 1 \in 1 .. 1 + Len(t) /\ ~(i + 1 <= 1) /\ (i + 1) - 1 = i
        BY <2>1
      <3> QED BY <2>2, <3>1
    <2>5. Walked(nx, Z, x, s) /\ Place(x, s, Len(s)) = Place(nx[x], t, Len(t))
      BY <1>2, <1>3, <2>1, <2>2, <2>3, <2>4
    <2> QED BY <2>5 DEF s, u
  <1>4. ASSUME NEW s, Walked(nx, Z, x, s)
        PROVE  /\ Walked(nx, Z, nx[x], Tail(s))
               /\ Place(x, s, Len(s)) = Place(nx[x], Tail(s), Len(Tail(s)))
    <2>1. s \in Seq(Nodes) /\ Len(s) \in Nat
      BY <1>4, LenProperties DEF Walked
    <2>2. s # << >>
      BY <1>4, EmptySeq DEF Walked, Place
    <2>3. Len(s) \in Nat \ {0}
      BY <2>1, <2>2, EmptySeq
    <2>4. /\ Tail(s) \in Seq(Nodes) /\ Len(s) = Len(Tail(s)) + 1
          /\ \A i \in 1 .. Len(Tail(s)) : s[i + 1] = Tail(s)[i]
      BY <2>1, <2>2, <2>3, HeadTailProperties
    <2>5. s[1] = nx[x]
      <3>1. 0 \in 0 .. Len(s) - 1 /\ 0 + 1 = 1
        BY <2>3
      <3>2. nx[Place(x, s, 0)] = s[0 + 1]
        BY <1>4, <3>1 DEF Walked
      <3> QED BY <3>1, <3>2 DEF Place
    <2> QED BY <1>2, <1>4, <2>1, <2>4, <2>5
  <1> QED BY <1>3, <1>4

(* Such a walk can be written as a recursive function, also when pointers  *)
(* of other PCBs run in circles;                                           *)
LEMMA StopExists ==
  ASSUME NEW nx \in Pointers, NEW Z, Null \in Z
  PROVE  \E f : f = [x \in Places |-> IF nx[x] \in Z THEN x ELSE f[nx[x]]]
  <1> DEFINE Ends(x) == {y \in Places : \E s : Walked(nx, Z, x, s) /\ y = Place(x, s, Len(s))}
             e(x) == CHOOSE y : y \in Ends(x)
             f == [x \in Places |-> e(x)]
  <1>1. ASSUME NEW x \in Places, nx[x] \in Z
        PROVE  e(x) = x
    <2>1. \A s : Walked(nx, Z, x, s) => s = << >>
      <3> SUFFICES ASSUME NEW s, Walked(nx, Z, x, s), s # << >> PROVE FALSE
        OBVIOUS
      <3>1. Len(s) \in Nat \ {0}
        BY EmptySeq DEF Walked
      <3>2. 0 \in 0 .. Len(s) - 1
        BY <3>1
      <3> QED BY <1>1, <3>2 DEF Walked, Place
    <2>2. Walked(nx, Z, x, << >>) /\ Place(x, << >>, Len(<< >>)) = x
      BY <1>1, EmptySeq DEF Walked, Place
    <2>3. Ends(x) = {x}
      BY <2>1, <2>2
    <2> HIDE DEF Ends
    <2> QED BY <2>3
  <1>2. ASSUME NEW x \in Places, nx[x] \notin Z
        PROVE  nx[x] \in Places /\ e(x) = e(nx[x])
    <2>1. nx[x] \in Places
      BY <1>2 DEF Pointers, Places
    <2>2. ASSUME NEW y \in Places
          PROVE  y \in Ends(x) <=> y \in Ends(nx[x])
      <3>1. ASSUME NEW s, Walked(nx, Z, x, s), y = Place(x, s, Len(s))
            PROVE  y \in Ends(nx[x])
        <4>1. \A u : Walked(nx, Z, x, u) =>
                /\ Walked(nx, Z, nx[x], Tail(u))
                /\ Place(x, u, Len(u)) = Place(nx[x], Tail(u), Len(Tail(u)))
          BY <1>2, WalkedStep
        <4>2. Walked(nx, Z, nx[x], Tail(s)) /\ y = Place(nx[x], Tail(s), Len(Tail(s)))
          BY <3>1, <4>1, Zenon
        <4> QED BY <4>2, Zenon
      <3>2. ASSUME NEW t, Walked(nx, Z, nx[x], t), y = Place(nx[x], t, Len(t))
            PROVE  y \in Ends(x)
        <4>1. /\ Walked(nx, Z, x, <<nx[x]>> \o t)
              /\ y = Place(x, <<nx[x]>> \o t, Len(<<nx[x]>> \o t))
          BY <1>2, <3>2, WalkedStep
        <4> QED BY <4>1
      <3> QED BY <3>1, <3>2
    <2>3. Ends(x) = Ends(nx[x])
      BY <2>2
    <2> HIDE DEF Ends
    <2> QED BY <2>1, <2>3
  <1> HIDE DEF e
  <1>3. f = [x \in Places |-> IF nx[x] \in Z THEN x ELSE f[nx[x]]]
    BY <1>1, <1>2
  <1> QED BY <1>3

(* and it ends at the first place whose pointer is in Z.                   *)
Follows(f, nx, Z) == \A y \in Places : f[y] = IF nx[y] \in Z THEN y ELSE f[nx[y]]
StopsAt(nx, Z, x, s, n) ==
  /\ n \in 0 .. Len(s) /\ nx[Place(x, s, n)] \in Z
  /\ \A i \in 0 .. n - 1 : nx[Place(x, s, i)] \notin Z

LEMMA StopIs ==
  ASSUME NEW nx \in Pointers, NEW Z, NEW x \in Places, NEW s, Linked(nx, x, s),
         NEW n, StopsAt(nx, Z, x, s, n), NEW f, Follows(f, nx, Z)
  PROVE  f[x] = Place(x, s, n)
  <1> DEFINE M == {k \in 0 .. n : f[Place(x, s, n - k)] # Place(x, s, n)}
  <1>1. s \in Seq(Nodes) /\ Len(s) \in Nat /\ n \in 0 .. Len(s)
    BY LenProperties DEF Linked, StopsAt
  <1>2. M = {}
    <2> SUFFICES ASSUME M # {} PROVE FALSE
      OBVIOUS
    <2>1. M \in SUBSET Nat
      BY <1>1
    <2>2. PICK k \in M : \A j \in M : k <= j
      BY <2>1, LeastNat
    <2>3. n - k \in 0 .. Len(s)
      BY <1>1, <2>2
    <2>4. Place(x, s, n - k) \in Places /\ Place(x, s, n) \in Places
      BY <1>1, <2>3, PlaceType
    <2>5. k # 0
      <3>1. k = 0 => n - k = n
        BY <1>1
      <3>2. f[Place(x, s, n)] = Place(x, s, n)
        BY <2>4 DEF Follows, StopsAt
      <3> QED BY <2>2, <3>1, <3>2
    <2>6. /\ n - k \in 0 .. n - 1 /\ n - k < Len(s) /\ (n - k) + 1 = n - (k - 1)
          /\ k - 1 \in 0 .. n /\ ~(k <= k - 1) /\ n - (k - 1) # 0
      BY <1>1, <2>2, <2>5
    <2>7. f[Place(x, s, n - (k - 1))] = Place(x, s, n)
      BY <2>2, <2>6
    <2>8. nx[Place(x, s, n - k)] = Place(x, s, n - (k - 1))
      <3>1. nx[Place(x, s, n - k)] = s[(n - k) + 1]
        BY <2>3, <2>6 DEF Linked
      <3> QED BY <2>6, <3>1 DEF Place
    <2>9. nx[Place(x, s, n - k)] \notin Z
      BY <2>6 DEF StopsAt
    <2>10. f[Place(x, s, n - k)] = f[nx[Place(x, s, n - k)]]
      BY <2>4, <2>9 DEF Follows
    <2> QED BY <2>2, <2>7, <2>8, <2>10
  <1>3. n \in 0 .. n /\ n - n = 0
    BY <1>1
  <1>4. f[Place(x, s, 0)] = Place(x, s, n)
    BY <1>2, <1>3
  <1> QED BY <1>4 DEF Place

(* Where list_add ends, *)
LEMMA ChainEndIs ==
  ASSUME NEW nx \in Pointers, Null \notin Nodes, NEW x \in Places, NEW s, Linked(nx, x, s)
  PROVE  ChainEnd(nx, x) = Place(x, s, Len(s))
  <1> DEFINE Turn(f) == [y \in Places |-> IF nx[y] = Null THEN y ELSE f[nx[y]]]
             end == CHOOSE f : f = Turn(f)
             Z == {Null}
  <1>1. DOMAIN nx = Places
    BY DEF Pointers
  <1>2. ChainEnd(nx, x) = end[x]
    BY <1>1, Zenon DEF ChainEnd
  <1>3. \E f : f = Turn(f)
    <2>1. Null \in Z
      OBVIOUS
    <2> HIDE DEF Z
    <2>2. PICK f : f = [y \in Places |-> IF nx[y] \in Z THEN y ELSE f[nx[y]]]
      BY <2>1, StopExists
    <2>3. f = Turn(f)
      BY <2>2 DEF Z
    <2> QED BY <2>3
  <1>4. end = Turn(end)
    BY <1>3
  <1> HIDE DEF end
  <1>5. Follows(end, nx, Z)
    BY <1>4 DEF Follows
  <1>6. s \in Seq(Nodes) /\ Len(s) \in Nat /\ \A i \in 1 .. Len(s) : s[i] \in Nodes
    BY LenProperties DEF Linked
  <1>7. Len(s) \in 0 .. Len(s) /\ nx[Place(x, s, Len(s))] \in Z
    BY <1>6 DEF Linked
  <1>8. \A i \in 0 .. Len(s) - 1 : nx[Place(x, s, i)] \notin Z
    BY <1>6 DEF Linked
  <1> HIDE DEF Z
  <1>9. StopsAt(nx, Z, x, s, Len(s))
    BY <1>7, <1>8 DEF StopsAt
  <1>10. end[x] = Place(x, s, Len(s))
    BY <1>5, <1>9, StopIs
  <1> QED BY <1>2, <1>10

(* and where list_delete does.                                             *)
LEMMA BeforeIs ==
  ASSUME NEW nx \in Pointers, NEW data, NEW x \in Places, NEW s, Linked(nx, x, s),
         NEW n, NEW Z, Z = {Null, data}, StopsAt(nx, Z, x, s, n)
  PROVE  Before(nx, x, data) = Place(x, s, n)
  <1> DEFINE Turn(f) == [y \in Places |-> IF nx[y] \in {Null, data} THEN y ELSE f[nx[y]]]
             at == CHOOSE f : f = Turn(f)
  <1>1. DOMAIN nx = Places
    BY DEF Pointers
  <1>2. Before(nx, x, data) = at[x]
    BY <1>1, Zenon DEF Before
  <1>3. \E f : f = Turn(f)
    <2>1. Null \in Z
      OBVIOUS
    <2>2. PICK f : f = [y \in Places |-> IF nx[y] \in Z THEN y ELSE f[nx[y]]]
      BY <2>1, StopExists
    <2>3. f = Turn(f)
      BY <2>2
    <2> QED BY <2>3
  <1>4. at = Turn(at)
    BY <1>3
  <1> HIDE DEF at
  <1>5. Follows(at, nx, Z)
    BY <1>4 DEF Follows
  <1> HIDE DEF Turn
  <1>6. at[x] = Place(x, s, n)
    BY <1>5, StopIs
  <1> QED BY <1>2, <1>6

(* list_delete finds a PCB of the chain, and NULL behind the last one if   *)
(* the PCB is not there.                                                   *)
LEMMA BeforeFinds ==
  ASSUME NEW nx \in Pointers, Null \notin Nodes, NEW x \in Places,
         NEW s, Linked(nx, x, s), NoRepeats(s), NEW data \in Nodes
  PROVE  /\ \A n \in 1 .. Len(s) : s[n] = data => Before(nx, x, data) = Place(x, s, n - 1)
         /\ data \notin ToSet(s) => Before(nx, x, data) = Place(x, s, Len(s))
  <1>1. /\ s \in Seq(Nodes) /\ Len(s) \in Nat
        /\ \A i \in 1 .. Len(s) : s[i] \in Nodes /\ s[i] # Null
    BY LenProperties DEF Linked
  <1>2. \A i \in 0 .. Len(s) - 1 :
          i + 1 \in 1 .. Len(s) /\ nx[Place(x, s, i)] = s[i + 1] /\ s[i + 1] # Null
    BY <1>1 DEF Linked
  <1>3. nx[Place(x, s, Len(s))] = Null
    BY <1>1 DEF Linked
  <1>4. ASSUME NEW n \in 1 .. Len(s), s[n] = data
        PROVE  Before(nx, x, data) = Place(x, s, n - 1)
    <2>1. n - 1 \in 0 .. Len(s) /\ n - 1 \in 0 .. Len(s) - 1 /\ (n - 1) + 1 = n
      BY <1>1
    <2>2. nx[Place(x, s, n - 1)] \in {Null, data}
      BY <1>2, <1>4, <2>1
    <2>3. \A i \in 0 .. (n - 1) - 1 : nx[Place(x, s, i)] \notin {Null, data}
      <3> TAKE i \in 0 .. (n - 1) - 1
      <3>1. i \in 0 .. Len(s) - 1 /\ i + 1 # n /\ i + 1 \in 1 .. Len(s)
        BY <1>1
      <3>2. s[i + 1] # data
        BY <1>1, <1>4, <3>1 DEF NoRepeats, IsInjective
      <3> QED BY <1>2, <3>1, <3>2
    <2> DEFINE Z == {Null, data}
    <2>4. Z = {Null, data} /\ StopsAt(nx, Z, x, s, n - 1)
      BY <2>1, <2>2, <2>3 DEF StopsAt
    <2> HIDE DEF Z
    <2> QED BY <2>4, BeforeIs
  <1>5. ASSUME data \notin ToSet(s)
        PROVE  Before(nx, x, data) = Place(x, s, Len(s))
    <2>1. Len(s) \in 0 .. Len(s) /\ nx[Place(x, s, Len(s))] \in {Null, data}
      BY <1>1, <1>3
    <2>2. DOMAIN s = 1 .. Len(s)
      BY <1>1, LenProperties
    <2>3. \A i \in 0 .. Len(s) - 1 : nx[Place(x, s, i)] \notin {Null, data}
      BY <1>2, <1>5, <2>2 DEF ToSet
    <2> DEFINE Z == {Null, data}
    <2>4. Z = {Null, data} /\ StopsAt(nx, Z, x, s, Len(s))
      BY <2>1, <2>3 DEF StopsAt
    <2> HIDE DEF Z
    <2> QED BY <2>4, BeforeIs
  <1> QED BY <1>4, <1>5

-----------------------------------------------------------------------------
(***************************************************************************)
(* What the list operations do to the chains.                              *)
(***************************************************************************)

(* A chain is as it was if no place on it is written.                      *)
LEMMA LinkedFrame ==
  ASSUME NEW nx, NEW x, NEW s, Linked(nx, x, s), NEW ny, ny[x] = nx[x],
         \A y \in ToSet(s) : ny[y] = nx[y]
  PROVE  Linked(ny, x, s)
  <1>1. s \in Seq(Nodes) /\ Len(s) \in Nat /\ DOMAIN s = 1 .. Len(s)
    BY LenProperties DEF Linked
  <1>2. \A i \in 0 .. Len(s) : ny[Place(x, s, i)] = nx[Place(x, s, i)]
    <2> TAKE i \in 0 .. Len(s)
    <2>1. i = 0 \/ i \in 1 .. Len(s)
      BY <1>1
    <2> QED BY <1>1, <2>1 DEF Place, ToSet
  <1> QED BY <1>2 DEF Linked

(* list_add of a PCB that is on no chain: the chain grows at its end, *)
LEMMA AddedChain ==
  ASSUME NEW nx \in Pointers, LinksAssumption, NEW h \in Heads, NEW s, Linked(nx, h, s),
         NoRepeats(s), NEW data \in Nodes, data \notin ToSet(s)
  PROVE  /\ Added(nx, h, data) \in Pointers
         /\ Linked(Added(nx, h, data), h, list_add(s, data))
         /\ \A g \in Heads \ {h} : \A t : Linked(nx, g, t) /\ data \notin ToSet(t)
              /\ ToSet(s) \cap ToSet(t) = {} => Linked(Added(nx, h, data), g, t)
  <1> DEFINE e == Place(h, s, Len(s))
             ny == Added(nx, h, data)
  <1>1. /\ s \in Seq(Nodes) /\ Len(s) \in Nat /\ DOMAIN s = 1 .. Len(s)
        /\ \A i \in 1 .. Len(s) : s[i] \in Nodes
        /\ h \in Places /\ data \in Places /\ Null \notin Nodes /\ data \notin Heads
        /\ \A g \in Heads : g \notin Nodes
    BY LenProperties DEF Linked, LinksAssumption, Places
  <1>2. e \in Places /\ e # data
    BY <1>1, PlaceType DEF Place
  <1>3. ny = [nx EXCEPT ![data] = Null, ![e] = data]
    BY <1>1, ChainEndIs DEF Added
  <1> HIDE DEF ny
  <1>4. /\ ny \in Pointers
        /\ ny[data] = Null /\ ny[e] = data
        /\ \A y \in Places : y # data /\ y # e => ny[y] = nx[y]
    BY <1>1, <1>2, <1>3 DEF Pointers
  <1>5. Linked(ny, h, list_add(s, data))
    <2> DEFINE t == list_add(s, data)
    <2>1. /\ t \in Seq(Nodes) /\ Len(t) = Len(s) + 1
          /\ \A i \in 1 .. Len(s) : t[i] = s[i]
          /\ t[Len(s) + 1] = data
      BY <1>1, AppendProperties DEF list_add
    <2> HIDE DEF t
    <2>2. \A i \in 0 .. Len(s) : Place(h, t, i) = Place(h, s, i)
      <3> TAKE i \in 0 .. Len(s)
      <3>1. i = 0 \/ i \in 1 .. Len(s)
        BY <1>1
      <3> QED BY <2>1, <3>1 DEF Place
    <2>3. ASSUME NEW i \in 0 .. Len(t)
          PROVE  ny[Place(h, t, i)] = IF i < Len(t) THEN t[i + 1] ELSE Null
      <3>1. CASE i = Len(t)
        BY <1>1, <1>4, <2>1, <3>1 DEF Place
      <3>2. CASE i = Len(s)
        <4>1. Place(h, t, i) = e /\ i < Len(t) /\ i + 1 = Len(s) + 1
          BY <1>1, <2>1, <2>2, <3>2
        <4> QED BY <1>4, <2>1, <4>1
      <3>3. CASE i \in 0 .. Len(s) - 1
        <4>1. i \in 0 .. Len(s) /\ i < Len(s) /\ i < Len(t) /\ i + 1 \in 1 .. Len(s)
          BY <1>1, <2>1, <3>3
        <4>2. nx[Place(h, s, i)] = s[i + 1]
          BY <4>1 DEF Linked
        <4>3. Place(h, s, i) \in Places /\ Place(h, s, i) # data
          BY <1>1, <4>1, PlaceType, SMTT(60) DEF Place
        <4>4. Place(h, s, i) # e
          <5>1. i = 0 \/ i \in 1 .. Len(s)
            BY <1>1, <4>1
          <5>2. Len(s) \in 1 .. Len(s) /\ i # Len(s)
            <6>1. Len(s) \in Nat
              BY <1>1, SMTT(60)
            <6> QED BY <3>3, <6>1
          <5>3. s[Len(s)] \in Nodes /\ h \notin Nodes
            BY <1>1, <5>2, ZenonT(60)
          <5>4. i \in 1 .. Len(s) => s[i] # s[Len(s)]
            BY <1>1, <5>2 DEF NoRepeats, IsInjective
          <5> QED BY <1>1, <5>1, <5>2, <5>3, <5>4 DEF Place
        <4>5. Place(h, t, i) = Place(h, s, i) /\ t[i + 1] = s[i + 1]
          BY <2>1, <2>2, <4>1
        <4>6. ny[Place(h, s, i)] = nx[Place(h, s, i)]
          BY <1>4, <4>3, <4>4
        <4>7. ny[Place(h, t, i)] = t[i + 1]
          BY <4>2, <4>5, <4>6
        <4> QED BY <4>1, <4>7
      <3>4. i = Len(t) \/ i = Len(s) \/ i \in 0 .. Len(s) - 1
        <4>1. Len(s) \in Nat
          BY <1>1
        <4> QED BY <2>1, <4>1
      <3> QED BY <3>1, <3>2, <3>3, <3>4, Zenon
    <2>4. Linked(ny, h, t)
      BY <2>1, <2>3 DEF Linked
    <2> QED BY <2>4 DEF t
  <1>6. ASSUME NEW g \in Heads \ {h}, NEW t, Linked(nx, g, t), data \notin ToSet(t),
               ToSet(s) \cap ToSet(t) = {}
        PROVE  Linked(ny, g, t)
    <2>1. \A y \in ToSet(t) : y \in Nodes /\ y \in Places
      BY <1>6, LenProperties DEF Linked, ToSet, Places
    <2>2. g \in Places /\ g # data /\ g # e /\ h \notin ToSet(t)
      <3>1. e = h \/ e \in Nodes
        BY <1>1, PlaceType DEF Place
      <3> QED BY <1>1, <2>1, <3>1 DEF Places
    <2>3. e \notin ToSet(t)
      <3>1. e = h \/ e \in ToSet(s)
        <4>1. Len(s) \in 0 .. Len(s) /\ (Len(s) > 0 \/ Len(s) = 0)
          BY <1>1
        <4> QED BY <1>1, <4>1, PlaceType DEF Place
      <3> QED BY <1>6, <2>2, <3>1
    <2>4. ny[g] = nx[g] /\ \A y \in ToSet(t) : ny[y] = nx[y]
      BY <1>4, <1>6, <2>1, <2>2, <2>3
    <2> HIDE DEF e
    <2> QED BY <1>6, <2>4, LinkedFrame
  <1> QED BY <1>4, <1>5, <1>6 DEF ny

(* list_delete of a PCB that is on a chain: its chain closes behind it.    *)
LEMMA DeletedChain ==
  ASSUME NEW nx \in Pointers, LinksAssumption, NEW h \in Heads, NEW s, Linked(nx, h, s),
         NoRepeats(s), NEW data \in ToSet(s)
  PROVE  /\ nx[Before(nx, h, data)] # Null
         /\ Deleted(nx, h, data) \in Pointers
         /\ Linked(Deleted(nx, h, data), h, list_delete(s, data))
         /\ \A g \in Heads \ {h} : \A t : Linked(nx, g, t) /\ ToSet(s) \cap ToSet(t) = {}
              => Linked(Deleted(nx, h, data), g, t)
  <1> DEFINE ny == Deleted(nx, h, data)
             t == list_delete(s, data)
  <1>1. /\ s \in Seq(Nodes) /\ Len(s) \in Nat /\ DOMAIN s = 1 .. Len(s)
        /\ \A i \in 1 .. Len(s) : s[i] \in Nodes
        /\ h \in Places /\ Null \notin Nodes
        /\ \A g \in Heads : g \notin Nodes
    BY LenProperties DEF Linked, LinksAssumption, Places
  <1>2. PICK n \in 1 .. Len(s) : s[n] = data
    BY <1>1 DEF ToSet
  <1>3. /\ n - 1 \in 0 .. Len(s) /\ n - 1 < Len(s) /\ (n - 1) + 1 = n
        /\ n \in 0 .. Len(s) /\ data \in Nodes
    BY <1>1, <1>2
  <1> DEFINE b == Place(h, s, n - 1)
  <1>4. b \in Places /\ (b = h \/ b \in ToSet(s)) /\ nx[b] = data
    <2>1. nx[b] = data
      BY <1>2, <1>3 DEF Linked
    <2>2. n - 1 = 0 \/ n - 1 > 0
      BY <1>3
    <2> QED BY <1>1, <1>3, <2>1, <2>2, PlaceType DEF Place
  <1>5. Before(nx, h, data) = b
    BY <1>1, <1>2, <1>3, BeforeFinds
  <1>6. nx[data] = IF n < Len(s) THEN s[n + 1] ELSE Null
    <2>1. Place(h, s, n) = data
      BY <1>1, <1>2 DEF Place
    <2> QED BY <1>3, <2>1 DEF Linked
  <1>7. ny = [nx EXCEPT ![b] = nx[data]]
    BY <1>5 DEF Deleted
  <1> HIDE DEF ny
  <1>8. /\ ny \in Pointers
        /\ ny[b] = nx[data]
        /\ \A y \in Places : y # b => ny[y] = nx[y]
    BY <1>3, <1>4, <1>7, SMTT(60) DEF Pointers, Places
  <1>9. /\ t \in Seq(Nodes) /\ Len(t) = Len(s) - 1
        /\ \A j \in 1 .. Len(s) - 1 : t[j] = IF j < n THEN s[j] ELSE s[j + 1]
    BY <1>1, <1>2, DeleteMembers
  <1> HIDE DEF t
  <1>10. \A i \in 0 .. Len(s) : Place(h, s, i) = b => i = n - 1
    <2> TAKE i \in 0 .. Len(s)
    <2>1. Len(s) \in Nat
      BY <1>1
    <2>2. (i = 0 \/ i \in 1 .. Len(s)) /\ (n - 1 = 0 \/ n - 1 \in 1 .. Len(s))
      BY <1>2, <2>1
    <2>3. \A k, j \in 1 .. Len(s) : s[k] = s[j] => k = j
      BY <1>1 DEF NoRepeats, IsInjective
    <2> QED BY <1>1, <2>2, <2>3 DEF Place
  <1>11. /\ \A i \in 0 .. n - 1 : Place(h, t, i) = Place(h, s, i)
         /\ \A i \in n .. Len(t) : Place(h, t, i) = Place(h, s, i + 1)
    <2>1. Len(s) \in Nat /\ n \in 1 .. Len(s)
      BY <1>1
    <2>2. ASSUME NEW i \in 0 .. n - 1
          PROVE  Place(h, t, i) = Place(h, s, i)
      <3>1. i = 0 \/ (i \in 1 .. Len(s) - 1 /\ i < n)
        BY <2>1
      <3> QED BY <1>9, <3>1 DEF Place
    <2>3. ASSUME NEW i \in n .. Len(t)
          PROVE  Place(h, t, i) = Place(h, s, i + 1)
      <3>1. i # 0 /\ i + 1 # 0 /\ i \in 1 .. Len(s) - 1 /\ ~(i < n)
        BY <1>9, <2>1
      <3> QED BY <1>9, <3>1 DEF Place
    <2> QED BY <2>2, <2>3
  <1>12. ASSUME NEW i \in 0 .. Len(t)
         PROVE  ny[Place(h, t, i)] = IF i < Len(t) THEN t[i + 1] ELSE Null
    <2>1. Len(s) \in Nat /\ n \in 1 .. Len(s) /\ Len(t) = Len(s) - 1 /\ i \in 0 .. Len(s) - 1
      BY <1>1, <1>9
    <2>2. CASE i = n - 1
      <3>1. ny[Place(h, t, i)] = nx[data]
        <4>1. Place(h, t, i) = b
          BY <1>3, <1>11, <2>1, <2>2
        <4> QED BY <1>8, <4>1
      <3>2. CASE n < Len(s)
        <4>1. i < Len(t) /\ i + 1 \in 1 .. Len(s) - 1 /\ ~(i + 1 < n) /\ (i + 1) + 1 = n + 1
          BY <2>1, <2>2, <3>2
        <4>2. t[i + 1] = s[n + 1]
          BY <1>9, <4>1
        <4> QED BY <1>6, <3>1, <3>2, <4>1, <4>2
      <3>3. CASE ~(n < Len(s))
        <4>1. ~(i < Len(t))
          BY <2>1, <2>2, <3>3
        <4> QED BY <1>6, <3>1, <3>3, <4>1
      <3> QED BY <3>2, <3>3
    <2>3. CASE i < n - 1
      <3>1. /\ i \in 0 .. n - 1 /\ i \in 0 .. Len(s) /\ i < Len(s) /\ i < Len(t)
            /\ i + 1 \in 1 .. Len(s) - 1 /\ i + 1 < n /\ i # n - 1
        BY <2>1, <2>3
      <3>2. Place(h, t, i) = Place(h, s, i) /\ Place(h, s, i) \in Places /\ Place(h, s, i) # b
        BY <1>1, <1>10, <1>11, <3>1, PlaceType
      <3>3. nx[Place(h, s, i)] = s[i + 1] /\ t[i + 1] = s[i + 1]
        BY <1>9, <3>1 DEF Linked
      <3>4. ny[Place(h, t, i)] = t[i + 1]
        BY <1>8, <3>2, <3>3
      <3> QED BY <3>1, <3>4
    <2>4. CASE i > n - 1
      <3>1. /\ i \in n .. Len(t) /\ i + 1 \in 0 .. Len(s) /\ i + 1 # n - 1
            /\ (i < Len(t) <=> i + 1 < Len(s))
            /\ (i < Len(t) => i + 1 \in 1 .. Len(s) - 1 /\ ~(i + 1 < n))
        BY <2>1, <2>4
      <3>2. Place(h, t, i) = Place(h, s, i + 1) /\ Place(h, s, i + 1) \in Places
        BY <1>1, <1>11, <3>1, PlaceType
      <3>3. Place(h, s, i + 1) # b
        BY <1>10, <3>1
      <3>4. ny[Place(h, t, i)] = nx[Place(h, s, i + 1)]
        BY <1>8, <3>2, <3>3
      <3>5. nx[Place(h, s, i + 1)] = IF i + 1 < Len(s) THEN s[(i + 1) + 1] ELSE Null
        BY <3>1 DEF Linked
      <3>6. i < Len(t) => t[i + 1] = s[(i + 1) + 1]
        BY <1>9, <3>1
      <3> QED BY <3>1, <3>4, <3>5, <3>6
    <2>5. i = n - 1 \/ i < n - 1 \/ i > n - 1
      BY <2>1
    <2> QED BY <2>2, <2>3, <2>4, <2>5, Zenon
  <1>13. ASSUME NEW g \in Heads \ {h}, NEW u, Linked(nx, g, u), ToSet(s) \cap ToSet(u) = {}
         PROVE  Linked(ny, g, u)
    <2>1. \A y \in ToSet(u) : y \in Nodes /\ y \in Places
      BY <1>13, LenProperties DEF Linked, ToSet, Places
    <2>2. \A y \in ToSet(s) : y \in Nodes
      BY <1>1 DEF ToSet
    <2>3. g \in Places /\ g # b /\ b \notin ToSet(u)
      BY <1>1, <1>4, <1>13, <2>1, <2>2 DEF Places
    <2>4. ny[g] = nx[g] /\ \A y \in ToSet(u) : ny[y] = nx[y]
      BY <1>8, <2>1, <2>3
    <2> QED BY <1>13, <2>4, LinkedFrame
  <1>14. Linked(ny, h, t)
    BY <1>9, <1>12 DEF Linked
  <1>15. nx[Before(nx, h, data)] # Null
    BY <1>1, <1>3, <1>4, <1>5
  <1> HIDE DEF b
  <1> QED BY <1>8, <1>13, <1>14, <1>15 DEF ny, t

-----------------------------------------------------------------------------
(***************************************************************************)
(* The pointers nx hold the lists L: the chain of every head is its list,  *)
(* and no PCB is on two lists or twice on one.                             *)
(***************************************************************************)
Holds(nx, L) ==
  /\ nx \in Pointers /\ L \in [Heads -> Seq(Nodes)]
  /\ \A h \in Heads : Linked(nx, h, L[h]) /\ NoRepeats(L[h])
  /\ \A g, h \in Heads : g # h => ToSet(L[g]) \cap ToSet(L[h]) = {}

(* They do after `next = NULL' in every head, *)
LEMMA HoldsInit ==
  ASSUME LinksAssumption
  PROVE  Holds([x \in Nodes \cup Heads |-> Null], [h \in Heads |-> << >>])
  <1>1. << >> \in Seq(Nodes) /\ Len(<< >>) = 0 /\ NoRepeats(<< >>) /\ ToSet(<< >>) = {}
    BY ListsEmpty, EmptySeq DEF Lists
  <1>2. \A h \in Heads : Linked([x \in Nodes \cup Heads |-> Null], h, << >>)
    BY <1>1 DEF Linked, Place
  <1> QED BY <1>1, <1>2 DEF Holds, Pointers, Places

(* after list_add of a PCB that is on no list, *)
LEMMA HoldsAdd ==
  ASSUME LinksAssumption, NEW nx, NEW L, Holds(nx, L), NEW h \in Heads, NEW data \in Nodes,
         \A g \in Heads : data \notin ToSet(L[g])
  PROVE  Holds(Added(nx, h, data), [L EXCEPT ![h] = list_add(@, data)])
  <1> DEFINE M == [L EXCEPT ![h] = list_add(@, data)]
             ny == Added(nx, h, data)
  <1>1. /\ nx \in Pointers /\ Linked(nx, h, L[h]) /\ NoRepeats(L[h])
        /\ \A g \in Heads : L[g] \in Seq(Nodes)
    BY DEF Holds
  <1>2. /\ ny \in Pointers
        /\ Linked(ny, h, list_add(L[h], data))
        /\ \A g \in Heads \ {h} : \A t : Linked(nx, g, t) /\ data \notin ToSet(t)
             /\ ToSet(L[h]) \cap ToSet(t) = {} => Linked(ny, g, t)
    BY <1>1, AddedChain
  <1>3. /\ M[h] = list_add(L[h], data) /\ \A g \in Heads \ {h} : M[g] = L[g]
        /\ M \in [Heads -> Seq(Nodes)]
    BY <1>1, AddProperties DEF Holds
  <1>4. NoRepeats(M[h]) /\ ToSet(M[h]) = ToSet(L[h]) \cup {data}
    BY <1>1, <1>3, AddProperties
  <1> HIDE DEF M, ny
  <1>5. \A g \in Heads : Linked(ny, g, M[g]) /\ NoRepeats(M[g])
    <2> TAKE g \in Heads
    <2>1. CASE g = h
      BY <1>2, <1>3, <1>4, <2>1
    <2>2. CASE g # h
      BY <1>2, <1>3, <2>2 DEF Holds
    <2> QED BY <2>1, <2>2
  <1>6. \A f, g \in Heads : f # g => ToSet(M[f]) \cap ToSet(M[g]) = {}
    <2> TAKE f, g \in Heads
    <2> HAVE f # g
    <2>1. ToSet(L[f]) \cap ToSet(L[g]) = {}
      BY DEF Holds
    <2>2. f # h => M[f] = L[f]
      BY <1>3
    <2>3. g # h => M[g] = L[g]
      BY <1>3
    <2> QED BY <1>4, <2>1, <2>2, <2>3
  <1>7. Holds(ny, M)
    BY <1>2, <1>3, <1>5, <1>6 DEF Holds
  <1> QED BY <1>7 DEF ny, M

(* after list_delete of a PCB that is on the list, *)
LEMMA HoldsDelete ==
  ASSUME LinksAssumption, NEW nx, NEW L, Holds(nx, L), NEW h \in Heads,
         NEW data \in ToSet(L[h])
  PROVE  /\ nx[Before(nx, h, data)] # Null
         /\ Holds(Deleted(nx, h, data), [L EXCEPT ![h] = list_delete(@, data)])
  <1> DEFINE M == [L EXCEPT ![h] = list_delete(@, data)]
             ny == Deleted(nx, h, data)
  <1>1. /\ nx \in Pointers /\ Linked(nx, h, L[h]) /\ NoRepeats(L[h])
        /\ \A g \in Heads : L[g] \in Seq(Nodes)
    BY DEF Holds
  <1>2. /\ nx[Before(nx, h, data)] # Null
        /\ ny \in Pointers
        /\ Linked(ny, h, list_delete(L[h], data))
        /\ \A g \in Heads \ {h} : \A t : Linked(nx, g, t)
             /\ ToSet(L[h]) \cap ToSet(t) = {} => Linked(ny, g, t)
    BY <1>1, DeletedChain
  <1>3. Lists(Nodes, list_delete(L[h], data), ToSet(L[h]) \ {data})
    BY <1>1, ListsDelete DEF Lists
  <1>4. /\ M[h] = list_delete(L[h], data) /\ \A g \in Heads \ {h} : M[g] = L[g]
        /\ M \in [Heads -> Seq(Nodes)]
    BY <1>1, <1>3 DEF Holds, Lists
  <1>5. NoRepeats(M[h]) /\ ToSet(M[h]) \subseteq ToSet(L[h])
    BY <1>3, <1>4 DEF Lists
  <1> HIDE DEF M, ny
  <1>6. \A g \in Heads : Linked(ny, g, M[g]) /\ NoRepeats(M[g])
    <2> TAKE g \in Heads
    <2>1. CASE g = h
      BY <1>2, <1>4, <1>5, <2>1
    <2>2. CASE g # h
      BY <1>2, <1>4, <2>2 DEF Holds
    <2> QED BY <2>1, <2>2
  <1>7. \A f, g \in Heads : f # g => ToSet(M[f]) \cap ToSet(M[g]) = {}
    <2> TAKE f, g \in Heads
    <2> HAVE f # g
    <2>1. ToSet(L[f]) \cap ToSet(L[g]) = {}
      BY DEF Holds
    <2>2. f # h => M[f] = L[f]
      BY <1>4
    <2>3. g # h => M[g] = L[g]
      BY <1>4
    <2> QED BY <1>5, <2>1, <2>2, <2>3
  <1>8. Holds(ny, M)
    BY <1>2, <1>4, <1>6, <1>7 DEF Holds
  <1> QED BY <1>2, <1>8 DEF ny, M

(* and after `next = NULL' in one head.                                    *)
LEMMA HoldsReset ==
  ASSUME LinksAssumption, NEW nx, NEW L, Holds(nx, L), NEW h \in Heads
  PROVE  Holds([nx EXCEPT ![h] = Null], [L EXCEPT ![h] = << >>])
  <1> DEFINE M == [L EXCEPT ![h] = << >>]
             ny == [nx EXCEPT ![h] = Null]
  <1>1. /\ nx \in Pointers /\ L \in [Heads -> Seq(Nodes)] /\ h \in Places
        /\ << >> \in Seq(Nodes) /\ Len(<< >>) = 0 /\ NoRepeats(<< >>) /\ ToSet(<< >>) = {}
    BY ListsEmpty, EmptySeq DEF Lists, Holds, Places
  <1>2. /\ M[h] = << >> /\ \A g \in Heads \ {h} : M[g] = L[g]
        /\ M \in [Heads -> Seq(Nodes)]
        /\ ny \in Pointers /\ ny[h] = Null /\ \A y \in Places \ {h} : ny[y] = nx[y]
    BY <1>1 DEF Pointers
  <1> HIDE DEF M, ny
  <1>3. \A g \in Heads : Linked(ny, g, M[g]) /\ NoRepeats(M[g])
    <2> TAKE g \in Heads
    <2>1. CASE g = h
      BY <1>1, <1>2, <2>1 DEF Linked, Place
    <2>2. CASE g # h
      <3>1. Linked(nx, g, L[g]) /\ NoRepeats(L[g]) /\ M[g] = L[g] /\ g \in Places
        BY <1>2, <2>2 DEF Holds, Places
      <3>2. \A y \in ToSet(L[g]) : y \in Places \ {h}
        BY <3>1, LenProperties DEF Linked, ToSet, Places, LinksAssumption
      <3>3. ny[g] = nx[g] /\ \A y \in ToSet(L[g]) : ny[y] = nx[y]
        BY <1>2, <2>2, <3>1, <3>2
      <3> QED BY <3>1, <3>3, LinkedFrame
    <2> QED BY <2>1, <2>2
  <1>4. \A f, g \in Heads : f # g => ToSet(M[f]) \cap ToSet(M[g]) = {}
    <2> TAKE f, g \in Heads
    <2> HAVE f # g
    <2>1. ToSet(L[f]) \cap ToSet(L[g]) = {}
      BY DEF Holds
    <2>2. f # h => M[f] = L[f]
      BY <1>2
    <2>3. g # h => M[g] = L[g]
      BY <1>2
    <2> QED BY <1>1, <1>2, <2>1, <2>2, <2>3
  <1>5. Holds(ny, M)
    BY <1>2, <1>3, <1>4 DEF Holds
  <1> QED BY <1>5 DEF ny, M

(* list_delete of a PCB that is not on the list stops at NULL.             *)
LEMMA HoldsMissing ==
  ASSUME LinksAssumption, NEW nx, NEW L, Holds(nx, L), NEW h \in Heads,
         NEW data \in Nodes \ ToSet(L[h])
  PROVE  nx[Before(nx, h, data)] = Null
  <1>1. /\ nx \in Pointers /\ Linked(nx, h, L[h]) /\ NoRepeats(L[h]) /\ L[h] \in Seq(Nodes)
        /\ h \in Places /\ Null \notin Nodes /\ Len(L[h]) \in Nat
    BY LenProperties DEF Holds, LinksAssumption, Places
  <1>2. Before(nx, h, data) = Place(h, L[h], Len(L[h]))
    BY <1>1, BeforeFinds
  <1>3. Len(L[h]) \in 0 .. Len(L[h]) /\ ~(Len(L[h]) < Len(L[h]))
    BY <1>1
  <1> QED BY <1>1, <1>2, <1>3 DEF Linked

(* list_head looks at the first PCB of the list.                           *)
LEMMA HoldsHead ==
  ASSUME LinksAssumption, NEW nx, NEW L, Holds(nx, L), NEW h \in Heads
  PROVE  nx[h] = IF L[h] = << >> THEN Null ELSE list_head(L[h])
  <1> DEFINE s == L[h]
  <1>1. /\ Linked(nx, h, s) /\ s \in Seq(Nodes) /\ Len(s) \in Nat
        /\ (s = << >> => Len(s) = 0) /\ (s # << >> => Len(s) > 0)
    BY EmptySeq, LenProperties DEF Holds
  <1> HIDE DEF s
  <1>2. nx[h] = IF 0 < Len(s) THEN s[1] ELSE Null
    <2>1. 0 \in 0 .. Len(s) /\ 0 + 1 = 1
      BY <1>1
    <2> QED BY <1>1, <2>1 DEF Linked, Place
  <1>3. CASE s = << >>
    BY <1>1, <1>2, <1>3 DEF s
  <1>4. CASE s # << >>
    <2>1. list_head(s) = s[1]
      BY <1>1, <1>4, HeadTailProperties DEF list_head
    <2> QED BY <1>1, <1>2, <1>4, <2>1 DEF s
  <1> QED BY <1>3, <1>4

(***************************************************************************)
(* The lists as they are read off the pointers; what the pointers hold is  *)
(* what is read.                                                           *)
(***************************************************************************)
Chains == [h \in Heads |-> Chain(h)]

LEMMA HoldsChains ==
  \A L : Holds(next, L) => Chains = L
  <1> SUFFICES ASSUME NEW L, Holds(next, L) PROVE Chains = L
    OBVIOUS
  <1>1. ASSUME NEW h \in Heads
        PROVE  Chain(h) = L[h]
    <2>1. next \in Pointers /\ Linked(next, h, L[h]) /\ NoRepeats(L[h]) /\ h \in Places
      BY DEF Holds, Places
    <2> QED BY <2>1, LinksAssumption, LinkedChain
  <1> QED BY <1>1 DEF Holds, Chains

LEMMA HoldsChainsNext ==
  \A L : Holds(next', L) => Chains' = L
  <1>1. (\A L : Holds(next, L) => Chains = L)'
    BY HoldsChains, PTL
  <1> QED BY <1>1 DEF Holds, Linked, Pointers

-----------------------------------------------------------------------------
(***************************************************************************)
(* While try_to_wakeup walks, rest are the sleepers it has not come to:    *)
(* those it has passed stand before them on the blocked list, those it has *)
(* woken behind everybody else on the runnable list.                       *)
(***************************************************************************)
WalkInv ==
  walking =>
    /\ ~halted
    /\ visited \in Seq(Nodes) /\ before \in Seq(Nodes) \X Seq(Nodes)
    /\ \E rest \in Seq(Nodes) :
         /\ before[1] = visited \o rest
         /\ Chains["blocked_list"] = Keep(visited, Nodes \ due) \o rest
         /\ Chains["runnable_list"] = before[2] \o Keep(visited, due)
         /\ p = IF rest = << >> THEN Null ELSE Head(rest)

IInv == TypeOK /\ Holds(next, Chains) /\ WalkInv

LEMMA ChainsOf ==
  \A h \in Heads : Chain(h) = Chains[h]
  BY DEF Chains

(* The beginning: nobody is on a list. *)
LEMMA InitIInv ==
  ASSUME Init
  PROVE  IInv /\ Chains = [h \in Heads |-> << >>]
  <1>1. Holds(next, [h \in Heads |-> << >>])
    BY LinksAssumption, HoldsInit DEF Init
  <1>2. Chains = [h \in Heads |-> << >>]
    BY <1>1, HoldsChains
  <1>3. TypeOK /\ WalkInv
    BY DEF Init, TypeOK, WalkInv
  <1> QED BY <1>1, <1>2, <1>3 DEF IInv

(* The pointers are of their type wherever the chains are lists.           *)
LEMMA NextType ==
  ASSUME NEW L, NEW nx, Holds(nx, L)
  PROVE  nx \in [Nodes \cup Heads -> Nodes \cup {Null}]
  BY DEF Holds, Pointers, Places

(* list_add. *)
LEMMA AddStep ==
  ASSUME IInv, NEW h \in Heads, NEW d \in Nodes, list_addTo(h, d)
  PROVE  /\ IInv'
         /\ ~halted /\ halted' = halted /\ \A g \in Heads : d \notin ToSet(Chains[g])
         /\ Chains' = [Chains EXCEPT ![h] = list_add(@, d)]
  <1>1. Holds(next, Chains) /\ \A g \in Heads : Chains[g] \in Seq(Nodes)
    BY DEF IInv, Holds
  <1>2. \A g \in Heads : d \notin ToSet(Chains[g])
    <2> TAKE g \in Heads
    <2>1. ~OnList(Chains[g], d)
      BY ChainsOf DEF list_addTo, OnNoList
    <2> QED BY <1>1, <2>1, OnListProperties
  <1>3. Holds(next', [Chains EXCEPT ![h] = list_add(@, d)])
    BY <1>1, <1>2, LinksAssumption, HoldsAdd DEF list_addTo
  <1>4. Chains' = [Chains EXCEPT ![h] = list_add(@, d)]
    BY <1>3, HoldsChainsNext
  <1>5. next' \in [Nodes \cup Heads -> Nodes \cup {Null}]
    BY <1>3, NextType
  <1>6. Holds(next', Chains')
    BY <1>3, <1>4
  <1>7. TypeOK' /\ WalkInv' /\ ~halted /\ halted' = halted
    BY <1>5 DEF IInv, TypeOK, WalkInv, list_addTo, walkVars
  <1> QED BY <1>2, <1>4, <1>6, <1>7 DEF IInv, Holds, Linked, Pointers

(* list_delete, of a PCB that is on the list or of another. *)
LEMMA DeleteStep ==
  ASSUME IInv, NEW h \in Heads, NEW d \in Nodes, list_deleteFrom(h, d)
  PROVE  /\ IInv' /\ ~halted
         /\ IF d \in ToSet(Chains[h])
            THEN Chains' = [Chains EXCEPT ![h] = list_delete(@, d)] /\ halted' = halted
            ELSE Chains' = Chains /\ halted'
  <1>1. /\ Holds(next, Chains) /\ \A g \in Heads : Chains[g] \in Seq(Nodes)
        /\ ~halted /\ ~walking /\ UNCHANGED walkVars
    BY DEF IInv, Holds, list_deleteFrom
  <1>2. CASE d \in ToSet(Chains[h])
    <2>1. /\ next[Before(next, h, d)] # Null
          /\ Holds(Deleted(next, h, d), [Chains EXCEPT ![h] = list_delete(@, d)])
      BY <1>1, <1>2, LinksAssumption, HoldsDelete
    <2>2. next' = Deleted(next, h, d) /\ halted' = halted
      BY <2>1 DEF list_deleteFrom
    <2>3. Chains' = [Chains EXCEPT ![h] = list_delete(@, d)]
      BY <2>1, <2>2, HoldsChainsNext
    <2>4. next' \in [Nodes \cup Heads -> Nodes \cup {Null}] /\ Holds(next', Chains')
      BY <2>1, <2>2, <2>3, NextType
    <2>5. TypeOK' /\ WalkInv'
      BY <1>1, <2>2, <2>4 DEF IInv, TypeOK, WalkInv, walkVars
    <2> QED BY <1>1, <1>2, <2>2, <2>3, <2>4, <2>5 DEF IInv, Holds, Linked, Pointers
  <1>3. CASE d \notin ToSet(Chains[h])
    <2>1. next[Before(next, h, d)] = Null
      BY <1>1, <1>3, LinksAssumption, HoldsMissing
    <2>2. next' = next /\ halted' = TRUE
      BY <2>1 DEF list_deleteFrom
    <2>3. Holds(next', Chains)
      BY <1>1, <2>2
    <2>4. Chains' = Chains
      BY <2>3, HoldsChainsNext
    <2>5. next' \in [Nodes \cup Heads -> Nodes \cup {Null}] /\ Holds(next', Chains')
      BY <2>3, <2>4, NextType
    <2>6. TypeOK' /\ WalkInv'
      BY <1>1, <2>2, <2>5 DEF IInv, TypeOK, WalkInv, walkVars
    <2> QED BY <1>1, <1>3, <2>2, <2>4, <2>5, <2>6 DEF IInv, Holds, Linked, Pointers
  <1> QED BY <1>2, <1>3

(* list_head and list_delete of what it returned. *)
LEMMA TakeStep ==
  ASSUME IInv, NEW h \in Heads, TakeHead(h)
  PROVE  /\ IInv' /\ ~halted
         /\ IF Chains[h] # << >>
            THEN /\ Chains' = [Chains EXCEPT ![h] = list_delete(@, list_head(@))]
                 /\ halted' = halted
            ELSE Chains' = Chains /\ halted'
  <1>1. /\ Holds(next, Chains) /\ \A g \in Heads : Chains[g] \in Seq(Nodes)
        /\ NoRepeats(Chains[h])
        /\ ~halted /\ ~walking /\ UNCHANGED walkVars
        /\ Null \notin Nodes
    BY LinksAssumption DEF IInv, Holds, TakeHead
  <1>2. next[h] = IF Chains[h] = << >> THEN Null ELSE list_head(Chains[h])
    BY <1>1, LinksAssumption, HoldsHead
  <1>3. CASE Chains[h] # << >>
    <2> DEFINE d == list_head(Chains[h])
    <2>1. d \in ToSet(Chains[h]) /\ d \in Nodes
      BY <1>1, <1>3, HeadProperties
    <2>2. next[h] = d /\ d # Null
      BY <1>1, <1>2, <1>3, <2>1
    <2>3. next' = Deleted(next, h, d) /\ halted' = halted
      BY <2>2 DEF TakeHead
    <2>4. Holds(Deleted(next, h, d), [Chains EXCEPT ![h] = list_delete(@, d)])
      BY <1>1, <2>1, LinksAssumption, HoldsDelete
    <2>5. Chains' = [Chains EXCEPT ![h] = list_delete(@, d)]
      BY <2>3, <2>4, HoldsChainsNext
    <2>6. next' \in [Nodes \cup Heads -> Nodes \cup {Null}] /\ Holds(next', Chains')
      BY <2>3, <2>4, <2>5, NextType
    <2>7. TypeOK' /\ WalkInv'
      BY <1>1, <2>3, <2>6 DEF IInv, TypeOK, WalkInv, walkVars
    <2> QED BY <1>1, <1>3, <2>3, <2>5, <2>6, <2>7 DEF IInv, Holds, Linked, Pointers
  <1>4. CASE Chains[h] = << >>
    <2>2. next' = next /\ halted' = TRUE
      BY <1>2, <1>4 DEF TakeHead
    <2>3. Holds(next', Chains)
      BY <1>1, <2>2
    <2>4. Chains' = Chains
      BY <2>3, HoldsChainsNext
    <2>5. next' \in [Nodes \cup Heads -> Nodes \cup {Null}] /\ Holds(next', Chains')
      BY <2>3, <2>4, NextType
    <2>6. TypeOK' /\ WalkInv'
      BY <1>1, <2>2, <2>5 DEF IInv, TypeOK, WalkInv, walkVars
    <2> QED BY <1>1, <1>4, <2>2, <2>4, <2>5, <2>6 DEF IInv, Holds, Linked, Pointers
  <1> QED BY <1>3, <1>4

(* dummysem.next = NULL. *)
LEMMA ResetStep ==
  ASSUME IInv, ResetWaiters
  PROVE  /\ IInv' /\ ~halted /\ halted' = halted
         /\ Chains' = [Chains EXCEPT !["dummysem"] = << >>]
  <1>1. Holds(next, Chains) /\ "dummysem" \in Heads
    BY DEF IInv, Heads
  <1>2. Holds(next', [Chains EXCEPT !["dummysem"] = << >>])
    BY <1>1, LinksAssumption, HoldsReset DEF ResetWaiters
  <1>3. Chains' = [Chains EXCEPT !["dummysem"] = << >>]
    BY <1>2, HoldsChainsNext
  <1>4. next' \in [Nodes \cup Heads -> Nodes \cup {Null}] /\ Holds(next', Chains')
    BY <1>2, <1>3, NextType
  <1>5. TypeOK' /\ WalkInv' /\ ~halted /\ halted' = halted
    BY <1>4 DEF IInv, TypeOK, WalkInv, ResetWaiters, walkVars
  <1> QED BY <1>3, <1>4, <1>5 DEF IInv, Holds, Linked, Pointers

(* try_to_wakeup begins with the whole blocked list before it. *)
LEMMA StartStep ==
  ASSUME IInv, StartWalk
  PROVE  IInv' /\ Chains' = Chains /\ halted' = halted
  <1> DEFINE b == Chains["blocked_list"]
             r == Chains["runnable_list"]
  <1>1. /\ Holds(next, Chains) /\ "blocked_list" \in Heads /\ "runnable_list" \in Heads
        /\ b \in Seq(Nodes) /\ r \in Seq(Nodes)
        /\ next' = next /\ halted' = halted /\ ~halted /\ walking' = TRUE
    BY DEF IInv, Holds, Heads, StartWalk
  <1>2. Chains' = Chains /\ Holds(next', Chains')
    BY <1>1, HoldsChainsNext
  <1>3. p' = IF b = << >> THEN Null ELSE Head(b)
    BY <1>1, LinksAssumption, HoldsHead DEF StartWalk, First, list_head
  <1>4. /\ due' \subseteq ToSet(b) /\ visited' = << >> /\ before' = <<b, r>>
    BY <1>1, ChainsOf DEF StartWalk
  <1> HIDE DEF b, r
  <1>5. ToSet(b) \subseteq Nodes
    BY <1>1, LenProperties DEF ToSet
  <1>6. \A S : Keep(<< >>, S) = << >>
    <2> TAKE S
    <2>1. << >> \in Seq({})
      BY EmptySeq
    <2>2. Keep(<< >>, S) \in Seq({})
      BY <2>1, KeepProperties
    <2>3. \A i \in 1 .. Len(Keep(<< >>, S)) : FALSE
      BY <2>2, LenProperties
    <2>4. Len(Keep(<< >>, S)) \notin Nat \ {0}
      BY <2>3
    <2> QED BY <2>2, <2>4, EmptySeq
  <1>7. p' \in Nodes \cup {Null}
    BY <1>1, <1>3, HeadTailProperties
  <1>8. TypeOK'
    BY <1>1, <1>4, <1>5, <1>7 DEF IInv, TypeOK
  <1>9. << >> \o b = b /\ r \o << >> = r /\ << >> \in Seq(Nodes)
    BY <1>1, ConcatEmptySeq, EmptySeq
  <1>10. /\ before'[1] = b /\ before'[2] = r
         /\ before' \in Seq(Nodes) \X Seq(Nodes) /\ visited' \in Seq(Nodes)
    BY <1>1, <1>4, <1>9
  <1>11. Chains'["blocked_list"] = b /\ Chains'["runnable_list"] = r
    BY <1>2 DEF b, r
  <1>12. /\ before'[1] = visited' \o b
         /\ Chains'["blocked_list"] = Keep(visited', Nodes \ due') \o b
         /\ Chains'["runnable_list"] = before'[2] \o Keep(visited', due')
    BY <1>4, <1>6, <1>9, <1>10, <1>11
  <1>13. WalkInv'
    BY <1>1, <1>3, <1>10, <1>12 DEF WalkInv
  <1> QED BY <1>1, <1>2, <1>8, <1>13 DEF IInv, Holds, Linked, Pointers

(* The sleepers that a turn has in front of it: it stands on the first of  *)
(* them and saves where the next one is.                                   *)
LEMMA TurnBegins ==
  ASSUME IInv, walking, p # Null
  PROVE  \E rest \in Seq(Nodes) :
           /\ rest # << >> /\ p = Head(rest)
           /\ before[1] = Append(visited, p) \o Tail(rest)
           /\ Chains["blocked_list"] = Keep(visited, Nodes \ due) \o rest
           /\ Chains["runnable_list"] = before[2] \o Keep(visited, due)
           /\ next[p] = IF Tail(rest) = << >> THEN Null ELSE Head(Tail(rest))
  <1> DEFINE b == Chains["blocked_list"]
             k == Keep(visited, Nodes \ due)
  <1>1. PICK rest \in Seq(Nodes) :
          /\ before[1] = visited \o rest
          /\ b = k \o rest
          /\ Chains["runnable_list"] = before[2] \o Keep(visited, due)
          /\ p = IF rest = << >> THEN Null ELSE Head(rest)
    BY DEF IInv, WalkInv
  <1>2. /\ visited \in Seq(Nodes) /\ k \in Seq(Nodes) /\ b \in Seq(Nodes)
        /\ Linked(next, "blocked_list", b)
    BY KeepProperties DEF IInv, WalkInv, Holds, Heads
  <1> DEFINE t == Tail(rest)
  <1>3. /\ rest # << >> /\ p = Head(rest) /\ p \in Nodes /\ p = rest[1]
        /\ Len(rest) \in Nat \ {0}
        /\ t \in Seq(Nodes) /\ Len(t) = Len(rest) - 1
        /\ \A i \in 1 .. Len(t) : t[i] = rest[i + 1]
    BY <1>1, EmptySeq, HeadTailProperties
  <1>4. before[1] = Append(visited, p) \o t
    <2> DEFINE q == <<p>>
    <2>1. q \in Seq(Nodes) /\ Append(visited, p) = visited \o q
      BY <1>2, <1>3, AppendIsConcat
    <2>2. rest = q \o t
      BY <1>3, HeadAndTail
    <2> HIDE DEF q, t
    <2>3. visited \in Seq(Nodes) /\ q \in Seq(Nodes) /\ t \in Seq(Nodes)
      BY <1>2, <1>3, <2>1
    <2>4. (visited \o q) \o t = visited \o (q \o t)
      BY <2>3, ConcatAssociative, SMTT(60)
    <2> QED BY <1>1, <2>1, <2>2, <2>4
  <1>5. next[p] = IF t = << >> THEN Null ELSE Head(t)
    <2> DEFINE n == Len(k) + 1
    <2>1. /\ Len(k) \in Nat /\ Len(b) = Len(k) + Len(rest)
          /\ \A i \in 1 .. Len(k) + Len(rest) : b[i] = IF i <= Len(k) THEN k[i] ELSE rest[i - Len(k)]
      BY <1>1, <1>2, ConcatProperties, LenProperties
    <2> HIDE DEF k, t, b
    <2>2. n \in 0 .. Len(b) /\ n # 0 /\ b[n] = p
      <3>1. n \in 1 .. Len(k) + Len(rest) /\ ~(n <= Len(k)) /\ n - Len(k) = 1
        BY <1>3, <2>1
      <3>2. b[n] = rest[n - Len(k)]
        BY <2>1, <3>1
      <3> QED BY <1>3, <2>1, <3>1, <3>2
    <2>3. next[p] = IF n < Len(b) THEN b[n + 1] ELSE Null
      BY <1>2, <2>2 DEF Linked, Place
    <2>4. CASE t = << >>
      <3>1. Len(rest) = 1
        BY <1>3, <2>4, EmptySeq
      <3>2. ~(n < Len(b))
        BY <2>1, <3>1
      <3> QED BY <2>3, <2>4, <3>2
    <2>5. CASE t # << >>
      <3>1. Len(t) \in Nat \ {0} /\ Head(t) = t[1]
        BY <1>3, <2>5, EmptySeq, HeadTailProperties
      <3>2. /\ n < Len(b) /\ n + 1 \in 1 .. Len(k) + Len(rest) /\ ~(n + 1 <= Len(k))
            /\ (n + 1) - Len(k) = 2 /\ 1 \in 1 .. Len(t)
        BY <1>3, <2>1, <3>1
      <3>3. b[n + 1] = rest[(n + 1) - Len(k)]
        BY <2>1, <3>2
      <3>4. t[1] = rest[2]
        BY <1>3, <3>2
      <3> QED BY <2>3, <2>5, <3>1, <3>2, <3>3, <3>4
    <2> QED BY <2>4, <2>5
  <1> QED BY <1>1, <1>3, <1>4, <1>5

(* A turn that passes its sleeper.                                         *)
LEMMA PassTurn ==
  ASSUME IInv, PassStep
  PROVE  IInv' /\ Chains' = Chains /\ halted' = halted
  <1> DEFINE b == Chains["blocked_list"]
  <1>1. /\ walking /\ p # Null /\ p \notin due /\ p' = next[p] /\ visited' = Append(visited, p)
        /\ UNCHANGED <<next, halted, walking, due, before>>
        /\ Holds(next, Chains) /\ ~halted
        /\ visited \in Seq(Nodes) /\ before \in Seq(Nodes) \X Seq(Nodes)
    BY DEF PassStep, IInv, WalkInv
  <1>2. Chains' = Chains /\ Holds(next', Chains')
    BY <1>1, HoldsChainsNext
  <1>3. PICK rest \in Seq(Nodes) :
          /\ rest # << >> /\ p = Head(rest)
          /\ before[1] = Append(visited, p) \o Tail(rest)
          /\ b = Keep(visited, Nodes \ due) \o rest
          /\ Chains["runnable_list"] = before[2] \o Keep(visited, due)
          /\ next[p] = IF Tail(rest) = << >> THEN Null ELSE Head(Tail(rest))
    BY <1>1, TurnBegins
  <1> DEFINE t == Tail(rest)
             k == Keep(visited, Nodes \ due)
             q == <<p>>
  <1>4. /\ p \in Nodes /\ t \in Seq(Nodes) /\ k \in Seq(Nodes) /\ q \in Seq(Nodes)
    BY <1>1, <1>3, HeadTailProperties, KeepProperties
  <1>5. /\ Keep(visited', due') = Keep(visited, due)
        /\ Keep(visited', Nodes \ due') = Append(k, p)
    <2> DEFINE stay == Nodes \ due
    <2>1. p \in stay /\ stay = Nodes \ due' /\ due' = due
      BY <1>1, <1>4
    <2>2. Keep(Append(visited, p), due) = Keep(visited, due)
      BY <1>1, <1>4, KeepOfAppend
    <2> HIDE DEF stay
    <2>0. visited \in Seq(Nodes) /\ p \in Nodes /\ p \in stay
      BY <1>1, <1>4, <2>1
    <2>3. Keep(Append(visited, p), stay) = Append(Keep(visited, stay), p)
      BY <2>0, KeepOfAppend
    <2> QED BY <1>1, <2>1, <2>2, <2>3 DEF stay
  <1>6. rest = q \o t
    BY <1>3, <1>4, HeadAndTail
  <1>7. Append(k, p) \o t = k \o rest
    <2>1. Append(k, p) = k \o q
      BY <1>4, AppendIsConcat
    <2> HIDE DEF q, t, k
    <2>2. (k \o q) \o t = k \o (q \o t)
      BY <1>4, ConcatAssociative, SMTT(60)
    <2> QED BY <1>6, <2>1, <2>2
  <1>8. visited' \in Seq(Nodes) /\ p' \in Nodes \cup {Null}
    <2>1. visited' \in Seq(Nodes)
      BY <1>1, <1>4, AppendProperties
    <2>2. p' \in Nodes \cup {Null}
      BY <1>1, <1>4 DEF IInv, TypeOK
    <2> QED BY <2>1, <2>2
  <1>9. TypeOK'
    BY <1>1, <1>8 DEF IInv, TypeOK
  <1> HIDE DEF t, k
  <1>10. /\ before'[1] = visited' \o t
         /\ Chains'["blocked_list"] = Keep(visited', Nodes \ due') \o t
         /\ Chains'["runnable_list"] = before'[2] \o Keep(visited', due')
         /\ p' = IF t = << >> THEN Null ELSE Head(t)
    BY <1>1, <1>2, <1>3, <1>5, <1>7 DEF t, k
  <1>11. WalkInv'
    BY <1>1, <1>4, <1>8, <1>10 DEF WalkInv
  <1> QED BY <1>1, <1>2, <1>9, <1>11 DEF IInv, Holds, Linked, Pointers

(* A turn that wakes its sleeper: list_delete, list_add.                   *)
LEMMA WakeTurn ==
  ASSUME IInv, WakeStep
  PROVE  /\ IInv' /\ ~halted /\ halted' = halted
         /\ p \in Nodes /\ p \in ToSet(Chains["blocked_list"])
         /\ Chains' = [Chains EXCEPT !["blocked_list"] = list_delete(@, p),
                                     !["runnable_list"] = list_add(@, p)]
  <1> DEFINE b == Chains["blocked_list"]
             r == Chains["runnable_list"]
  <1>1. /\ walking /\ p \in due /\ p \in Nodes /\ p # Null
        /\ p' = next[p] /\ visited' = Append(visited, p)
        /\ UNCHANGED <<halted, walking, due, before>>
        /\ Holds(next, Chains) /\ ~halted
        /\ visited \in Seq(Nodes) /\ before \in Seq(Nodes) \X Seq(Nodes)
        /\ next' = Added(Deleted(next, "blocked_list", p), "runnable_list", p)
    BY LinksAssumption DEF WakeStep, IInv, WalkInv, TypeOK, Cursor, Woken
  <1>2. PICK rest \in Seq(Nodes) :
          /\ rest # << >> /\ p = Head(rest)
          /\ before[1] = Append(visited, p) \o Tail(rest)
          /\ b = Keep(visited, Nodes \ due) \o rest
          /\ r = before[2] \o Keep(visited, due)
          /\ next[p] = IF Tail(rest) = << >> THEN Null ELSE Head(Tail(rest))
    BY <1>1, TurnBegins
  <1> DEFINE t == Tail(rest)
             k == Keep(visited, Nodes \ due)
             w == Keep(visited, due)
  <1>3. /\ t \in Seq(Nodes) /\ k \in Seq(Nodes) /\ w \in Seq(Nodes) /\ b \in Seq(Nodes)
        /\ before[2] \in Seq(Nodes) /\ NoRepeats(b)
        /\ "blocked_list" \in Heads /\ "runnable_list" \in Heads
        /\ "blocked_list" # "runnable_list"
        /\ \A g \in Heads : Chains[g] \in Seq(Nodes)
    BY <1>1, <1>2, HeadTailProperties, KeepProperties DEF Holds, Heads
  <1>4. p \in ToSet(b)
    <2> HIDE DEF k
    <2>1. /\ Len(k) \in Nat /\ Len(rest) \in Nat \ {0} /\ p = rest[1]
          /\ DOMAIN b = 1 .. Len(b) /\ Len(b) = Len(k) + Len(rest)
          /\ \A i \in 1 .. Len(k) + Len(rest) : b[i] = IF i <= Len(k) THEN k[i] ELSE rest[i - Len(k)]
      BY <1>2, <1>3, EmptySeq, HeadTailProperties, ConcatProperties, LenProperties DEF k
    <2> HIDE DEF b
    <2>2. Len(k) + 1 \in 1 .. Len(k) + Len(rest) /\ (Len(k) + 1) - Len(k) = 1
      BY <2>1
    <2>3. b[Len(k) + 1] = rest[(Len(k) + 1) - Len(k)]
      BY <2>1, <2>2
    <2> QED BY <2>1, <2>2, <2>3 DEF ToSet
  <1> DEFINE L1 == [Chains EXCEPT !["blocked_list"] = list_delete(@, p)]
             L2 == [L1 EXCEPT !["runnable_list"] = list_add(@, p)]
             n1 == Deleted(next, "blocked_list", p)
  <1>5. Holds(n1, L1)
    BY <1>1, <1>3, <1>4, LinksAssumption, HoldsDelete
  <1>6. /\ L1["blocked_list"] = list_delete(b, p)
        /\ \A g \in Heads \ {"blocked_list"} : L1[g] = Chains[g]
    BY <1>1, <1>3 DEF Holds
  <1>7. \A g \in Heads : p \notin ToSet(L1[g])
    <2> TAKE g \in Heads
    <2>1. CASE g = "blocked_list"
      <3>1. Lists(Nodes, b, ToSet(b))
        BY <1>3 DEF Lists
      <3>2. ToSet(list_delete(b, p)) = ToSet(b) \ {p}
        BY <1>4, <3>1, ListsDelete DEF Lists
      <3> QED BY <1>6, <2>1, <3>2
    <2>2. CASE g # "blocked_list"
      BY <1>1, <1>3, <1>4, <1>6, <2>2 DEF Holds
    <2> QED BY <2>1, <2>2
  <1> HIDE DEF n1, L1
  <1>8. Holds(Added(n1, "runnable_list", p), L2)
    BY <1>1, <1>3, <1>5, <1>7, LinksAssumption, HoldsAdd
  <1>9. Chains' = L2 /\ Holds(next', Chains')
    <2>1. next' = Added(n1, "runnable_list", p)
      BY <1>1 DEF n1
    <2> HIDE DEF L2
    <2> QED BY <1>8, <2>1, HoldsChainsNext
  <1>10. Chains' = [Chains EXCEPT !["blocked_list"] = list_delete(@, p),
                                  !["runnable_list"] = list_add(@, p)]
    BY <1>3, <1>9 DEF L1
  <1>11. /\ L2["blocked_list"] = list_delete(b, p) /\ L2["runnable_list"] = list_add(r, p)
    BY <1>1, <1>3, <1>6 DEF L1, Holds
  <1>12. list_delete(b, p) = k \o t
    BY <1>2, <1>3, DeleteBetween
  <1>13. /\ Keep(visited', due') = Append(w, p)
         /\ Keep(visited', Nodes \ due') = k
    BY <1>1, KeepOfAppend, SMTT(60)
  <1>14. list_add(r, p) = before[2] \o Append(w, p)
    <2> DEFINE q == <<p>>
               f == before[2]
    <2>1. q \in Seq(Nodes) /\ r \in Seq(Nodes) /\ f \in Seq(Nodes)
      BY <1>1, <1>3
    <2>2. list_add(r, p) = r \o q /\ Append(w, p) = w \o q
      BY <1>1, <1>3, <2>1, AppendIsConcat DEF list_add
    <2>3. r = f \o w
      BY <1>2
    <2> HIDE DEF q, w, r, f
    <2>0. f \in Seq(Nodes) /\ w \in Seq(Nodes) /\ q \in Seq(Nodes)
      BY <1>3, <2>1
    <2>4. (f \o w) \o q = f \o (w \o q)
      BY <2>0, ConcatAssociative, SMTT(60)
    <2>5. list_add(r, p) = f \o Append(w, p)
      BY <2>2, <2>3, <2>4
    <2> QED BY <2>5 DEF f
  <1>15. visited' \in Seq(Nodes) /\ p' \in Nodes \cup {Null}
    <2>1. visited' \in Seq(Nodes)
      BY <1>1, AppendProperties
    <2>2. p' \in Nodes \cup {Null}
      BY <1>1 DEF IInv, TypeOK
    <2> QED BY <2>1, <2>2
  <1>16. next' \in [Nodes \cup Heads -> Nodes \cup {Null}]
    BY <1>9, NextType
  <1>17. TypeOK'
    BY <1>1, <1>15, <1>16 DEF IInv, TypeOK
  <1> HIDE DEF t, k, w, L2, b, r
  <1>18. /\ before'[1] = visited' \o t
         /\ Chains'["blocked_list"] = Keep(visited', Nodes \ due') \o t
         /\ Chains'["runnable_list"] = before'[2] \o Keep(visited', due')
         /\ p' = IF t = << >> THEN Null ELSE Head(t)
    BY <1>1, <1>2, <1>9, <1>11, <1>12, <1>13, <1>14 DEF t
  <1>19. WalkInv'
    BY <1>1, <1>3, <1>15, <1>18 DEF WalkInv
  <1>20. IInv'
    BY <1>9, <1>17, <1>19 DEF IInv, Holds, Linked, Pointers
  <1> QED BY <1>1, <1>4, <1>10, <1>20 DEF b

(* The walk ends.                                                          *)
LEMMA EndStep ==
  ASSUME IInv, EndWalk
  PROVE  IInv' /\ Chains' = Chains /\ halted' = halted
  <1>1. /\ next' = next /\ halted' = halted /\ p' = p /\ walking' = FALSE /\ due' = {}
        /\ Holds(next, Chains)
    BY DEF IInv, EndWalk
  <1>2. Chains' = Chains /\ Holds(next', Chains')
    BY <1>1, HoldsChainsNext
  <1>3. TypeOK' /\ WalkInv'
    BY <1>1 DEF IInv, TypeOK, WalkInv
  <1> QED BY <1>1, <1>2, <1>3 DEF IInv, Holds, Linked, Pointers

(* Nothing changes.                                                        *)
LEMMA StutterStep ==
  ASSUME IInv, UNCHANGED vars
  PROVE  IInv' /\ Chains' = Chains /\ halted' = halted
  <1>1. Holds(next, Chains) /\ next' = next
    BY DEF IInv, vars
  <1>2. Chains' = Chains /\ Holds(next', Chains')
    BY <1>1, HoldsChainsNext
  <1>3. TypeOK'
    BY DEF IInv, TypeOK, vars, walkVars
  <1>4. WalkInv'
    BY <1>2 DEF IInv, WalkInv, vars, walkVars
  <1> QED BY <1>2, <1>3, <1>4 DEF IInv, Holds, Linked, Pointers, vars

-----------------------------------------------------------------------------
(* Every step keeps the invariant, *)
LEMMA NextIInv ==
  ASSUME IInv, [Next]_vars
  PROVE  IInv'
  <1>1. ASSUME NEW h \in Heads, TakeHead(h) PROVE IInv'
    BY <1>1, TakeStep
  <1>2. ASSUME NEW h \in Heads, NEW d \in Nodes, list_addTo(h, d) PROVE IInv'
    BY <1>2, AddStep
  <1>3. ASSUME NEW h \in Heads, NEW d \in Nodes, list_deleteFrom(h, d) PROVE IInv'
    BY <1>3, DeleteStep
  <1>4. CASE ResetWaiters
    BY <1>4, ResetStep
  <1>5. CASE StartWalk
    BY <1>5, StartStep
  <1>6. CASE WakeStep
    BY <1>6, WakeTurn
  <1>7. CASE PassStep
    BY <1>7, PassTurn
  <1>8. CASE EndWalk
    BY <1>8, EndStep
  <1>9. CASE Halted \/ UNCHANGED vars
    BY <1>9, StutterStep DEF Halted
  <1> QED BY <1>1, <1>2, <1>3, <1>4, <1>5, <1>6, <1>7, <1>8, <1>9, Zenon DEF Next

(***************************************************************************)
(* The inductive invariant: types, the chains, and where a walk stands.    *)
(***************************************************************************)
THEOREM InductiveLinks == Spec => []IInv
  <1>1. Init => IInv
    BY InitIInv
  <1>2. IInv /\ [Next]_vars => IInv'
    BY NextIInv
  <1> QED BY <1>1, <1>2, PTL DEF Spec

(***************************************************************************)
(* Pointers point to PCBs, never to a list head (list.c).                  *)
(***************************************************************************)
THEOREM TypeCorrect == Spec => []TypeOK
  <1>1. IInv => TypeOK
    BY DEF IInv
  <1> QED BY <1>1, InductiveLinks, PTL

(***************************************************************************)
(* A PCB is on one list at most and on it once, whatever stale pointers    *)
(* unlinked PCBs keep (list.c:9-10, 20-21, sem.c:33).                      *)
(***************************************************************************)
THEOREM ChainsSeparate == Spec => []Separate
  <1>1. IInv => Separate
    <2> SUFFICES ASSUME IInv PROVE Separate
      OBVIOUS
    <2>1. /\ \A h \in Heads : NoRepeats(Chains[h])
          /\ \A g, h \in Heads : g # h => ToSet(Chains[g]) \cap ToSet(Chains[h]) = {}
      BY DEF IInv, Holds
    <2> QED BY <2>1, ChainsOf DEF Separate
  <1> QED BY <1>1, InductiveLinks, PTL

(***************************************************************************)
(* A walk of try_to_wakeup visits every sleeper once and in order, and     *)
(* splits the blocked list (irqHandle.c:231-242).                          *)
(***************************************************************************)
THEOREM WalksSplit == Spec => []WalkSplitsTheList
  <1>1. IInv => WalkSplitsTheList
    <2> SUFFICES ASSUME IInv, walking, p = Null
                 PROVE  /\ visited = before[1]
                        /\ Chain("blocked_list") = Keep(before[1], Nodes \ due)
                        /\ Chain("runnable_list") = before[2] \o Keep(before[1], due)
      BY DEF WalkSplitsTheList
    <2>1. PICK rest \in Seq(Nodes) :
            /\ before[1] = visited \o rest
            /\ Chains["blocked_list"] = Keep(visited, Nodes \ due) \o rest
            /\ Chains["runnable_list"] = before[2] \o Keep(visited, due)
            /\ p = IF rest = << >> THEN Null ELSE Head(rest)
      BY DEF IInv, WalkInv
    <2>2. rest = << >>
      BY <2>1, HeadTailProperties, LinksAssumption
    <2>3. /\ visited \in Seq(Nodes) /\ Keep(visited, Nodes \ due) \in Seq(Nodes)
      BY KeepProperties DEF IInv, WalkInv
    <2>4. visited \o << >> = visited
      BY <2>3, ConcatEmptySeq
    <2>5. Keep(visited, Nodes \ due) \o << >> = Keep(visited, Nodes \ due)
      BY <2>3, ConcatEmptySeq
    <2>6. "blocked_list" \in Heads /\ "runnable_list" \in Heads
      BY DEF Heads
    <2> QED BY <2>1, <2>2, <2>4, <2>5, <2>6, ChainsOf
  <1> QED BY <1>1, InductiveLinks, PTL

-----------------------------------------------------------------------------
(* Queues.tla has the list operations of KernelLists.tla.                  *)
LEMMA SameOperations ==
  /\ \A l, d : Abstract!list_add(l, d) = list_add(l, d)
  /\ \A l, d : Abstract!list_delete(l, d) = list_delete(l, d)
  /\ \A l : Abstract!list_head(l) = list_head(l)
  /\ \A l, d : Abstract!OnList(l, d) <=> OnList(l, d)
  /\ \A l : Abstract!ToSet(l) = ToSet(l)
  <1>1. \A l, d : Abstract!list_delete(l, d) = list_delete(l, d)
    <2> TAKE l, d
    <2> QED BY Zenon DEF Abstract!list_delete, list_delete, Abstract!RemoveFirst, RemoveFirst,
                  Abstract!RemoveAt, RemoveAt, Abstract!SelectInSeq, SelectInSeq,
                  Abstract!Min, Min
  <1>2. \A l, d : Abstract!OnList(l, d) <=> OnList(l, d)
    BY DEF Abstract!OnList, OnList, Abstract!Contains, Contains
  <1> QED BY <1>1, <1>2 DEF Abstract!list_add, list_add, Abstract!list_head, list_head,
                           Abstract!ToSet, ToSet

(* Each operation on the pointers is one on the queues or none at all.     *)
LEMMA NextRefines ==
  ASSUME IInv, [Next]_vars
  PROVE  [Abstract!Next]_(Abstract!vars)
  <1>1. /\ \A g \in Heads : Chains[g] \in Seq(Nodes)
        /\ [h \in Heads |-> Chain(h)] = Chains
        /\ [h \in Heads |-> Chain(h)]' = Chains'
    BY DEF IInv, Holds, Chains
  <1>2. \A g \in Heads : \A d : Abstract!OnList(Chains[g], d) <=> d \in ToSet(Chains[g])
    BY <1>1, OnListProperties, SameOperations
  <1>3. Abstract!Queued = UNION {ToSet(Chains[h]) : h \in Heads}
    BY <1>1, SameOperations DEF Abstract!Queued
  <1>4. ASSUME NEW h \in Heads, TakeHead(h) PROVE Abstract!Next
    <2>1. Abstract!Take(h)
      BY <1>1, <1>4, TakeStep, SameOperations DEF Abstract!Take
    <2> QED BY <2>1 DEF Abstract!Next
  <1>5. ASSUME NEW h \in Heads, NEW d \in Nodes, list_addTo(h, d) PROVE Abstract!Next
    <2>1. Abstract!Add(h, d)
      BY <1>1, <1>3, <1>5, AddStep, SameOperations DEF Abstract!Add
    <2> QED BY <2>1 DEF Abstract!Next
  <1>6. ASSUME NEW h \in Heads, NEW d \in Nodes, list_deleteFrom(h, d) PROVE Abstract!Next
    <2>1. Abstract!Delete(h, d)
      BY <1>1, <1>2, <1>6, DeleteStep, SameOperations DEF Abstract!Delete
    <2> QED BY <2>1 DEF Abstract!Next
  <1>7. CASE ResetWaiters
    <2>1. Abstract!Empty("dummysem") /\ "dummysem" \in Heads
      BY <1>1, <1>7, ResetStep DEF Abstract!Empty, Heads
    <2> QED BY <2>1 DEF Abstract!Next
  <1>8. CASE WakeStep
    <2>1. /\ Abstract!Move("blocked_list", "runnable_list", p) /\ p \in Nodes
          /\ "blocked_list" \in Heads /\ "runnable_list" \in Heads
          /\ "blocked_list" # "runnable_list"
      BY <1>1, <1>2, <1>8, WakeTurn, SameOperations DEF Abstract!Move, Heads
    <2> QED BY <2>1 DEF Abstract!Next
  <1>9. CASE StartWalk \/ PassStep \/ EndWalk \/ Halted \/ UNCHANGED vars
    <2>1. Chains' = Chains /\ halted' = halted
      BY <1>9, StartStep, PassTurn, EndStep, StutterStep DEF Halted
    <2> QED BY <1>1, <2>1 DEF Abstract!vars
  <1> QED BY <1>4, <1>5, <1>6, <1>7, <1>8, <1>9, Zenon DEF Next

(***************************************************************************)
(* The pointer code implements queues (list.c, Queues.tla).                *)
(***************************************************************************)
THEOREM LinksImplementQueues == Spec => ImplementsQueues
  <1>1. Init => Abstract!Init
    BY InitIInv DEF Init, Abstract!Init, Chains
  <1>2. IInv /\ [Next]_vars => [Abstract!Next]_(Abstract!vars)
    BY NextRefines
  <1> QED BY <1>1, <1>2, InductiveLinks, PTL DEF Spec, ImplementsQueues, Abstract!Spec

=============================================================================
