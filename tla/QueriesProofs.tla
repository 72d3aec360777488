--------------------------- MODULE QueriesProofs ----------------------------
(***************************************************************************)
(* What a request means, for any request: its ports, mounts, affinity,     *)
(* command, tags, package, version and checks, and how docker ps and       *)
(* docker inspect show it; what a word for a container or a network finds  *)
(* among any VMs and networks; the networks a container gets; and what a   *)
(* list of containers or networks holds.                                   *)
(***************************************************************************)
EXTENDS Queries, FiniteSetTheorems, SequenceTheorems, WellFoundedInduction, TLAPS

-----------------------------------------------------------------------------
(* Texts and their parts.                                                  *)
LEMMA SameText ==
    ASSUME NEW s \in Text_, NEW t \in Text_, Len(s) = Len(t),
           \A i \in 1 .. Len(s) : s[i] = t[i]
    PROVE  s = t
  BY SeqEqual DEF Text_

LEMMA PrefixIs ==
    ASSUME NEW s \in Text_, NEW t \in Text_
    PROVE  IsPrefix(s, t) <=> /\ Len(s) <= Len(t)
                              /\ \A i \in 1 .. Len(s) : s[i] = t[i]
<1>1. CASE Len(s) <= Len(t)
  <2> DEFINE p == SubSeq(s, 1, Len(s))
             r == SubSeq(t, 1, Len(s))
  <2>1. /\ p \in Text_ /\ r \in Text_ /\ Len(p) = Len(s) /\ Len(r) = Len(s)
        /\ \A i \in 1 .. Len(s) : p[i] = s[i] /\ r[i] = t[i]
    BY <1>1 DEF Text_
  <2> HIDE DEF p, r
  <2>2. p = r <=> \A i \in 1 .. Len(s) : s[i] = t[i]
    BY <2>1, SameText
  <2> QED BY <1>1, <2>2 DEF IsPrefix, p, r
<1>2. CASE ~(Len(s) <= Len(t))
  BY <1>2 DEF IsPrefix
<1> QED BY <1>1, <1>2

LEMMA HeadIs ==
    ASSUME NEW t \in Text_, NEW n \in Nat
    PROVE  LET h == Head_(t, n) IN
           /\ h \in Text_ /\ Len(h) = (IF n < Len(t) THEN n ELSE Len(t))
           /\ \A i \in 1 .. Len(h) : h[i] = t[i]
  BY DEF Head_, Text_

LEMMA TailIs ==
    ASSUME NEW t \in Text_, NEW n \in Nat
    PROVE  LET r == Tail_(t, n) IN
           /\ r \in Text_ /\ Len(r) = (IF n < Len(t) THEN Len(t) - n ELSE 0)
           /\ \A i \in 1 .. Len(r) : r[i] = t[n + i]
  BY DEF Tail_, Text_

LEMMA JoinedIs ==
    ASSUME NEW s \in Text_, NEW t \in Text_
    PROVE  /\ s \o t \in Text_ /\ Len(s \o t) = Len(s) + Len(t)
           /\ \A i \in 1 .. Len(s) : (s \o t)[i] = s[i]
           /\ \A i \in 1 .. Len(t) : (s \o t)[Len(s) + i] = t[i]
  BY DEF Text_

LEMMA TextHasLength == \A t \in Text_ : Len(t) \in Nat
  BY DEF Text_

(* A word that starts a uuid and more starts with the uuid, or starts the  *)
(* uuid.                                                                   *)
LEMMA StartsUuid ==
    ASSUME NEW word \in Text_, NEW u \in Text_, NEW rest \in Text_, Len(u) = UuidLength,
           IsPrefix(word, u \o rest)
    PROVE  IsPrefix(Head_(word, UuidLength), u)
<1>1. UuidLength \in Nat
  BY NamesAssumption
<1> DEFINE h == Head_(word, UuidLength)
<1>2. /\ h \in Text_ /\ Len(h) = (IF UuidLength < Len(word) THEN UuidLength ELSE Len(word))
      /\ \A i \in 1 .. Len(h) : h[i] = word[i]
  BY <1>1, HeadIs
<1>3. /\ u \o rest \in Text_ /\ Len(u \o rest) = Len(u) + Len(rest)
      /\ \A i \in 1 .. Len(u) : (u \o rest)[i] = u[i]
  BY JoinedIs
<1>4. Len(word) <= Len(u \o rest) /\ \A i \in 1 .. Len(word) : word[i] = (u \o rest)[i]
  <2> DEFINE joined == u \o rest
  <2>1. joined \in Text_ /\ IsPrefix(word, joined)
    BY <1>3
  <2> HIDE DEF joined
  <2>2. Len(word) <= Len(joined) /\ \A i \in 1 .. Len(word) : word[i] = joined[i]
    BY <2>1, PrefixIs
  <2> QED BY <2>2 DEF joined
<1>5. Len(word) \in Nat
  BY TextHasLength
<1> HIDE DEF h
<1>6. Len(h) <= Len(u) /\ \A i \in 1 .. Len(h) : h[i] = u[i]
  BY <1>1, <1>2, <1>3, <1>4, <1>5
<1>7. IsPrefix(h, u)
  BY <1>2, <1>6, PrefixIs
<1> QED BY <1>7 DEF h

LEMMA HeadOfJoined ==
    ASSUME NEW u \in Text_, NEW rest \in Text_, Len(u) = UuidLength
    PROVE  Head_(u \o rest, UuidLength) = u
<1>1. UuidLength \in Nat
  BY NamesAssumption
<1> DEFINE joined == u \o rest
           h == Head_(joined, UuidLength)
<1>2. /\ joined \in Text_ /\ Len(joined) = Len(u) + Len(rest)
      /\ \A i \in 1 .. Len(u) : joined[i] = u[i]
  BY JoinedIs
<1> HIDE DEF joined
<1>3. /\ h \in Text_ /\ Len(h) = (IF UuidLength < Len(joined) THEN UuidLength ELSE Len(joined))
      /\ \A i \in 1 .. Len(h) : h[i] = joined[i]
  BY <1>1, <1>2, HeadIs
<1> HIDE DEF h
<1>4. Len(rest) \in Nat
  BY TextHasLength
<1>5. Len(h) = Len(u) /\ \A i \in 1 .. Len(h) : h[i] = u[i]
  BY <1>1, <1>2, <1>3, <1>4
<1>6. h = u
  BY <1>3, <1>5, SameText
<1> QED BY <1>6 DEF h, joined

-----------------------------------------------------------------------------
(* Numbers and lists.                                                       *)
(* Of a finite set that is not empty, one comes first by a measure and then *)
(* by its own number.                                                       *)
LEMMA FirstIsThere ==
    ASSUME NEW S \in SUBSET Nat, IsFiniteSet(S), S # {}, NEW f \in [S -> Nat]
    PROVE  \E i \in S : \A j \in S : f[i] < f[j] \/ (f[i] = f[j] /\ i <= j)
<1> DEFINE IsFirst(i, X) == \A j \in X : f[i] < f[j] \/ (f[i] = f[j] /\ i <= j)
           Bad == {X \in FiniteSubsetsOf(S) : X # {} /\ \A i \in X : ~IsFirst(i, X)}
<1>1. Bad = {}
  <2> SUFFICES ASSUME Bad # {} PROVE FALSE
    OBVIOUS
  <2>1. PICK X \in Bad : \A Y \in Bad : <<Y, X>> \notin StrictSubsetOrdering(S)
    BY FS_StrictSubsetOrderingWellFounded, WFMin
  <2>2. X \in SUBSET S /\ IsFiniteSet(X) /\ X # {} /\ \A i \in X : ~IsFirst(i, X)
    BY <2>1 DEF FiniteSubsetsOf
  <2>3. PICK x \in X : TRUE
    BY <2>2
  <2> DEFINE Y == X \ {x}
  <2>4. IsFiniteSet(Y) /\ Y \in SUBSET S /\ Y # X /\ Y \subseteq X
    BY <2>2, <2>3, FS_Subset
  <2>5. Y \notin Bad
    BY <2>1, <2>2, <2>4 DEF StrictSubsetOrdering, FiniteSubsetsOf
  <2>6. x \in Nat /\ f[x] \in Nat
    BY <2>2, <2>3
  <2>7. CASE Y = {}
    BY <2>2, <2>3, <2>6, <2>7
  <2>8. CASE Y # {}
    <3>1. PICK y \in Y : IsFirst(y, Y)
      BY <2>4, <2>5, <2>8 DEF FiniteSubsetsOf
    <3>2. y \in Nat /\ f[y] \in Nat /\ \A j \in X : j \in Nat /\ f[j] \in Nat
      BY <2>2, <3>1
    <3>3. CASE f[y] < f[x] \/ (f[y] = f[x] /\ y <= x)
      BY <2>2, <3>1, <3>3
    <3>4. CASE f[x] < f[y] \/ (f[x] = f[y] /\ x <= y)
      <4>1. IsFirst(x, X)
        BY <2>6, <3>1, <3>2, <3>4
      <4> QED BY <2>2, <2>3, <4>1
    <3> QED BY <2>6, <3>2, <3>3, <3>4
  <2> QED BY <2>7, <2>8
<1>2. S \in FiniteSubsetsOf(S)
  BY DEF FiniteSubsetsOf
<1> QED BY <1>1, <1>2

LEMMA LeastIsThere ==
    ASSUME NEW S \in SUBSET Nat, IsFiniteSet(S), S # {}
    PROVE  \E i \in S : \A j \in S : i <= j
<1> DEFINE f == [i \in S |-> 0]
<1>1. PICK i \in S : \A j \in S : f[i] < f[j] \/ (f[i] = f[j] /\ i <= j)
  <2>1. f \in [S -> Nat]
    OBVIOUS
  <2> HIDE DEF f
  <2> QED BY <2>1, FirstIsThere
<1> QED BY <1>1

(* What holds of 0, and of each number when it holds of the one before,    *)
(* holds of the last.                                                      *)
LEMMA CountUp ==
    ASSUME NEW n \in Nat, NEW D \in SUBSET (0 .. n), 0 \in D,
           \A m \in 1 .. n : m - 1 \in D => m \in D
    PROVE  n \in D
<1> DEFINE Left == (0 .. n) \ D
<1>1. CASE Left = {}
  BY <1>1
<1>2. CASE Left # {}
  <2>1. Left \in SUBSET Nat /\ IsFiniteSet(Left)
    <3>1. IsFiniteSet(0 .. n)
      BY FS_Interval
    <3> QED BY <3>1, FS_Subset
  <2>2. PICK m \in Left : \A k \in Left : m <= k
    <3> HIDE DEF Left
    <3> QED BY <1>2, <2>1, LeastIsThere
  <2>3. m \in 1 .. n /\ m - 1 \in 0 .. n /\ m - 1 \notin Left
    BY <2>2
  <2> QED BY <2>2, <2>3
<1> QED BY <1>1, <1>2

(* The first n of a list, and the rest of it.                              *)
LEMMA PartsOf ==
    ASSUME NEW T, NEW s \in Seq(T), NEW n \in 0 .. Len(s)
    PROVE  /\ Head_(s, n) \in Seq(T) /\ Len(Head_(s, n)) = n
           /\ \A i \in 1 .. n : Head_(s, n)[i] = s[i]
           /\ Tail_(s, n) \in Seq(T) /\ Len(Tail_(s, n)) = Len(s) - n
           /\ \A i \in 1 .. Len(s) - n : Tail_(s, n)[i] = s[n + i]
           /\ n < Len(s) => Tail(Tail_(s, n)) = Tail_(s, n + 1)
<1>1. /\ Head_(s, n) \in Seq(T) /\ Len(Head_(s, n)) = n
      /\ \A i \in 1 .. n : Head_(s, n)[i] = s[i]
  BY DEF Head_
<1>2. /\ Tail_(s, n) \in Seq(T) /\ Len(Tail_(s, n)) = Len(s) - n
      /\ \A i \in 1 .. Len(s) - n : Tail_(s, n)[i] = s[n + i]
  BY DEF Tail_
<1>3. ASSUME n < Len(s) PROVE Tail(Tail_(s, n)) = Tail_(s, n + 1)
  <2> DEFINE r == Tail_(s, n)
             u == Tail(r)
             t == Tail_(s, n + 1)
  <2>1. /\ t \in Seq(T) /\ Len(t) = Len(s) - (n + 1)
        /\ \A i \in 1 .. Len(s) - (n + 1) : t[i] = s[n + 1 + i]
    BY <1>3 DEF Tail_
  <2>2. r \in Seq(T) /\ Len(r) = Len(s) - n /\ \A i \in 1 .. Len(s) - n : r[i] = s[n + i]
    BY <1>2
  <2> HIDE DEF r, t
  <2>3. u \in Seq(T) /\ Len(u) = Len(r) - 1 /\ \A i \in 1 .. Len(r) - 1 : u[i] = r[i + 1]
    BY <1>3, <2>2
  <2> HIDE DEF u
  <2>4. Len(u) = Len(t) /\ \A i \in 1 .. Len(u) : u[i] = t[i]
    <3>1. Len(s) \in Nat /\ n \in Nat /\ n < Len(s)
      BY <1>3
    <3>2. Len(u) = Len(s) - (n + 1) /\ Len(t) = Len(u)
      BY <3>1, <2>1, <2>2, <2>3
    <3>3. ASSUME NEW i \in 1 .. Len(s) - (n + 1) PROVE u[i] = t[i]
      <4>1. /\ i \in 1 .. Len(r) - 1 /\ i + 1 \in 1 .. Len(s) - n
            /\ n + (i + 1) = n + 1 + i
        BY <2>2, <3>1
      <4>2. u[i] = r[i + 1]
        BY <2>3, <4>1
      <4>3. r[i + 1] = s[n + (i + 1)]
        BY <2>2, <4>1
      <4> QED BY <2>1, <4>1, <4>2, <4>3
    <3> QED BY <3>2, <3>3
  <2>5. u = t
    BY <2>1, <2>3, <2>4, SeqEqual
  <2> QED BY <2>5 DEF u, r, t
<1> QED BY <1>1, <1>2, <1>3

(* A list without entries.                                                 *)
LEMMA NoEntries ==
    ASSUME NEW T, NEW s \in Seq(T)
    PROVE  Len(s) \in Nat /\ (s = <<>> <=> Len(s) = 0)
  BY EmptySeq

(* A loop whose steps stay in a set can be run.                            *)
Steps(n, S) == [1 .. n -> [S -> S]]
Loops(n, S, start, next) ==
    {f \in [0 .. n -> S] : f[0] = start /\ \A i \in 1 .. n : f[i] = next[i][f[i - 1]]}
LEMMA LoopRuns ==
    ASSUME NEW n \in Nat, NEW S, NEW start \in S, NEW next \in Steps(n, S)
    PROVE  Loops(n, S, start, next) # {}
<1>0. next \in [1 .. n -> [S -> S]]
  BY DEF Steps
<1> DEFINE Runs(g, m) == g[0] = start /\ \A i \in 1 .. m : g[i] = next[i][g[i - 1]]
           Done == {m \in 0 .. n : \E g \in [0 .. m -> S] : Runs(g, m)}
<1>1. 0 \in Done
  <2> DEFINE g == [i \in 0 .. 0 |-> start]
  <2>1. g \in [0 .. 0 -> S] /\ g[0] = start
    OBVIOUS
  <2> HIDE DEF g
  <2>2. Runs(g, 0)
    BY <2>1
  <2> QED BY <2>1, <2>2
<1>2. ASSUME NEW m \in 1 .. n, m - 1 \in Done PROVE m \in Done
  <2>1. PICK g \in [0 .. m - 1 -> S] : Runs(g, m - 1)
    BY <1>2
  <2> DEFINE h == [i \in 0 .. m |-> IF i = m THEN next[m][g[m - 1]] ELSE g[i]]
  <2>2. g[m - 1] \in S /\ next[m][g[m - 1]] \in S
    BY <1>0, <2>1
  <2>3. h \in [0 .. m -> S]
    BY <2>1, <2>2
  <2>4. h[0] = start /\ h[m] = next[m][g[m - 1]] /\ \A i \in 0 .. m - 1 : h[i] = g[i]
    BY <2>1
  <2> HIDE DEF h
  <2>5. Runs(h, m)
    <3>1. h[m - 1] = g[m - 1] /\ h[0] = start
      BY <2>4
    <3>2. ASSUME NEW i \in 1 .. m PROVE h[i] = next[i][h[i - 1]]
      <4>1. CASE i = m
        BY <2>4, <3>1, <4>1
      <4>2. CASE i # m
        <5>1. i \in 1 .. m - 1 /\ i - 1 \in 0 .. m - 1 /\ i \in 0 .. m - 1
          BY <4>2
        <5> QED BY <2>1, <2>4, <5>1
      <4> QED BY <4>1, <4>2
    <3> QED BY <3>1, <3>2
  <2> HIDE DEF Runs
  <2> QED BY <2>3, <2>5
<1>3. n \in Done
  <2>1. Done \in SUBSET (0 .. n)
    OBVIOUS
  <2> HIDE DEF Done
  <2> QED BY <1>1, <1>2, <2>1, CountUp
<1> QED BY <1>3 DEF Loops

(* What holds before a loop, and after a step when it held before, holds   *)
(* after the loop.                                                         *)
LEMMA LoopKeeps ==
    ASSUME NEW n \in Nat, NEW f, NEW inv, f[0] \in inv[0],
           \A i \in 1 .. n : f[i - 1] \in inv[i - 1] => f[i] \in inv[i]
    PROVE  f[n] \in inv[n]
<1> DEFINE D == {i \in 0 .. n : f[i] \in inv[i]}
<1>1. 0 \in D /\ D \in SUBSET (0 .. n) /\ \A m \in 1 .. n : m - 1 \in D => m \in D
  OBVIOUS
<1>2. n \in D
  <2> HIDE DEF D
  <2> QED BY <1>1, CountUp
<1> QED BY <1>2

(* What is kept of a list are its entries that are in the set, and a list. *)
LEMMA KeptIs ==
    ASSUME NEW T, NEW seq \in Seq(T), NEW S
    PROVE  Kept(seq, S) \in Seq(T \cap S)
<1> DEFINE n == Len(seq)
           Keep(kept, e) == IF e \in S THEN Append(kept, e) ELSE kept
           X == Seq(T \cap S)
           Runs(f) == f = [i \in 0 .. n |-> IF i = 0 THEN <<>> ELSE Keep(f[i - 1], seq[i])]
           f0 == CHOOSE f : Runs(f)
           next == [i \in 1 .. n |-> [s \in X |-> Keep(s, seq[i])]]
<1>1. n \in Nat /\ \A i \in 1 .. n : seq[i] \in T
  OBVIOUS
<1>2. Kept(seq, S) = f0[n]
  BY DEF Kept, Through
<1>3. \A s \in X, i \in 1 .. n : Keep(s, seq[i]) \in X
  <2> SUFFICES ASSUME NEW s \in X, NEW i \in 1 .. n PROVE Keep(s, seq[i]) \in X
    OBVIOUS
  <2> QED BY <1>1
<1>4. <<>> \in X
  OBVIOUS
<1> HIDE DEF n, X, Keep
<1>5. next \in Steps(n, X)
  BY <1>3 DEF Steps
<1>6. \A s \in X, i \in 1 .. n : next[i][s] = Keep(s, seq[i])
  OBVIOUS
<1> HIDE DEF next
<1>7. PICK f \in [0 .. n -> X] : f[0] = <<>> /\ \A i \in 1 .. n : f[i] = next[i][f[i - 1]]
  <2>1. Loops(n, X, <<>>, next) # {}
    BY <1>1, <1>4, <1>5, LoopRuns
  <2> QED BY <2>1 DEF Loops
<1>8. \A i \in 0 .. n : f[i] = IF i = 0 THEN <<>> ELSE Keep(f[i - 1], seq[i])
  <2>1. ASSUME NEW i \in 1 .. n PROVE f[i] = Keep(f[i - 1], seq[i])
    <3>1. i - 1 \in 0 .. n
      BY <1>1
    <3>2. f[i - 1] \in X
      BY <1>7, <3>1
    <3> QED BY <1>6, <1>7, <3>2
  <2> QED BY <1>1, <1>7, <2>1
<1>9. Runs(f0)
  <2>1. Runs(f)
    BY <1>7, <1>8
  <2> HIDE DEF Runs
  <2> QED BY <2>1
<1>10. f0[0] = <<>> /\ \A i \in 1 .. n : f0[i] = Keep(f0[i - 1], seq[i])
  <2> HIDE DEF f0
  <2> QED BY <1>1, <1>9
<1> HIDE DEF f0
<1> DEFINE inv == [i \in 0 .. n |-> X]
<1>11. f0[0] \in inv[0] /\ \A i \in 1 .. n : f0[i - 1] \in inv[i - 1] => f0[i] \in inv[i]
  BY <1>1, <1>3, <1>4, <1>10
<1>12. f0[n] \in inv[n]
  <2> HIDE DEF inv
  <2> QED BY <1>1, <1>11, LoopKeeps
<1> QED BY <1>1, <1>2, <1>12 DEF X

-----------------------------------------------------------------------------
(* Containers.                                                             *)
LEMMA OneOf ==
    ASSUME NEW S, IsFiniteSet(S)
    PROVE  Cardinality(S) = 1 <=> \E x : S = {x}
  BY FS_Singleton

LEMMA ContainerFound ==
    ASSUME NEW q \in ContainerQuestions
    PROVE  ContainerAsAsked(q, getVmById(q.id, q.vms))
<1> DEFINE id == q.id
           L == listDockerVms(q.vms, TRUE, id)
           meant == Meant(id, q.vms)
           full == {vm \in Standing(q.vms) :
                      Len(id) = 2 * UuidLength /\ dockerIdFromVmObj(vm) = id}
           named == {vm \in meant : vm.alias = id}
           fullL == {vm \in L : IsFullMatch(id, vm)}
           aliasL == {vm \in L : IsAliasMatch(id, vm)}
           partialL == {vm \in L : IsPartialMatch(id, vm)}
           a == findContainerIdMatch(id, L)
<1>1. /\ id \in Text_ /\ id # NoText /\ IsFiniteSet(q.vms)
      /\ \A vm \in q.vms : vm.uuid \in Text_ /\ Len(vm.uuid) = UuidLength /\ vm.tail \in Text_
      /\ \A v, w \in q.vms : v.uuid = w.uuid => v = w
  BY LookupAssumption DEF HaveUuids, IsUUID
<1>2. Standing(q.vms) \subseteq q.vms
  BY DEF Standing
<1>3. \A vm \in Standing(q.vms) :
        vm \in L <=> IsPrefix(dockerIdToUuid(id), vm.uuid) \/ vm.alias = id
  BY <1>1 DEF listDockerVms, Listed
<1>4. L \subseteq Standing(q.vms)
  BY DEF listDockerVms, Listed
<1>5. ASSUME NEW vm \in Standing(q.vms), IsPrefix(id, dockerIdFromVmObj(vm))
      PROVE  vm \in L
  <2>1. IsPrefix(Head_(id, UuidLength), vm.uuid)
    BY <1>1, <1>2, <1>5, StartsUuid DEF dockerIdFromVmObj
  <2> QED BY <1>3, <2>1 DEF dockerIdToUuid
<1>6. \A vm \in Standing(q.vms) : dockerIdFromVmObj(vm) = id => IsPrefix(id, dockerIdFromVmObj(vm))
  <2>1. IsPrefix(id, id)
    <3> HIDE DEF id
    <3> QED BY <1>1, PrefixIs, TextHasLength
  <2> QED BY <2>1
<1>7. meant = {vm \in Standing(q.vms) : vm.alias = id \/ IsPrefix(id, dockerIdFromVmObj(vm))}
  BY DEF Meant
<1>8. fullL = full /\ full \subseteq meant
  BY <1>4, <1>5, <1>6, <1>7 DEF IsFullMatch
<1>9. ASSUME NEW v \in full, NEW w \in full PROVE v = w
  <2>1. v \in q.vms /\ w \in q.vms /\ dockerIdFromVmObj(v) = dockerIdFromVmObj(w)
    BY <1>2
  <2>2. \A vm \in q.vms : Head_(dockerIdFromVmObj(vm), UuidLength) = vm.uuid
    BY <1>1, HeadOfJoined DEF dockerIdFromVmObj
  <2> QED BY <1>1, <2>1, <2>2
<1>10. IsFiniteSet(meant) /\ IsFiniteSet(full) /\ IsFiniteSet(named) /\ IsFiniteSet(meant \ named)
  <2>1. meant \subseteq q.vms /\ full \subseteq q.vms
    BY <1>2, <1>7, <1>8
  <2>2. named \subseteq q.vms /\ meant \ named \subseteq q.vms
    BY <2>1
  <2> HIDE DEF meant, full, named
  <2> QED BY <1>1, <2>1, <2>2, FS_Subset
<1>11. full = {} => aliasL = named /\ partialL = meant \ named
  <2>1. ASSUME full = {} PROVE \A vm \in L : ~IsFullMatch(id, vm)
    BY <1>8, <2>1
  <2> QED BY <1>1, <1>3, <1>4, <1>5, <1>7, <2>1 DEF IsAliasMatch, IsPartialMatch
<1>12. a = IF fullL # {} THEN {CHOOSE vm \in fullL : TRUE}
           ELSE IF Cardinality(aliasL) = 1 THEN aliasL
           ELSE IF Cardinality(partialL) = 1 THEN partialL ELSE {}
  BY DEF findContainerIdMatch
<1>13. named \subseteq meant
  OBVIOUS
<1> HIDE DEF meant, full, named, fullL, aliasL, partialL, a, L
<1>14. full # {} => a = full
  <2>1. ASSUME full # {} PROVE a = full
    <3>1. a = {CHOOSE vm \in full : TRUE}
      BY <1>8, <1>12, <2>1
    <3>2. (CHOOSE vm \in full : TRUE) \in full
      BY <2>1
    <3> QED BY <1>9, <3>1, <3>2
  <2> QED BY <2>1
<1>15. full = {} => a = IF Cardinality(named) = 1 THEN named
                       ELSE IF Cardinality(meant \ named) = 1 THEN meant \ named ELSE {}
  BY <1>8, <1>11, <1>12
<1>16. Cardinality(meant) = 1 => a = meant
  <2>1. ASSUME Cardinality(meant) = 1 PROVE a = meant
    <3>1. PICK x : meant = {x}
      BY <1>10, <2>1, OneOf
    <3>2. CASE full # {}
      BY <1>8, <1>14, <3>1, <3>2
    <3>3. CASE full = {} /\ x \in named
      <4>1. named = meant
        BY <1>13, <3>1, <3>3
      <4> QED BY <1>15, <2>1, <3>3, <4>1
    <3>4. CASE full = {} /\ x \notin named
      <4>1. named = {} /\ meant \ named = meant
        BY <1>13, <3>1, <3>4
      <4> QED BY <1>15, <2>1, <3>4, <4>1, FS_EmptySet
    <3> QED BY <3>2, <3>3, <3>4
  <2> QED BY <2>1
<1>17. /\ a \subseteq meant /\ (full # {} => a = full)
       /\ full = {} /\ Cardinality(named) = 1 => a = named
       /\ a # {} => a = full \/ a = named \/ a = meant \ named
       /\ Cardinality(meant) = 1 => a = meant
  <2>1. CASE full # {}
    BY <1>8, <1>14, <1>16, <2>1
  <2>2. CASE full = {}
    BY <1>13, <1>15, <1>16, <2>2
  <2> QED BY <2>1, <2>2
<1>18. ContainerAsAsked(q, a)
  BY <1>17 DEF ContainerAsAsked, meant, full, named
<1> QED BY <1>18 DEF a, L, getVmById

-----------------------------------------------------------------------------
(* Searches.  What a search is for, however NAPI answers it.               *)
IsSearch(search) == search.by \in {"name", "uuid", "prefix"}
Suits(search, n) ==
    \/ search.by = "name" /\ n.name = search.text
    \/ search.by = "uuid" /\ n.uuid = search.text
    \/ search.by = "prefix" /\ IsPrefix(search.text, n.uuid)
Suiting(search, things) == {n \in things : Suits(search, n)}
IsAnswering(napi) == napi.answers \in [Kinds -> {"ok", "404", "500"}]

LEMMA NapiListIs ==
    ASSUME NEW search, NEW napi, IsAnswering(napi), NEW kind \in Kinds
    PROVE  LET all == NapiList(search, kind, napi)
               fitting == {n \in napi[kind] : Fits(search, n, napi)} IN
           \/ napi.answers[kind] = "ok" /\ all = Found(fitting)
           \/ napi.answers[kind] = "404" /\ all = Failed("404")
           \/ napi.answers[kind] = "500" /\ all = Failed("500")
<1>1. napi.answers[kind] \in {"ok", "404", "500"}
  BY DEF IsAnswering
<1> QED BY <1>1 DEF NapiList

LEMMA AnswersDiffer ==
    /\ \A S : Found(S).err = "none" /\ Found(S).found = S
    /\ \A err : Failed(err).err = err /\ Failed(err).found = {}
    /\ Next_.err = "next"
  BY DEF Found, Failed, Next_

(* One attempt goes on to the next, fails, or finds some of what suits.    *)
IsAttempt(a, search, things) ==
    \/ a = Next_
    \/ a = Failed("500") \/ a = Failed("thrown")
    \/ \E S \in SUBSET Suiting(search, things) : a = Found(S)

LEMMA AttemptIs ==
    ASSUME NEW search, IsSearch(search), NEW napi, IsAnswering(napi), NEW kind \in Kinds
    PROVE  /\ IsAttempt(List_(search, kind, napi), search, napi[kind])
           /\ IsAttempt(ListFiltered(search, kind, napi), search, napi[kind])
<1>1. IsAttempt(List_(search, kind, napi), search, napi[kind])
  <2> DEFINE said == NapiList(search, kind, napi)
             fitting == {n \in napi[kind] : Fits(search, n, napi)}
  <2>1. said \in {Found(fitting), Failed("404"), Failed("500")}
    BY NapiListIs
  <2>2. fitting \in SUBSET Suiting(search, napi[kind])
    BY DEF IsSearch, Fits, Suiting, Suits
  <2>3. List_(search, kind, napi) = IF said.err = "404" \/ said = Found({}) THEN Next_
                                    ELSE said
    BY DEF List_
  <2> HIDE DEF said, fitting
  <2> QED BY <2>1, <2>2, <2>3, AnswersDiffer DEF IsAttempt
<1>2. IsAttempt(ListFiltered(search, kind, napi), search, napi[kind])
  <2> DEFINE all == NapiList(Everything, kind, napi)
             fitting == {n \in all.found : IsPrefix(search.text, n.uuid)}
  <2>1. all.err \in {"none", "404", "500"} /\ all.found \subseteq napi[kind]
        /\ (all.err = "500" => all = Failed("500"))
    <3> DEFINE every == {n \in napi[kind] : Fits(Everything, n, napi)}
    <3>1. all \in {Found(every), Failed("404"), Failed("500")}
      BY NapiListIs
    <3>2. every \subseteq napi[kind]
      OBVIOUS
    <3> HIDE DEF all, every
    <3> QED BY <3>1, <3>2, AnswersDiffer
  <2>2. search.by = "prefix" => fitting \in SUBSET Suiting(search, napi[kind])
    BY <2>1 DEF Suiting, Suits
  <2>3. ListFiltered(search, kind, napi) =
          IF search.by # "prefix" THEN Next_
          ELSE IF all.err = "404" THEN Failed("thrown")
          ELSE IF all.err = "500" THEN all
          ELSE IF fitting = {} THEN Next_ ELSE Found(fitting)
    BY DEF ListFiltered
  <2> HIDE DEF all, fitting
  <2> QED BY <2>1, <2>2, <2>3 DEF IsAttempt
<1> QED BY <1>1, <1>2

(* When NAPI answers, the two attempts of a kind find all that suits.      *)
LEMMA AttemptsFind ==
    ASSUME NEW search, IsSearch(search), NEW napi, AnswersAll(napi), NEW kind \in Kinds
    PROVE  LET S == Suiting(search, napi[kind])
               first == List_(search, kind, napi)
               second == ListFiltered(search, kind, napi) IN
           /\ S = {} => first = Next_ /\ second = Next_
           /\ S # {} => first = Found(S) \/ (first = Next_ /\ second = Found(S))
<1> DEFINE S == Suiting(search, napi[kind])
           fitting == {n \in napi[kind] : Fits(search, n, napi)}
           prefixed == {n \in napi[kind] : IsPrefix(search.text, n.uuid)}
<1>1. NapiList(search, kind, napi) = Found(fitting)
  BY DEF NapiList, AnswersAll
<1>2. NapiList(Everything, kind, napi) = Found(napi[kind])
  <2>1. {n \in napi[kind] : Fits(Everything, n, napi)} = napi[kind]
    BY DEF Fits, Everything
  <2> QED BY <2>1 DEF NapiList, AnswersAll
<1>3. fitting = S \/ (search.by = "prefix" /\ fitting = {})
  BY DEF IsSearch, Fits, Suiting, Suits
<1>4. search.by = "prefix" => prefixed = S
  BY DEF Suiting, Suits
<1>5. S = {} => fitting = {}
  BY <1>3
<1>6. List_(search, kind, napi) = IF fitting = {} THEN Next_ ELSE Found(fitting)
  <2> HIDE DEF fitting
  <2> QED BY <1>1 DEF List_, Found
<1>7. ListFiltered(search, kind, napi) =
        IF search.by # "prefix" THEN Next_
        ELSE IF prefixed = {} THEN Next_ ELSE Found(prefixed)
  BY <1>2 DEF ListFiltered, Found
<1> HIDE DEF S, fitting, prefixed
<1> QED BY <1>3, <1>4, <1>5, <1>6, <1>7 DEF S

(* The first attempt that answers.                                         *)
LEMMA FirstAnswerIs ==
    ASSUME NEW a, NEW b, NEW c, NEW d, NEW e, e.err # "next"
    PROVE  FirstAnswer(<<a, b, c, d, e>>) =
             IF a.err # "next" THEN a ELSE IF b.err # "next" THEN b
             ELSE IF c.err # "next" THEN c ELSE IF d.err # "next" THEN d ELSE e
<1> DEFINE s == <<a, b, c, d, e>>
           Is(i) == s[i].err # "next" /\ \A j \in 1 .. (i - 1) : s[j].err = "next"
           k == IF a.err # "next" THEN 1 ELSE IF b.err # "next" THEN 2
                ELSE IF c.err # "next" THEN 3 ELSE IF d.err # "next" THEN 4 ELSE 5
<1>1. /\ DOMAIN s = 1 .. 5 /\ s[1] = a /\ s[2] = b /\ s[3] = c /\ s[4] = d /\ s[5] = e
  OBVIOUS
<1> HIDE DEF s
<1>2. k \in 1 .. 5 /\ s[k].err # "next"
  BY <1>1
<1>3. \A j \in 1 .. 5 : j < k => s[j].err = "next"
  <2>1. \A j \in 1 .. 5 : j \in {1, 2, 3, 4, 5}
    OBVIOUS
  <2> QED BY <1>1, <2>1
<1>4. Is(k) /\ k \in DOMAIN s
  BY <1>1, <1>2, <1>3
<1>5. ASSUME NEW i \in DOMAIN s, Is(i) PROVE i = k
  <2>1. ~(i < k)
    BY <1>1, <1>3, <1>5
  <2>2. ~(k < i)
    BY <1>1, <1>2, <1>5
  <2> QED BY <1>1, <1>2, <2>1, <2>2
<1>6. (CHOOSE i \in DOMAIN s : Is(i)) = k
  <2> HIDE DEF Is, k
  <2> QED BY <1>4, <1>5
<1>7. FirstAnswer(s) = s[k]
  BY <1>6 DEF FirstAnswer
<1> QED BY <1>1, <1>7 DEF s

LEMMA FirstDecidedIs ==
    ASSUME NEW a, NEW b, NEW c, a # Found({}) \/ b # Found({}) \/ c # Found({})
    PROVE  FirstDecided(<<a, b, c>>) =
             IF a # Found({}) THEN a ELSE IF b # Found({}) THEN b ELSE c
<1> DEFINE s == <<a, b, c>>
           Is(i) == s[i] # Found({}) /\ \A j \in 1 .. (i - 1) : s[j] = Found({})
           k == IF a # Found({}) THEN 1 ELSE IF b # Found({}) THEN 2 ELSE 3
<1>1. DOMAIN s = 1 .. 3 /\ s[1] = a /\ s[2] = b /\ s[3] = c
  OBVIOUS
<1> HIDE DEF s
<1>2. k \in 1 .. 3 /\ s[k] # Found({})
  BY <1>1
<1>3. \A j \in 1 .. 3 : j < k => s[j] = Found({})
  <2>1. \A j \in 1 .. 3 : j \in {1, 2, 3}
    OBVIOUS
  <2> QED BY <1>1, <2>1
<1>4. Is(k) /\ k \in DOMAIN s
  BY <1>1, <1>2, <1>3
<1>5. ASSUME NEW i \in DOMAIN s, Is(i) PROVE i = k
  <2>1. ~(i < k)
    BY <1>1, <1>3, <1>5
  <2>2. ~(k < i)
    BY <1>1, <1>2, <1>5
  <2> QED BY <1>1, <1>2, <2>1, <2>2
<1>6. (CHOOSE i \in DOMAIN s : Is(i)) = k
  <2> HIDE DEF Is, k
  <2> QED BY <1>4, <1>5
<1>7. FirstDecided(s) = s[k]
  BY <1>6 DEF FirstDecided
<1> QED BY <1>1, <1>7 DEF s

(* A search fails, or finds some of what suits it and the account may use. *)
Things(napi) == napi.networks \union napi.pools
MayUse(S, account) == account.restricted => \A n \in S : n.owned
IsAnswer(r, search, napi, account) ==
    \/ r = Failed("500") \/ r = Failed("thrown")
    \/ \E S \in SUBSET Suiting(search, Things(napi)) : r = Found(S) /\ MayUse(S, account)

LEMMA KindsAre ==
    ASSUME NEW napi
    PROVE  /\ napi["networks"] = napi.networks /\ napi["pools"] = napi.pools
           /\ "networks" \in Kinds /\ "pools" \in Kinds
  BY DEF Kinds

LEMMA SearchIs ==
    ASSUME NEW search, NEW napi, NEW account
    PROVE  LET a == List_(search, "networks", napi)
               b == ListFiltered(search, "networks", napi)
               c == List_(search, "pools", napi)
               d == ListFiltered(search, "pools", napi)
               said == IF a.err # "next" THEN a ELSE IF b.err # "next" THEN b
                         ELSE IF c.err # "next" THEN c ELSE IF d.err # "next" THEN d
                         ELSE Found({}) IN
           getNetworksOrPools(search, napi, account)
             = [said EXCEPT !.found = filterListNetworks(@, account)]
<1> DEFINE a == List_(search, "networks", napi)
           b == ListFiltered(search, "networks", napi)
           c == List_(search, "pools", napi)
           d == ListFiltered(search, "pools", napi)
<1>1. Attempts(search, napi) = <<a, b, c, d, Found({})>>
  BY DEF Attempts
<1>2. Found({}).err # "next"
  BY AnswersDiffer
<1> HIDE DEF a, b, c, d
<1>3. FirstAnswer(Attempts(search, napi)) =
        IF a.err # "next" THEN a ELSE IF b.err # "next" THEN b
        ELSE IF c.err # "next" THEN c ELSE IF d.err # "next" THEN d ELSE Found({})
  BY <1>1, <1>2, FirstAnswerIs
<1> QED BY <1>3 DEF getNetworksOrPools, a, b, c, d

(* What the plugin leaves of an answer.                                    *)
LEMMA FilteredIs ==
    ASSUME NEW account
    PROVE  /\ \A S : [Found(S) EXCEPT !.found = filterListNetworks(@, account)]
                       = Found(filterListNetworks(S, account))
           /\ \A S : /\ filterListNetworks(S, account) \subseteq S
                     /\ MayUse(filterListNetworks(S, account), account)
           /\ filterListNetworks({}, account) = {}
<1>1. \A S : [Found(S) EXCEPT !.found = filterListNetworks(@, account)]
               = Found(filterListNetworks(S, account))
  BY DEF Found
<1>2. \A S : /\ filterListNetworks(S, account) \subseteq S
             /\ MayUse(filterListNetworks(S, account), account)
  BY DEF filterListNetworks, MayUse
<1> QED BY <1>1, <1>2

LEMMA FilteredFailure ==
    ASSUME NEW account, NEW err
    PROVE  [Failed(err) EXCEPT !.found = filterListNetworks(@, account)] = Failed(err)
<1>1. filterListNetworks({}, account) = {}
  BY FilteredIs
<1> QED BY <1>1 DEF Failed

LEMMA SearchAnswers ==
    ASSUME NEW search, IsSearch(search), NEW napi, IsAnswering(napi), NEW account
    PROVE  IsAnswer(getNetworksOrPools(search, napi, account), search, napi, account)
<1> DEFINE a == List_(search, "networks", napi)
           b == ListFiltered(search, "networks", napi)
           c == List_(search, "pools", napi)
           d == ListFiltered(search, "pools", napi)
           said == IF a.err # "next" THEN a ELSE IF b.err # "next" THEN b
                     ELSE IF c.err # "next" THEN c ELSE IF d.err # "next" THEN d
                     ELSE Found({})
           r == getNetworksOrPools(search, napi, account)
           all == Suiting(search, Things(napi))
<1>1. r = [said EXCEPT !.found = filterListNetworks(@, account)]
  BY SearchIs
<1>2. \A x \in {a, b, c, d} : \/ x = Next_ \/ x = Failed("500") \/ x = Failed("thrown")
                             \/ \E S \in SUBSET all : x = Found(S)
  <2>1. \A things \in {napi.networks, napi.pools} : Suiting(search, things) \subseteq all
    BY DEF Suiting, Things
  <2>2. /\ IsAttempt(a, search, napi.networks) /\ IsAttempt(b, search, napi.networks)
        /\ IsAttempt(c, search, napi.pools) /\ IsAttempt(d, search, napi.pools)
    BY AttemptIs, KindsAre
  <2> HIDE DEF a, b, c, d, all
  <2> QED BY <2>1, <2>2 DEF IsAttempt
<1> HIDE DEF a, b, c, d, r, all
<1>3. said \in {a, b, c, d, Found({})} /\ (said = Found({}) \/ said.err # "next")
  OBVIOUS
<1>4. \/ said = Failed("500") \/ said = Failed("thrown")
      \/ \E S \in SUBSET all : said = Found(S)
  <2>1. said # Next_
    BY <1>3, AnswersDiffer
  <2> HIDE DEF said
  <2> QED BY <1>2, <1>3, <2>1
<1> HIDE DEF said
<1>5. CASE said = Failed("500") \/ said = Failed("thrown")
  <2>1. r = said
    BY <1>1, <1>5, FilteredFailure
  <2> QED BY <1>5, <2>1 DEF IsAnswer, r
<1>6. CASE \E S \in SUBSET all : said = Found(S)
  <2>1. PICK S \in SUBSET all : said = Found(S)
    BY <1>6
  <2> DEFINE T == filterListNetworks(S, account)
  <2>2. r = Found(T) /\ T \in SUBSET all /\ MayUse(T, account)
    BY <1>1, <2>1, FilteredIs
  <2> HIDE DEF T
  <2> QED BY <2>2 DEF IsAnswer, r, all
<1> QED BY <1>4, <1>5, <1>6

(* When NAPI answers, a search finds all the networks that suit it, or all *)
(* the pools if no network does.                                           *)
LEMMA SearchFinds ==
    ASSUME NEW search, IsSearch(search), NEW napi, AnswersAll(napi), NEW account
    PROVE  getNetworksOrPools(search, napi, account) =
             Found(filterListNetworks(
                 NetworkOrPool(Suiting(search, Things(napi)), napi), account))
<1> DEFINE a == List_(search, "networks", napi)
           b == ListFiltered(search, "networks", napi)
           c == List_(search, "pools", napi)
           d == ListFiltered(search, "pools", napi)
           said == IF a.err # "next" THEN a ELSE IF b.err # "next" THEN b
                     ELSE IF c.err # "next" THEN c ELSE IF d.err # "next" THEN d
                     ELSE Found({})
           N == Suiting(search, napi.networks)
           P == Suiting(search, napi.pools)
           S == NetworkOrPool(Suiting(search, Things(napi)), napi)
<1>1. getNetworksOrPools(search, napi, account)
        = [said EXCEPT !.found = filterListNetworks(@, account)]
  BY SearchIs
<1>2. /\ N = {} => a = Next_ /\ b = Next_
      /\ N # {} => a = Found(N) \/ (a = Next_ /\ b = Found(N))
  BY AttemptsFind, KindsAre
<1>3. /\ P = {} => c = Next_ /\ d = Next_
      /\ P # {} => c = Found(P) \/ (c = Next_ /\ d = Found(P))
  BY AttemptsFind, KindsAre
<1>4. S = IF N # {} THEN N ELSE P
  BY DEF NetworkOrPool, Suiting, Things
<1> HIDE DEF a, b, c, d, N, P, S
<1>5. said = Found(S)
  <2>1. CASE N # {}
    BY <1>2, <1>4, <2>1, AnswersDiffer
  <2>2. CASE N = {} /\ P # {}
    BY <1>2, <1>3, <1>4, <2>2, AnswersDiffer
  <2>3. CASE N = {} /\ P = {}
    BY <1>2, <1>3, <1>4, <2>3, AnswersDiffer
  <2> QED BY <2>1, <2>2, <2>3
<1> HIDE DEF said
<1> QED BY <1>1, <1>5, FilteredIs DEF S

-----------------------------------------------------------------------------
(* The words for a network.                                                *)
LEMMA ExactIs ==
    ASSUME NEW name \in Text_, NEW u \in Text_, Len(u) = UuidLength
    PROVE  CanBeExactId(name) /\ u = Head_(name, UuidLength) <=> u \o u = name
<1>1. UuidLength \in Nat \ {0} /\ Len(name) \in Nat
  BY NamesAssumption, TextHasLength
<1> DEFINE h == Head_(name, UuidLength)
           t == Tail_(name, UuidLength)
           uu == u \o u
<1>2. /\ h \in Text_ /\ Len(h) = (IF UuidLength < Len(name) THEN UuidLength ELSE Len(name))
      /\ \A i \in 1 .. Len(h) : h[i] = name[i]
  BY <1>1, HeadIs
<1>3. /\ t \in Text_ /\ Len(t) = (IF UuidLength < Len(name) THEN Len(name) - UuidLength ELSE 0)
      /\ \A i \in 1 .. Len(t) : t[i] = name[UuidLength + i]
  BY <1>1, TailIs
<1>4. /\ uu \in Text_ /\ Len(uu) = UuidLength + UuidLength
      /\ \A i \in 1 .. UuidLength : uu[i] = u[i] /\ uu[UuidLength + i] = u[i]
  <2>1. /\ uu \in Text_ /\ Len(uu) = Len(u) + Len(u)
        /\ \A i \in 1 .. Len(u) : uu[i] = u[i]
        /\ \A i \in 1 .. Len(u) : uu[Len(u) + i] = u[i]
    BY JoinedIs
  <2> HIDE DEF uu
  <2> QED BY <2>1
<1>5. CanBeExactId(name) <=> h = t
  BY DEF CanBeExactId
<1> HIDE DEF h, t, uu
<1>6. ASSUME h = t, u = h PROVE uu = name
  <2>1. Len(name) = UuidLength + UuidLength
    BY <1>1, <1>2, <1>3, <1>6
  <2>2. ASSUME NEW i \in 1 .. Len(uu) PROVE uu[i] = name[i]
    <3>1. CASE i <= UuidLength
      <4>1. i \in 1 .. UuidLength /\ i \in 1 .. Len(h)
        BY <1>1, <1>2, <1>4, <2>1, <3>1
      <4> QED BY <1>2, <1>4, <1>6, <4>1
    <3>2. CASE ~(i <= UuidLength)
      <4>1. PICK j \in 1 .. UuidLength : i = UuidLength + j
        <5>1. i - UuidLength \in 1 .. UuidLength /\ i = UuidLength + (i - UuidLength)
          BY <1>1, <1>4, <3>2
        <5> QED BY <5>1
      <4>2. uu[i] = u[j] /\ j \in 1 .. Len(t)
        BY <1>1, <1>3, <1>4, <2>1, <4>1
      <4> QED BY <1>3, <1>6, <4>1, <4>2
    <3> QED BY <3>1, <3>2
  <2> QED BY <1>4, <2>1, <2>2, SameText
<1>7. ASSUME uu = name PROVE h = t /\ u = h
  <2>1. Len(h) = UuidLength /\ Len(t) = UuidLength
    BY <1>1, <1>2, <1>3, <1>4, <1>7
  <2>2. \A i \in 1 .. UuidLength : h[i] = u[i] /\ t[i] = u[i]
    BY <1>2, <1>3, <1>4, <1>7, <2>1
  <2> QED BY <1>2, <1>3, <2>1, <2>2, SameText
<1> QED BY <1>5, <1>6, <1>7 DEF h, t, uu

(* The code takes a word for part of an id by its halves.                  *)
LEMMA PartIs ==
    ASSUME NEW name \in Text_, NEW u \in Text_, IsUUID(u)
    PROVE  CanBePartialId(name) /\ IsPrefix(Head_(name, UuidLength), u)
             <=> Len(name) < 2 * UuidLength - 1 /\ IsPrefix(name, u \o u)
<1>1. /\ UuidLength \in Nat \ {0} /\ Len(name) \in Nat /\ Len(u) = UuidLength
      /\ UuidLength - 1 \in Nat
  BY NamesAssumption, TextHasLength DEF IsUUID
<1>2. \A i \in 1 .. UuidLength : u[i] \in HexDigits
  <2>1. ToSet(u) \subseteq HexDigits /\ DOMAIN u = 1 .. UuidLength
    BY <1>1 DEF IsUUID, IsHex, Text_
  <2> QED BY <2>1 DEF ToSet
<1> DEFINE h == Head_(name, UuidLength)
           first == Head_(name, UuidLength - 1)
           second == Tail_(name, UuidLength)
           uu == u \o u
           N == Len(name)
<1>3. /\ h \in Text_ /\ Len(h) = (IF UuidLength < N THEN UuidLength ELSE N)
      /\ \A i \in 1 .. Len(h) : h[i] = name[i]
  BY <1>1, HeadIs
<1>4. /\ first \in Text_ /\ Len(first) = (IF UuidLength - 1 < N THEN UuidLength - 1 ELSE N)
      /\ \A i \in 1 .. Len(first) : first[i] = name[i]
  BY <1>1, HeadIs
<1>5. /\ second \in Text_ /\ Len(second) = (IF UuidLength < N THEN N - UuidLength ELSE 0)
      /\ \A i \in 1 .. Len(second) : second[i] = name[UuidLength + i]
  BY <1>1, TailIs
<1>6. /\ uu \in Text_ /\ Len(uu) = UuidLength + UuidLength
      /\ \A i \in 1 .. UuidLength : uu[i] = u[i] /\ uu[UuidLength + i] = u[i]
  <2>1. /\ uu \in Text_ /\ Len(uu) = Len(u) + Len(u)
        /\ \A i \in 1 .. Len(u) : uu[i] = u[i]
        /\ \A i \in 1 .. Len(u) : uu[Len(u) + i] = u[i]
    BY JoinedIs
  <2> HIDE DEF uu
  <2> QED BY <1>1, <2>1
<1>7. CanBePartialId(name) <=>
        IsHex(name) /\ (N >= UuidLength => Len(second) < Len(first) /\ IsPrefix(second, first))
  BY DEF CanBePartialId
<1>8. IsHex(name) <=> \A i \in 1 .. N : name[i] \in HexDigits
  <2>1. DOMAIN name = 1 .. N
    BY DEF Text_
  <2> QED BY <2>1 DEF IsHex, ToSet
<1> HIDE DEF h, first, second, uu, N
<1>9. IsPrefix(h, u) <=> \A i \in 1 .. Len(h) : h[i] = u[i]
  <2>1. Len(h) <= Len(u)
    BY <1>1, <1>3 DEF N
  <2> QED BY <1>3, <2>1, PrefixIs
<1>10. IsPrefix(second, first) <=> /\ Len(second) <= Len(first)
                                   /\ \A i \in 1 .. Len(second) : second[i] = first[i]
  BY <1>4, <1>5, PrefixIs
<1>11. IsPrefix(name, uu) <=> N <= Len(uu) /\ \A i \in 1 .. N : name[i] = uu[i]
  BY <1>6, PrefixIs DEF N
<1>12. N \in Nat
  BY <1>1 DEF N
<1>13. ASSUME CanBePartialId(name), IsPrefix(h, u)
       PROVE  N < 2 * UuidLength - 1 /\ IsPrefix(name, uu)
  <2>1. N < 2 * UuidLength - 1
    <3>1. CASE N < UuidLength
      BY <1>1, <1>12, <3>1
    <3>2. CASE ~(N < UuidLength)
      <4>1. Len(second) < UuidLength - 1
        BY <1>1, <1>4, <1>7, <1>12, <1>13, <3>2
      <4> QED BY <1>1, <1>5, <1>12, <3>2, <4>1
    <3> QED BY <3>1, <3>2
  <2>2. ASSUME NEW i \in 1 .. N PROVE name[i] = uu[i]
    <3>1. CASE i <= UuidLength
      <4>1. i \in 1 .. Len(h) /\ i \in 1 .. UuidLength
        BY <1>1, <1>3, <1>12, <3>1
      <4> QED BY <1>3, <1>6, <1>9, <1>13, <4>1
    <3>2. CASE ~(i <= UuidLength)
      <4>1. PICK j \in 1 .. Len(second) : i = UuidLength + j
        <5>1. i - UuidLength \in 1 .. Len(second) /\ i = UuidLength + (i - UuidLength)
          BY <1>1, <1>5, <1>12, <3>2
        <5> QED BY <5>1
      <4>2. /\ Len(second) < Len(first) /\ second[j] = first[j] /\ j \in 1 .. Len(first)
            /\ j \in 1 .. UuidLength
        BY <1>1, <1>4, <1>5, <1>7, <1>10, <1>12, <1>13, <3>2, <4>1
      <4>3. first[j] = name[j] /\ j \in 1 .. Len(h)
        BY <1>1, <1>3, <1>4, <1>12, <3>2, <4>2
      <4>4. name[j] = u[j]
        BY <1>3, <1>9, <1>13, <4>3
      <4> QED BY <1>5, <1>6, <4>1, <4>2, <4>3, <4>4
    <3> QED BY <3>1, <3>2
  <2> QED BY <1>1, <1>6, <1>11, <1>12, <2>1, <2>2
<1>14. ASSUME N < 2 * UuidLength - 1, IsPrefix(name, uu)
       PROVE  CanBePartialId(name) /\ IsPrefix(h, u)
  <2>1. \A i \in 1 .. N : name[i] = uu[i]
    BY <1>11, <1>14
  <2>2. IsPrefix(h, u)
    <3>1. ASSUME NEW i \in 1 .. Len(h) PROVE h[i] = u[i]
      <4>1. i \in 1 .. N /\ i \in 1 .. UuidLength
        BY <1>1, <1>3, <1>12
      <4> QED BY <1>3, <1>6, <2>1, <4>1
    <3> QED BY <1>9, <3>1
  <2>3. ASSUME NEW i \in 1 .. N PROVE name[i] \in HexDigits
    <3>1. CASE i <= UuidLength
      BY <1>1, <1>2, <1>6, <1>12, <2>1, <3>1
    <3>2. CASE ~(i <= UuidLength)
      <4>1. PICK j \in 1 .. UuidLength : i = UuidLength + j
        <5>1. i - UuidLength \in 1 .. UuidLength /\ i = UuidLength + (i - UuidLength)
          BY <1>1, <1>12, <1>14, <3>2
        <5> QED BY <5>1
      <4> QED BY <1>2, <1>6, <2>1, <4>1
    <3> QED BY <3>1, <3>2
  <2>4. ASSUME N >= UuidLength PROVE Len(second) < Len(first) /\ IsPrefix(second, first)
    <3>1. Len(second) < Len(first) /\ Len(first) = UuidLength - 1
      BY <1>1, <1>4, <1>5, <1>12, <1>14, <2>4
    <3>2. ASSUME NEW i \in 1 .. Len(second) PROVE second[i] = first[i]
      <4>1. /\ UuidLength + i \in 1 .. N /\ i \in 1 .. UuidLength /\ i \in 1 .. N
            /\ i \in 1 .. Len(first)
        BY <1>1, <1>4, <1>5, <1>12, <2>4, <3>1
      <4>2. name[UuidLength + i] = u[i] /\ name[i] = u[i]
        BY <1>6, <2>1, <4>1
      <4> QED BY <1>4, <1>5, <4>1, <4>2
    <3> QED BY <1>4, <1>5, <1>10, <1>12, <3>1, <3>2
  <2> QED BY <1>7, <1>8, <2>2, <2>3, <2>4
<1> QED BY <1>13, <1>14 DEF h, uu, N

-----------------------------------------------------------------------------
(* The three searches of a word.                                           *)
LEMMA UuidOf ==
    ASSUME NEW napi, IsNapi(napi), NEW n \in Things(napi)
    PROVE  n.uuid \in Text_ /\ IsUUID(n.uuid) /\ Len(n.uuid) = UuidLength
  BY DEF IsNapi, HaveUuids, Things, IsUUID

LEMMA SearchesAre ==
    ASSUME NEW text
    PROVE  IsSearch(ByName(text)) /\ IsSearch(ByUuid(text)) /\ IsSearch(ByPrefix(text))
  BY DEF IsSearch, ByName, ByUuid, ByPrefix

LEMMA SuitingIs ==
    ASSUME NEW text, NEW things
    PROVE  /\ Suiting(ByName(text), things) = {n \in things : n.name = text}
           /\ Suiting(ByUuid(text), things) = {n \in things : n.uuid = text}
           /\ Suiting(ByPrefix(text), things) = {n \in things : IsPrefix(text, n.uuid)}
  BY DEF Suiting, Suits, ByName, ByUuid, ByPrefix

(* Whatever NAPI answers, what is decided is a failure or one thing that   *)
(* the account may use.                                                    *)
IsOne(r, napi, account) ==
    \/ \E err \in {"500", "thrown", "ambiguous", "not found"} : r = Failed(err)
    \/ \E n \in Things(napi) : r = Found({n}) /\ MayUse({n}, account)

IsChoosable(op, napi, account) ==
    \/ op = Failed("500") \/ op = Failed("thrown")
    \/ \E S \in SUBSET Things(napi) : op = Found(S) /\ MayUse(S, account)

LEMMA SearchesChoosable ==
    ASSUME NEW name, NEW napi, IsNapi(napi), NEW account
    PROVE  \E a, b, c : /\ Searches(name, napi, account) = <<a, b, c>>
                        /\ IsChoosable(a, napi, account)
                        /\ IsChoosable(b, napi, account)
                        /\ IsChoosable(c, napi, account)
<1> DEFINE id == shortNetworkIdToUuidPrefix(name)
           exact == getNetworksOrPools(ByUuid(id), napi, account)
           named == getNetworksOrPools(ByName(name), napi, account)
           part == getNetworksOrPools(ByPrefix(id), napi, account)
           a == IF CanBeExactId(name) THEN exact ELSE Found({})
           c == IF CanBePartialId(name) THEN part ELSE Found({})
<1>1. IsAnswering(napi)
  BY DEF IsNapi, IsAnswering
<1>2. ASSUME NEW search, IsSearch(search)
      PROVE  IsChoosable(getNetworksOrPools(search, napi, account), napi, account)
  <2>1. IsAnswer(getNetworksOrPools(search, napi, account), search, napi, account)
    BY <1>1, <1>2, SearchAnswers
  <2>2. Suiting(search, Things(napi)) \subseteq Things(napi)
    BY DEF Suiting
  <2> QED BY <2>1, <2>2 DEF IsAnswer, IsChoosable
<1>3. IsChoosable(exact, napi, account) /\ IsChoosable(named, napi, account)
      /\ IsChoosable(part, napi, account)
  BY <1>2, SearchesAre
<1>4. IsChoosable(Found({}), napi, account)
  BY DEF IsChoosable, MayUse
<1>5. Searches(name, napi, account) = <<a, named, c>>
  BY DEF Searches
<1> HIDE DEF exact, named, part
<1> QED BY <1>3, <1>4, <1>5

LEMMA ChoiceIs ==
    ASSUME NEW napi, IsNapi(napi), NEW account, NEW op, IsChoosable(op, napi, account),
           op # Found({}), op.err # "thrown"
    PROVE  IsOne(Choice(op), napi, account)
<1>1. CASE op = Failed("500")
  BY <1>1, AnswersDiffer DEF Choice, IsOne
<1>2. CASE \E S \in SUBSET Things(napi) : op = Found(S) /\ MayUse(S, account)
  <2>1. PICK S \in SUBSET Things(napi) : op = Found(S) /\ MayUse(S, account)
    BY <1>2
  <2>2. IsFiniteSet(S) /\ S # {}
    BY <2>1, FS_Subset DEF IsNapi, HaveUuids, Things
  <2>3. Cardinality(S) \in Nat /\ Cardinality(S) # 0
    BY <2>2, FS_CardinalityType, FS_EmptySet
  <2>4. Choice(op) = IF Cardinality(S) > 1 THEN Failed("ambiguous") ELSE Found(S)
    BY <2>1, AnswersDiffer DEF Choice
  <2>5. CASE Cardinality(S) > 1
    BY <2>4, <2>5 DEF IsOne
  <2>6. CASE ~(Cardinality(S) > 1)
    <3>1. PICK n : S = {n}
      BY <2>2, <2>3, <2>6, OneOf
    <3> QED BY <2>1, <2>4, <2>6, <3>1 DEF IsOne
  <2> QED BY <2>5, <2>6
<1>3. op # Failed("thrown")
  BY AnswersDiffer
<1> QED BY <1>1, <1>2, <1>3 DEF IsChoosable

LEMMA OneIsFound ==
    ASSUME NEW name, NEW napi, IsNapi(napi), NEW account
    PROVE  IsOne(findNetworkOrPoolByNameOrId(name, napi, account), napi, account)
<1>1. PICK a, b, c : /\ Searches(name, napi, account) = <<a, b, c>>
                     /\ IsChoosable(a, napi, account)
                     /\ IsChoosable(b, napi, account)
                     /\ IsChoosable(c, napi, account)
  BY SearchesChoosable
<1> DEFINE ops == <<a, b, c>>
           r == findNetworkOrPoolByNameOrId(name, napi, account)
<1>2. DOMAIN ops = {1, 2, 3} /\ ops[1] = a /\ ops[2] = b /\ ops[3] = c
  OBVIOUS
<1>3. r = IF \E i \in DOMAIN ops : ops[i].err = "thrown" THEN Failed("thrown")
          ELSE IF \A i \in DOMAIN ops : ops[i] = Found({}) THEN Failed("not found")
          ELSE Choice(FirstDecided(ops))
  BY <1>1 DEF findNetworkOrPoolByNameOrId
<1>4. CASE (\E i \in DOMAIN ops : ops[i].err = "thrown") \/ (\A i \in DOMAIN ops : ops[i] = Found({}))
  <2> HIDE DEF ops, r
  <2> QED BY <1>3, <1>4 DEF IsOne, r
<1>5. CASE ~(\E i \in DOMAIN ops : ops[i].err = "thrown") /\ ~(\A i \in DOMAIN ops : ops[i] = Found({}))
  <2> DEFINE op == IF a # Found({}) THEN a ELSE IF b # Found({}) THEN b ELSE c
  <2>1. /\ a.err # "thrown" /\ b.err # "thrown" /\ c.err # "thrown"
        /\ a # Found({}) \/ b # Found({}) \/ c # Found({})
    BY <1>2, <1>5
  <2>2. FirstDecided(ops) = op
    BY <2>1, FirstDecidedIs
  <2>3. op # Found({}) /\ op.err # "thrown" /\ IsChoosable(op, napi, account)
    BY <1>1, <2>1
  <2> HIDE DEF op, ops
  <2>4. r = Choice(op)
    BY <1>3, <1>5, <2>2
  <2> QED BY <2>3, <2>4, ChoiceIs DEF r
<1> QED BY <1>4, <1>5

(* When NAPI answers, the three searches find what the word means: by the  *)
(* whole id, by name, by a part of the id.                                 *)
Picked(S, napi, account) == filterListNetworks(NetworkOrPool(S, napi), account)
ByWholeId(name, napi) == {n \in Things(napi) : networkUuidToDockerId(n.uuid) = name}
ByItsName(name, napi) == {n \in Things(napi) : n.name = name}
ByPartOfId(name, napi) ==
    {n \in Things(napi) : /\ Len(name) < 2 * UuidLength - 1
                          /\ IsPrefix(name, networkUuidToDockerId(n.uuid))}

LEMMA PickedNone == \A napi, account : Picked({}, napi, account) = {}
  BY FilteredIs DEF Picked, NetworkOrPool

LEMMA SearchesFind ==
    ASSUME NEW name \in Text_, NEW napi, IsNapi(napi), AnswersAll(napi), NEW account
    PROVE  Searches(name, napi, account) =
             <<Found(Picked(ByWholeId(name, napi), napi, account)),
               Found(Picked(ByItsName(name, napi), napi, account)),
               Found(Picked(ByPartOfId(name, napi), napi, account))>>
<1> DEFINE id == shortNetworkIdToUuidPrefix(name)
           exact == getNetworksOrPools(ByUuid(id), napi, account)
           named == getNetworksOrPools(ByName(name), napi, account)
           part == getNetworksOrPools(ByPrefix(id), napi, account)
           a == IF CanBeExactId(name) THEN exact ELSE Found({})
           c == IF CanBePartialId(name) THEN part ELSE Found({})
<1>1. ASSUME NEW search, IsSearch(search)
      PROVE  getNetworksOrPools(search, napi, account)
               = Found(Picked(Suiting(search, Things(napi)), napi, account))
  BY <1>1, SearchFinds DEF Picked
<1>2. /\ exact = Found(Picked({n \in Things(napi) : n.uuid = id}, napi, account))
      /\ named = Found(Picked({n \in Things(napi) : n.name = name}, napi, account))
      /\ part = Found(Picked({n \in Things(napi) : IsPrefix(id, n.uuid)}, napi, account))
  <2>1. ASSUME NEW text
        PROVE  /\ getNetworksOrPools(ByUuid(text), napi, account)
                    = Found(Picked(Suiting(ByUuid(text), Things(napi)), napi, account))
               /\ getNetworksOrPools(ByName(text), napi, account)
                    = Found(Picked(Suiting(ByName(text), Things(napi)), napi, account))
               /\ getNetworksOrPools(ByPrefix(text), napi, account)
                    = Found(Picked(Suiting(ByPrefix(text), Things(napi)), napi, account))
    BY <1>1, SearchesAre
  <2> HIDE DEF id
  <2>2. /\ Suiting(ByUuid(id), Things(napi)) = {n \in Things(napi) : n.uuid = id}
        /\ Suiting(ByName(name), Things(napi)) = {n \in Things(napi) : n.name = name}
        /\ Suiting(ByPrefix(id), Things(napi)) = {n \in Things(napi) : IsPrefix(id, n.uuid)}
    BY SuitingIs
  <2>3. /\ exact = Found(Picked(Suiting(ByUuid(id), Things(napi)), napi, account))
        /\ named = Found(Picked(Suiting(ByName(name), Things(napi)), napi, account))
        /\ part = Found(Picked(Suiting(ByPrefix(id), Things(napi)), napi, account))
    BY <2>1
  <2> QED BY <2>2, <2>3
<1>3. id = Head_(name, UuidLength)
  BY DEF shortNetworkIdToUuidPrefix
<1>4. Searches(name, napi, account) = <<a, named, c>>
  BY DEF Searches
<1> HIDE DEF exact, named, part, id
<1>5. ByWholeId(name, napi)
        = IF CanBeExactId(name) THEN {n \in Things(napi) : n.uuid = id} ELSE {}
  <2>1. \A n \in Things(napi) :
          CanBeExactId(name) /\ n.uuid = id <=> networkUuidToDockerId(n.uuid) = name
    BY <1>3, UuidOf, ExactIs DEF networkUuidToDockerId
  <2> QED BY <2>1 DEF ByWholeId
<1>6. ByPartOfId(name, napi)
        = IF CanBePartialId(name) THEN {n \in Things(napi) : IsPrefix(id, n.uuid)} ELSE {}
  <2>1. \A n \in Things(napi) :
          CanBePartialId(name) /\ IsPrefix(id, n.uuid)
            <=> Len(name) < 2 * UuidLength - 1 /\ IsPrefix(name, networkUuidToDockerId(n.uuid))
    BY <1>3, UuidOf, PartIs DEF networkUuidToDockerId
  <2> QED BY <2>1 DEF ByPartOfId
<1>7. a = Found(Picked(ByWholeId(name, napi), napi, account))
  BY <1>2, <1>5, PickedNone
<1>8. c = Found(Picked(ByPartOfId(name, napi), napi, account))
  BY <1>2, <1>6, PickedNone
<1> HIDE DEF a, c
<1> QED BY <1>2, <1>4, <1>7, <1>8 DEF ByItsName

LEMMA FoundNothing == \A S : Found(S) = Found({}) <=> S = {}
  BY AnswersDiffer

LEMMA MeantIsFound ==
    ASSUME NEW name \in Text_, NEW napi, IsNapi(napi), AnswersAll(napi), NEW account
    PROVE  LET e == Picked(ByWholeId(name, napi), napi, account)
               n == Picked(ByItsName(name, napi), napi, account)
               p == Picked(ByPartOfId(name, napi), napi, account)
               S == IF e # {} THEN e ELSE IF n # {} THEN n ELSE p IN
           findNetworkOrPoolByNameOrId(name, napi, account)
             = IF S = {} THEN Failed("not found") ELSE Choice(Found(S))
<1> DEFINE e == Picked(ByWholeId(name, napi), napi, account)
           n == Picked(ByItsName(name, napi), napi, account)
           p == Picked(ByPartOfId(name, napi), napi, account)
           S == IF e # {} THEN e ELSE IF n # {} THEN n ELSE p
           ops == <<Found(e), Found(n), Found(p)>>
           r == findNetworkOrPoolByNameOrId(name, napi, account)
<1>1. Searches(name, napi, account) = ops
  BY SearchesFind
<1> HIDE DEF e, n, p, r
<1>2. DOMAIN ops = {1, 2, 3} /\ ops[1] = Found(e) /\ ops[2] = Found(n) /\ ops[3] = Found(p)
  OBVIOUS
<1>3. r = IF \E i \in DOMAIN ops : ops[i].err = "thrown" THEN Failed("thrown")
          ELSE IF \A i \in DOMAIN ops : ops[i] = Found({}) THEN Failed("not found")
          ELSE Choice(FirstDecided(ops))
  BY <1>1 DEF findNetworkOrPoolByNameOrId, r
<1>4. ~\E i \in DOMAIN ops : ops[i].err = "thrown"
  BY <1>2, AnswersDiffer
<1>5. CASE S = {}
  <2>1. \A i \in DOMAIN ops : ops[i] = Found({})
    BY <1>2, <1>5
  <2> HIDE DEF ops, S
  <2> QED BY <1>3, <1>4, <1>5, <2>1 DEF r, S, e, n, p
<1>6. CASE S # {}
  <2>1. Found(e) # Found({}) \/ Found(n) # Found({}) \/ Found(p) # Found({})
    BY <1>6, FoundNothing
  <2>2. FirstDecided(ops) = Found(S)
    BY <2>1, FirstDecidedIs, FoundNothing
  <2>3. ~\A i \in DOMAIN ops : ops[i] = Found({})
    BY <1>2, <2>1
  <2> HIDE DEF ops, S
  <2> QED BY <1>3, <1>4, <1>6, <2>2, <2>3 DEF r, S, e, n, p
<1> QED BY <1>5, <1>6 DEF r, e, n, p

-----------------------------------------------------------------------------
(* What is asked about networks.                                           *)
LEMMA ChoiceOfFound ==
    ASSUME NEW S, IsFiniteSet(S)
    PROVE  /\ Cardinality(S) = 1 => Choice(Found(S)) = Found(S)
           /\ Cardinality(S) > 1 => Choice(Found(S)) = Failed("ambiguous")
  BY AnswersDiffer DEF Choice

LEMMA NetworkFound ==
    ASSUME NEW q \in NetworkQuestions
    PROVE  NetworkAsAsked(q, findNetworkOrPoolByNameOrId(q.name, q.napi, q.account))
<1> DEFINE name == q.name
           napi == q.napi
           r == findNetworkOrPoolByNameOrId(name, napi, q.account)
           preferred == Preferred(name, napi)
<1>0. 0 <= 1
  OBVIOUS
<1>1. name \in Text_ /\ IsNapi(napi)
  BY LookupAssumption
<1>2. IsOne(r, napi, q.account)
  BY <1>1, OneIsFound
<1> HIDE DEF r
<1>3. /\ Cardinality(r.found) <= 1 /\ (r.found = {} <=> r.err # "none")
      /\ \A n \in r.found : q.account.restricted => n.owned
  <2>1. CASE \E err \in {"500", "thrown", "ambiguous", "not found"} : r = Failed(err)
    <3>1. PICK err \in {"500", "thrown", "ambiguous", "not found"} : r = Failed(err)
      BY <2>1
    <3>2. r.found = {} /\ r.err # "none"
      BY <3>1, AnswersDiffer
    <3>3. Cardinality(r.found) = 0
      BY <3>2, FS_EmptySet
    <3>4. Cardinality(r.found) <= 1
      BY <1>0, <3>3, Zenon
    <3> HIDE DEF name, napi
    <3> QED BY <3>2, <3>4, Zenon
  <2>2. CASE \E n \in Things(napi) : r = Found({n}) /\ MayUse({n}, q.account)
    <3>1. PICK n \in Things(napi) : r = Found({n}) /\ MayUse({n}, q.account)
      BY <2>2
    <3>2. Cardinality({n}) = 1
      BY FS_Singleton
    <3> QED BY <3>1, <3>2, AnswersDiffer DEF MayUse
  <2> QED BY <1>2, <2>1, <2>2 DEF IsOne
<1>4. ASSUME AnswersAll(napi), ~q.account.restricted
      PROVE  /\ Cardinality(preferred) = 1 => r.found = preferred
             /\ Cardinality(preferred) > 1 => r.err = "ambiguous"
             /\ preferred = {} => r.err = "not found"
  <2> DEFINE e == NetworkOrPool(ByWholeId(name, napi), napi)
             n == NetworkOrPool(ByItsName(name, napi), napi)
             p == NetworkOrPool(ByPartOfId(name, napi), napi)
  <2>1. preferred = IF e # {} THEN e ELSE IF n # {} THEN n ELSE p
    BY DEF Preferred, ByWholeId, ByItsName, ByPartOfId, Things
  <2>2. \A S : Picked(S, napi, q.account) = NetworkOrPool(S, napi)
    BY <1>4 DEF Picked, filterListNetworks
  <2>3. r = IF preferred = {} THEN Failed("not found") ELSE Choice(Found(preferred))
    <3> DEFINE e2 == Picked(ByWholeId(name, napi), napi, q.account)
               n2 == Picked(ByItsName(name, napi), napi, q.account)
               p2 == Picked(ByPartOfId(name, napi), napi, q.account)
               S == IF e2 # {} THEN e2 ELSE IF n2 # {} THEN n2 ELSE p2
    <3>1. r = IF S = {} THEN Failed("not found") ELSE Choice(Found(S))
      <4> HIDE DEF name, napi
      <4> QED BY <1>1, <1>4, MeantIsFound DEF r
    <3>2. e2 = e /\ n2 = n /\ p2 = p
      BY <2>2
    <3> HIDE DEF e, n, p, e2, n2, p2, preferred
    <3> QED BY <2>1, <3>1, <3>2
  <2>4. IsFiniteSet(preferred)
    <3>1. IsFiniteSet(Things(napi))
      BY <1>1 DEF IsNapi, HaveUuids, Things
    <3>2. \A S \in SUBSET Things(napi) : NetworkOrPool(S, napi) \subseteq Things(napi)
      BY DEF NetworkOrPool
    <3>3. /\ ByWholeId(name, napi) \subseteq Things(napi)
          /\ ByItsName(name, napi) \subseteq Things(napi)
          /\ ByPartOfId(name, napi) \subseteq Things(napi)
      BY DEF ByWholeId, ByItsName, ByPartOfId
    <3>4. preferred \subseteq Things(napi)
      BY <2>1, <3>2, <3>3
    <3> QED BY <3>1, <3>4, FS_Subset
  <2> HIDE DEF preferred, e, n, p
  <2>5. preferred = {} => Cardinality(preferred) = 0
    BY FS_EmptySet
  <2>6. ASSUME Cardinality(preferred) = 1 PROVE r.found = preferred
    <3>1. preferred # {}
      BY <2>5, <2>6
    <3>2. Choice(Found(preferred)) = Found(preferred)
      BY <2>4, <2>6, ChoiceOfFound
    <3>3. r = Found(preferred)
      BY <2>3, <3>1, <3>2, Zenon
    <3> QED BY <3>3, AnswersDiffer
  <2>7. ASSUME Cardinality(preferred) > 1 PROVE r.err = "ambiguous"
    <3>1. preferred # {}
      BY <2>5, <2>7
    <3>2. Choice(Found(preferred)) = Failed("ambiguous")
      BY <2>4, <2>7, ChoiceOfFound
    <3>3. r = Failed("ambiguous")
      BY <2>3, <3>1, <3>2, Zenon
    <3> QED BY <3>3, AnswersDiffer
  <2>8. ASSUME preferred = {} PROVE r.err = "not found"
    BY <2>3, <2>8, AnswersDiffer
  <2> QED BY <2>6, <2>7, <2>8
<1>5. NetworkAsAsked(q, r)
  <2> HIDE DEF name, napi
  <2> QED BY <1>3, <1>4 DEF NetworkAsAsked, preferred, name, napi
<1> QED BY <1>5 DEF r

(* The list of an account.                                                 *)
LEMMA AccountNetworks ==
    ASSUME NEW napi, IsNapi(napi)
    PROVE  LET all == getNapiNetworksForAccount(napi)
               shown == {p \in napi.pools : p.tag # AdminTag}
               inPools == UNION {p.networks : p \in shown} IN
           \/ all.err # "none" /\ all.found = {}
           \/ AnswersAll(napi) /\ all = Found(shown \union
                 {n \in napi.networks : n.tag # AdminTag /\ n.uuid \notin inPools})
<1> DEFINE pools == NapiList(Everything, "pools", napi)
           nets == NapiList(Everything, "networks", napi)
<1>1. \A kind \in Kinds : {n \in napi[kind] : Fits(Everything, n, napi)} = napi[kind]
  BY DEF Fits, Everything
<1>2. /\ \/ napi.answers["pools"] = "ok" /\ pools = Found(napi.pools)
         \/ pools = Failed("404") \/ pools = Failed("500")
      /\ \/ napi.answers["networks"] = "ok" /\ nets = Found(napi.networks)
         \/ nets = Failed("404") \/ nets = Failed("500")
  <2>1. IsAnswering(napi)
    BY DEF IsNapi, IsAnswering
  <2>2. ASSUME NEW kind \in Kinds
        PROVE  \/ napi.answers[kind] = "ok" /\ NapiList(Everything, kind, napi) = Found(napi[kind])
               \/ NapiList(Everything, kind, napi) = Failed("404")
               \/ NapiList(Everything, kind, napi) = Failed("500")
    BY <1>1, <2>1, NapiListIs
  <2> QED BY <2>2, KindsAre
<1>3. getNapiNetworksForAccount(napi) =
        IF pools.err # "none" THEN pools ELSE IF nets.err # "none" THEN nets
        ELSE LET shown == {p \in pools.found : p.tag # AdminTag} IN
             Found(shown \union {n \in nets.found :
                 n.tag # AdminTag /\ n.uuid \notin UNION {p.networks : p \in shown}})
  BY DEF getNapiNetworksForAccount
<1> HIDE DEF pools, nets
<1>4. CASE pools.err # "none"
  BY <1>2, <1>3, <1>4, AnswersDiffer
<1>5. CASE pools.err = "none" /\ nets.err # "none"
  BY <1>2, <1>3, <1>5, AnswersDiffer
<1>6. CASE pools.err = "none" /\ nets.err = "none"
  <2>1. /\ pools.found = napi.pools /\ nets.found = napi.networks
        /\ napi.answers["pools"] = "ok" /\ napi.answers["networks"] = "ok"
    BY <1>2, <1>6, AnswersDiffer
  <2>2. AnswersAll(napi)
    BY <2>1 DEF AnswersAll, Kinds
  <2> QED BY <1>3, <1>6, <2>1, <2>2
<1> QED BY <1>4, <1>5, <1>6

LEMMA SameId ==
    ASSUME NEW napi, IsNapi(napi), NEW m \in Things(napi), NEW n \in Things(napi),
           networkUuidToDockerId(m.uuid) = networkUuidToDockerId(n.uuid)
    PROVE  m = n
<1>1. Head_(m.uuid \o m.uuid, UuidLength) = m.uuid
  BY UuidOf, HeadOfJoined
<1>2. Head_(n.uuid \o n.uuid, UuidLength) = n.uuid
  BY UuidOf, HeadOfJoined
<1>3. m.uuid = n.uuid
  BY <1>1, <1>2 DEF networkUuidToDockerId
<1> QED BY <1>3 DEF IsNapi, HaveUuids, Things

LEMMA NetworksListed ==
    ASSUME NEW q \in NetworkListQuestions
    PROVE  NetworksAsAsked(q, listNetworksForAccount(q.napi, q.account))
<1> DEFINE napi == q.napi
           account == q.account
           all == getNapiNetworksForAccount(napi)
           r == listNetworksForAccount(napi, account)
           shown == ListedNetworks(q, r)
<1>1. IsNapi(napi)
  BY LookupAssumption
<1>2. \/ all.err # "none" /\ all.found = {}
      \/ /\ AnswersAll(napi) /\ all.found \subseteq Things(napi)
         /\ \A n \in all.found :
               /\ n.tag # AdminTag
               /\ n \in napi.pools \/ \A p \in napi.pools : p.tag # AdminTag => n.uuid \notin p.networks
  <2> DEFINE some == {p \in napi.pools : p.tag # AdminTag}
             rest == {n \in napi.networks : /\ n.tag # AdminTag
                                           /\ n.uuid \notin UNION {p.networks : p \in some}}
  <2>1. \/ all.err # "none" /\ all.found = {}
        \/ AnswersAll(napi) /\ all = Found(some \union rest)
    BY <1>1, AccountNetworks
  <2>2. some \union rest \subseteq Things(napi)
    BY DEF Things
  <2>3. ASSUME NEW n \in some \union rest
        PROVE  /\ n.tag # AdminTag
               /\ n \in napi.pools \/ \A p \in napi.pools : p.tag # AdminTag => n.uuid \notin p.networks
    BY <2>3
  <2> HIDE DEF all, some, rest
  <2> QED BY <2>1, <2>2, <2>3, AnswersDiffer
<1>3. r.found = {napiNetworkToDockerNetwork(n) : n \in filterListNetworks(all.found, account)}
  <2>1. all \in [err : {all.err}, found : {all.found}]
    <3>1. \E err, S : all = [err |-> err, found |-> S]
      <4>1. \A kind : \E err, S : NapiList(Everything, kind, napi) = [err |-> err, found |-> S]
        BY DEF NapiList, Found, Failed
      <4> QED BY <4>1 DEF getNapiNetworksForAccount, Found
    <3> HIDE DEF all
    <3> QED BY <3>1
  <2> HIDE DEF all
  <2> QED BY <2>1 DEF listNetworksForAccount, all
<1>4. ASSUME NEW n \in shown
      PROVE  n \in filterListNetworks(all.found, account) /\ n \in Things(napi) /\ all.found # {}
  <2>1. n \in Things(napi) /\ \E s \in r.found : s.Id = networkUuidToDockerId(n.uuid)
    BY DEF ListedNetworks, Things
  <2> HIDE DEF shown, r, all
  <2>2. PICK m \in filterListNetworks(all.found, account) :
           networkUuidToDockerId(m.uuid) = networkUuidToDockerId(n.uuid)
    BY <1>3, <2>1 DEF napiNetworkToDockerNetwork
  <2>3. m \in all.found
    BY <2>2, FilteredIs
  <2>4. m = n
    BY <1>1, <1>2, <2>1, <2>2, <2>3, SameId
  <2> QED BY <2>1, <2>2, <2>3, <2>4
<1> HIDE DEF shown, r, all
<1>5. ASSUME NEW n \in shown
      PROVE  /\ n.tag # AdminTag /\ (account.restricted => n.owned)
             /\ \A pool \in shown \intersect napi.pools : n.uuid \notin pool.networks
             /\ findNetworkOrPoolByNameOrId(networkUuidToDockerId(n.uuid), napi, account)
                  = Found({n})
  <2>1. AnswersAll(napi) /\ n \in Things(napi)
    BY <1>2, <1>4
  <2>2. \A m \in shown : /\ m \in all.found /\ m.tag # AdminTag
                         /\ m \in napi.pools \/ \A p \in napi.pools :
                                                   p.tag # AdminTag => m.uuid \notin p.networks
    BY <1>2, <1>4, FilteredIs
  <2>3. account.restricted => n.owned
    BY <1>4, FilteredIs DEF MayUse
  <2>4. ASSUME NEW pool \in shown \intersect napi.pools PROVE n.uuid \notin pool.networks
    <3>1. CASE n \in napi.pools
      BY <1>1, <3>1 DEF IsNapi
    <3>2. CASE n \notin napi.pools
      BY <2>2, <3>2
    <3> QED BY <3>1, <3>2
  <2> DEFINE id == networkUuidToDockerId(n.uuid)
             e == Picked(ByWholeId(id, napi), napi, account)
  <2>5. id \in Text_
    BY <1>1, <2>1, UuidOf, JoinedIs DEF networkUuidToDockerId
  <2>6. ByWholeId(id, napi) = {n}
    BY <1>1, <2>1, SameId DEF ByWholeId
  <2>7. e = {n}
    <3>1. NetworkOrPool({n}, napi) = {n}
      BY DEF NetworkOrPool
    <3>2. filterListNetworks({n}, account) = {n}
      BY <2>3 DEF filterListNetworks
    <3> QED BY <2>6, <3>1, <3>2 DEF Picked
  <2> HIDE DEF id, e
  <2>8. findNetworkOrPoolByNameOrId(id, napi, account) = Choice(Found({n}))
    BY <1>1, <2>1, <2>5, <2>7, MeantIsFound DEF e
  <2>9. Choice(Found({n})) = Found({n})
    BY FS_Singleton, ChoiceOfFound
  <2> QED BY <2>2, <2>3, <2>4, <2>8, <2>9 DEF id
<1>6. NetworksAsAsked(q, r)
  BY <1>5 DEF NetworksAsAsked, shown
<1> QED BY <1>6 DEF r

-----------------------------------------------------------------------------
(* The networks of a container: the fabric one, and the external one after *)
(* it.                                                                     *)
LEMMA FabricIs ==
    ASSUME NEW c, NEW config, NEW napi, IsNapi(napi), NEW account
    PROVE  LET fabric == addFabricNetworks(c, config, napi, account) IN
           fabric.err = "none" =>
              \/ config.overlay /\ \E u : fabric.networks = <<Nic(u, TRUE)>>
              \/ ~config.overlay /\ fabric.networks = <<>>
<1> DEFINE named == findNetworkOrPoolByNameOrId(c.mode, napi, account)
           uuid == (CHOOSE n \in named.found : TRUE).uuid
           fabric == addFabricNetworks(c, config, napi, account)
           lost == "could not get default network"
           nothing == <<>>
           Only(u) == <<Nic(u, TRUE)>>
<1>1. fabric = IF ~config.overlay THEN Networks_("none", nothing)
               ELSE IF c.mode = NoText
               THEN IF config.fabric = NoText THEN Networks_(lost, nothing)
                    ELSE Networks_("none", Only(config.fabric))
               ELSE IF named.err # "none" THEN Networks_(named.err, nothing)
               ELSE Networks_("none", Only(uuid))
  BY DEF addFabricNetworks
<1>2. lost # "none"
  OBVIOUS
<1>3. \A err, nics : Networks_(err, nics).err = err /\ Networks_(err, nics).networks = nics
  BY DEF Networks_
<1> HIDE DEF fabric, named, uuid, lost, nothing, Only
<1>4. ~config.overlay => fabric.networks = nothing
  BY <1>1, <1>3
<1>5. config.overlay /\ fabric.err = "none" => \E u : fabric.networks = Only(u)
  BY <1>1, <1>2, <1>3
<1> QED BY <1>4, <1>5, Zenon DEF fabric, nothing, Only

(* The network an account owns: one of its own, or none for an account     *)
(* that may use those of others.                                           *)
LEMMA OwnIs ==
    ASSUME NEW napi, IsNapi(napi), NEW account
    PROVE  LET own == findOwnerExternalNetwork(napi, account) IN
           own.err = "none" =>
              /\ account.restricted => own.found # {}
              /\ own.found \subseteq {n \in Things(napi) : n.owned}
<1> DEFINE all == getNapiNetworksForAccount(napi)
           external == {n \in all.found : n.owned /\ ExternalTag \in {n.tag} \union n.tagsPresent}
           one == CHOOSE n \in external : TRUE
           own == findOwnerExternalNetwork(napi, account)
<1>1. own = IF ~account.restricted THEN Found({})
            ELSE IF all.err # "none" THEN all
            ELSE IF external = {} THEN Failed("no external network accessible")
            ELSE Found({one})
  BY DEF findOwnerExternalNetwork
<1>2. all.found \subseteq Things(napi)
  <2> DEFINE some == {p \in napi.pools : p.tag # AdminTag}
             rest == {n \in napi.networks : /\ n.tag # AdminTag
                                           /\ n.uuid \notin UNION {p.networks : p \in some}}
  <2>1. all.found = {} \/ all = Found(some \union rest)
    BY AccountNetworks
  <2>2. some \union rest \subseteq Things(napi)
    BY DEF Things
  <2> HIDE DEF all, some, rest
  <2> QED BY <2>1, <2>2, AnswersDiffer
<1>3. external \subseteq {n \in Things(napi) : n.owned}
  BY <1>2
<1>4. external # {} => one \in external
  OBVIOUS
<1> HIDE DEF all, external, one, own
<1>5. own.err = "none" => \/ ~account.restricted /\ own = Found({})
                          \/ external # {} /\ own = Found({one})
  BY <1>1, AnswersDiffer
<1> QED BY <1>3, <1>4, <1>5, AnswersDiffer DEF own

(* What comes after the fabric network is primary, and nothing else is.    *)
LEMMA OnlyTheLast ==
    ASSUME NEW nics, NEW n \in Nat, DOMAIN nics = 1..n, NEW uuid
    PROVE  LET all == Append(NotPrimary(nics), Nic(uuid, TRUE)) IN
           /\ Len(all) = n + 1 /\ all[n + 1].uuid = uuid
           /\ \A i \in DOMAIN all : all[i].primary <=> i = n + 1
<1> DEFINE V == {Nic(nics[i].uuid, FALSE) : i \in 1..n} \union {Nic(uuid, TRUE)}
           before == NotPrimary(nics)
           all == Append(before, Nic(uuid, TRUE))
<1>1. before = [i \in 1..n |-> Nic(nics[i].uuid, FALSE)]
  BY DEF NotPrimary
<1>2. before \in [1..n -> V]
  BY <1>1
<1> HIDE DEF V, before
<1>3. before \in Seq(V) /\ Len(before) = n
  BY <1>2
<1>4. Nic(uuid, TRUE) \in V
  BY DEF V
<1> DEFINE last == Nic(uuid, TRUE)
<1>5. /\ all \in Seq(V) /\ Len(all) = n + 1 /\ all[n + 1] = Nic(uuid, TRUE)
      /\ \A i \in 1..n : all[i] = before[i]
  <2>1. all = Append(before, last)
    OBVIOUS
  <2> HIDE DEF last, all
  <2>3. before \in Seq(V) /\ last \in V
    BY <1>3, <1>4 DEF last
  <2>2. /\ Append(before, last) \in Seq(V) /\ Len(Append(before, last)) = Len(before) + 1
        /\ Append(before, last)[Len(before) + 1] = last
        /\ \A i \in 1..Len(before) : Append(before, last)[i] = before[i]
    BY <2>3, AppendProperties
  <2> QED BY <1>3, <2>1, <2>2, Zenon DEF last
<1>6. DOMAIN all = 1..(n + 1)
  BY <1>5
<1> HIDE DEF all
<1>7. all[n + 1].uuid = uuid /\ all[n + 1].primary
  BY <1>5 DEF Nic
<1>8. \A i \in 1..n : ~all[i].primary
  BY <1>1, <1>5 DEF Nic
<1>9. ASSUME NEW i \in DOMAIN all PROVE all[i].primary <=> i = n + 1
  <2>1. CASE i = n + 1
    BY <1>7, <2>1, Zenon
  <2>2. CASE i # n + 1
    <3>1. i \in 1..n
      BY <1>6, <2>2
    <3> QED BY <1>8, <2>2, <3>1, Zenon
  <2> QED BY <2>1, <2>2, Zenon
<1> QED BY <1>5, <1>7, <1>9, Zenon DEF all, before

(* The external network is the one named, or one of the account's own.     *)
HasExternal(r, c, nics, napi, account) ==
    r.err = "none" => \E u :
       /\ r.networks = Append(NotPrimary(nics), Nic(u, TRUE))
       /\ account.restricted => \E n \in Things(napi) : n.owned /\ n.uuid = u
       /\ c.publicLabel # NoText =>
             \E n \in Things(napi) : n.name = c.publicLabel /\ n.uuid = u

LEMMA ExternalIs ==
    ASSUME NEW c, NEW nics, NEW config, NEW napi, IsNapi(napi), NEW account
    PROVE  HasExternal(externalNetworkByName(c, nics, config, napi, account),
                       c, nics, napi, account)
<1> DEFINE named == c.publicLabel # NoText
           own == findOwnerExternalNetwork(napi, account)
           name == IF named THEN c.publicLabel ELSE config.external
           byName == getNetworksOrPools(ByName(name), napi, account)
           said == IF ~named /\ config.overlay THEN own ELSE byName
           one == CHOOSE n \in said.found : TRUE
           With(uuid) == Networks_("none", Append(NotPrimary(nics), Nic(uuid, TRUE)))
           r == externalNetworkByName(c, nics, config, napi, account)
<1>1. r = IF said.err # "none" THEN Networks_(said.err, nics)
          ELSE IF said.found # {} THEN With(one.uuid)
          ELSE IF ~named /\ config.overlay THEN With(config.externalPool)
          ELSE Networks_("not found", nics)
  BY DEF externalNetworkByName
<1>2. said.found # {} => one \in said.found
  OBVIOUS
<1>3. own.err = "none" => /\ account.restricted => own.found # {}
                          /\ \A n \in own.found : n \in Things(napi) /\ n.owned
  BY OwnIs
<1>4. \A n \in byName.found : /\ n \in Things(napi) /\ n.name = name
                              /\ account.restricted => n.owned
  <2>1. IsAnswering(napi) /\ IsSearch(ByName(name))
    BY DEF IsNapi, IsAnswering, IsSearch, ByName
  <2>2. IsAnswer(byName, ByName(name), napi, account)
    BY <2>1, SearchAnswers
  <2>3. Suiting(ByName(name), Things(napi)) = {n \in Things(napi) : n.name = name}
    BY DEF Suiting, Suits, ByName
  <2> HIDE DEF byName, name
  <2> QED BY <2>2, <2>3, AnswersDiffer DEF IsAnswer, MayUse
<1>5. \A err, ns : Networks_(err, ns).err = err /\ Networks_(err, ns).networks = ns
  BY DEF Networks_
<1>6. name = IF named THEN c.publicLabel ELSE config.external
  OBVIOUS
<1>7. said = IF ~named /\ config.overlay THEN own ELSE byName
  OBVIOUS
<1> HIDE DEF own, byName, name, said, one, r
<1>8. ASSUME r.err = "none"
      PROVE  \E u : /\ r.networks = Append(NotPrimary(nics), Nic(u, TRUE))
                    /\ account.restricted => \E n \in Things(napi) : n.owned /\ n.uuid = u
                    /\ named => \E n \in Things(napi) : n.name = c.publicLabel /\ n.uuid = u
  <2>1. CASE said.found # {}
    <3>1. said.err = "none" /\ r = With(one.uuid)
      BY <1>1, <1>5, <1>8, <2>1
    <3>2. /\ one \in Things(napi) /\ (account.restricted => one.owned)
          /\ named => one.name = c.publicLabel
      BY <1>2, <1>3, <1>4, <1>6, <1>7, <2>1, <3>1
    <3>3. r.networks = Append(NotPrimary(nics), Nic(one.uuid, TRUE))
      BY <1>5, <3>1
    <3> HIDE DEF named
    <3> QED BY <3>2, <3>3
  <2>2. CASE said.found = {}
    <3>1. said.err = "none" /\ ~named /\ config.overlay /\ r = With(config.externalPool)
      <4>1. said.err = "none"
        BY <1>1, <1>5, <1>8, <2>2, Zenon
      <4>2. "not found" # "none"
        OBVIOUS
      <4>3. r = IF ~named /\ config.overlay THEN With(config.externalPool)
                ELSE Networks_("not found", nics)
        BY <1>1, <2>2, <4>1, Zenon
      <4> HIDE DEF With, named
      <4>4. ~named /\ config.overlay
        BY <1>5, <1>8, <4>2, <4>3, Zenon
      <4> QED BY <4>1, <4>3, <4>4, Zenon
    <3>2. ~account.restricted
      BY <1>3, <1>7, <2>2, <3>1
    <3>3. r.networks = Append(NotPrimary(nics), Nic(config.externalPool, TRUE))
      BY <1>5, <3>1
    <3> HIDE DEF named
    <3> QED BY <3>1, <3>2, <3>3
  <2> QED BY <2>1, <2>2
<1> QED BY <1>8 DEF r, HasExternal

LEMMA NicsFound ==
    ASSUME NEW q \in NicQuestions
    PROVE  NicsAsAsked(q, addNetworksToContainerPayload(q.container, q.config, q.napi, q.account))
<1> DEFINE c == q.container
           config == q.config
           napi == q.napi
           account == q.account
           fabric == addFabricNetworks(c, config, napi, account)
           publishes == publishingPorts(c)
           last == externalNetworkByName(c, fabric.networks, config, napi, account)
           refused == IF c.publicLabel # NoText
                      THEN "label requires a container with published ports" ELSE "none"
           r == addNetworksToContainerPayload(c, config, napi, account)
           external == publishes \/ ~config.overlay
           size == (IF config.overlay THEN 1 ELSE 0) + (IF external THEN 1 ELSE 0)
<1>1. IsNapi(napi)
  BY LookupAssumption
<1>9. refused = "none" => c.publicLabel = NoText
  BY Zenon
<1>8. /\ ~external => config.overlay /\ size = 1
      /\ external /\ config.overlay => size = 2
      /\ external /\ ~config.overlay => size = 1
  <2> DEFINE f == IF config.overlay THEN 1 ELSE 0
             e == IF external THEN 1 ELSE 0
  <2>1. /\ ~external => config.overlay /\ f = 1 /\ e = 0
        /\ external /\ config.overlay => f = 1 /\ e = 1
        /\ external /\ ~config.overlay => f = 0 /\ e = 1
    BY Zenon
  <2>2. size = f + e
    OBVIOUS
  <2> HIDE DEF f, e, size, external
  <2> QED BY <2>1, <2>2
<1>2. r = IF fabric.err # "none" THEN fabric
          ELSE IF config.overlay /\ ~publishes THEN Networks_(refused, fabric.networks)
          ELSE last
  BY DEF addNetworksToContainerPayload, addExternalNetwork
<1> HIDE DEF c, config, napi, account, refused
<1>3. fabric.err = "none" => \/ config.overlay /\ \E u : fabric.networks = <<Nic(u, TRUE)>>
                             \/ ~config.overlay /\ fabric.networks = <<>>
  BY <1>1, FabricIs, Zenon
<1>4. HasExternal(last, c, fabric.networks, napi, account)
  BY <1>1, ExternalIs
<1>5. \A err, ns : Networks_(err, ns).err = err /\ Networks_(err, ns).networks = ns
  BY DEF Networks_
<1> HIDE DEF fabric, last, publishes, r
<1>6. ASSUME r.err = "none"
      PROVE  /\ Len(r.networks) = size
             /\ \A i \in DOMAIN r.networks : r.networks[i].primary <=> i = size
             /\ ~external => c.publicLabel = NoText
             /\ external /\ account.restricted =>
                   \E n \in Things(napi) : n.owned /\ n.uuid = r.networks[size].uuid
             /\ external /\ c.publicLabel # NoText =>
                   \E n \in Things(napi) : n.name = c.publicLabel /\ n.uuid = r.networks[size].uuid
  <2>1. fabric.err = "none"
    BY <1>2, <1>6
  <2>2. CASE ~external
    <3>1. r = Networks_(refused, fabric.networks) /\ config.overlay
      BY <1>2, <2>1, <2>2, Zenon
    <3>2. refused = "none" /\ r.networks = fabric.networks
      BY <1>5, <1>6, <3>1
    <3>3. PICK u : r.networks = <<Nic(u, TRUE)>>
      BY <1>3, <2>1, <3>1, <3>2
    <3>4. size = 1
      BY <1>8, <2>2, Zenon
    <3>5. c.publicLabel = NoText
      BY <1>9, <3>2
    <3>6. Len(r.networks) = 1 /\ \A i \in DOMAIN r.networks : r.networks[i].primary <=> i = 1
      BY <3>3 DEF Nic
    <3> QED BY <2>2, <3>4, <3>5, <3>6
  <2>3. CASE external
    <3>1. r = last
      BY <1>2, <2>1, <2>3
    <3>2. PICK u :
            /\ r.networks = Append(NotPrimary(fabric.networks), Nic(u, TRUE))
            /\ account.restricted => \E n \in Things(napi) : n.owned /\ n.uuid = u
            /\ c.publicLabel # NoText =>
                  \E n \in Things(napi) : n.name = c.publicLabel /\ n.uuid = u
      BY <1>4, <1>6, <3>1 DEF HasExternal
    <3> HIDE DEF size, external
    <3>3. PICK n \in Nat : DOMAIN fabric.networks = 1..n /\ size = n + 1
      <4>0. /\ DOMAIN <<>> = 1..0 /\ \A x : DOMAIN <<x>> = 1..1
            /\ 0 \in Nat /\ 1 \in Nat /\ 0 + 1 = 1 /\ 1 + 1 = 2
        OBVIOUS
      <4>1. CASE config.overlay
        <5>1. DOMAIN fabric.networks = 1..1
          BY <1>3, <2>1, <4>0, <4>1, Zenon
        <5> QED BY <1>8, <2>3, <4>0, <4>1, <5>1, Zenon
      <4>2. CASE ~config.overlay
        <5>1. DOMAIN fabric.networks = 1..0
          BY <1>3, <2>1, <4>0, <4>2, Zenon
        <5> QED BY <1>8, <2>3, <4>0, <4>2, <5>1, Zenon
      <4> QED BY <4>1, <4>2
    <3>5. /\ Len(r.networks) = size /\ r.networks[size].uuid = u
          /\ \A i \in DOMAIN r.networks : r.networks[i].primary <=> i = size
      <4> DEFINE nics == fabric.networks
                 added == Append(NotPrimary(nics), Nic(u, TRUE))
      <4>1. DOMAIN nics = 1..n
        BY <3>3
      <4> HIDE DEF nics
      <4>2. /\ Len(added) = n + 1 /\ added[n + 1].uuid = u
            /\ \A i \in DOMAIN added : added[i].primary <=> i = n + 1
        BY <4>1, OnlyTheLast, Zenon
      <4>3. r.networks = added /\ size = n + 1
        BY <3>2, <3>3 DEF nics
      <4> HIDE DEF added
      <4> QED BY <4>2, <4>3, Zenon
    <3> QED BY <2>3, <3>2, <3>5
  <2> QED BY <2>2, <2>3
<1>7. NicsAsAsked(q, r)
  BY <1>6 DEF NicsAsAsked, Things, publishes, c, config, napi, account
<1> QED BY <1>7 DEF r, c, config, napi, account

-----------------------------------------------------------------------------
(* Lists that are joined.                                                  *)
LEMMA JoinedLists ==
    ASSUME NEW S, NEW s \in Seq(S), NEW t \in Seq(S)
    PROVE  /\ s \o t \in Seq(S) /\ Len(s \o t) = Len(s) + Len(t)
           /\ Len(s) \in Nat /\ Len(t) \in Nat
           /\ DOMAIN s = 1 .. Len(s) /\ DOMAIN t = 1 .. Len(t)
           /\ DOMAIN (s \o t) = 1 .. (Len(s) + Len(t))
           /\ \A i \in 1 .. Len(s) : (s \o t)[i] = s[i]
           /\ \A i \in 1 .. Len(t) : (s \o t)[Len(s) + i] = t[i]
  OBVIOUS

LEMMA StartsWith ==
    ASSUME NEW S, NEW s \in Seq(S), NEW t \in Seq(S), Len(s) <= Len(t),
           \A i \in 1 .. Len(s) : s[i] = t[i]
    PROVE  IsPrefix(s, t)
<1> DEFINE p == SubSeq(s, 1, Len(s))
           r == SubSeq(t, 1, Len(s))
<1>1. /\ p \in Seq(S) /\ r \in Seq(S) /\ Len(p) = Len(s) /\ Len(r) = Len(s)
      /\ \A i \in 1 .. Len(s) : p[i] = s[i] /\ r[i] = t[i]
  OBVIOUS
<1> HIDE DEF p, r
<1>2. p = r
  BY <1>1, SeqEqual
<1> QED BY <1>2 DEF IsPrefix, p, r

LEMMA StartAndEnd ==
    ASSUME NEW S, NEW s \in Seq(S), NEW t \in Seq(S)
    PROVE  IsPrefix(s, s \o t) /\ IsSuffix(t, s \o t)
<1> DEFINE all == s \o t
           back == Reverse(t)
           allBack == Reverse(all)
<1>1. /\ all \in Seq(S) /\ Len(all) = Len(s) + Len(t) /\ Len(s) \in Nat /\ Len(t) \in Nat
      /\ \A i \in 1 .. Len(s) : all[i] = s[i]
      /\ \A i \in 1 .. Len(t) : all[Len(s) + i] = t[i]
  BY JoinedLists
<1> HIDE DEF all
<1>2. IsPrefix(s, all)
  BY <1>1, StartsWith
<1>3. /\ back \in Seq(S) /\ Len(back) = Len(t)
      /\ \A i \in 1 .. Len(t) : back[i] = t[(Len(t) - i) + 1]
  BY DEF Reverse
<1>4. /\ allBack \in Seq(S) /\ Len(allBack) = Len(all)
      /\ \A i \in 1 .. Len(all) : allBack[i] = all[(Len(all) - i) + 1]
  BY <1>1 DEF Reverse
<1> HIDE DEF back, allBack
<1>5. ASSUME NEW i \in 1 .. Len(back) PROVE back[i] = allBack[i]
  <2> DEFINE j == (Len(t) - i) + 1
  <2>1. j \in 1 .. Len(t) /\ (Len(all) - i) + 1 = Len(s) + j /\ i \in 1 .. Len(all)
    <3> DEFINE l == Len(s)
               m == Len(t)
    <3>1. l \in Nat /\ m \in Nat /\ Len(all) = l + m /\ Len(back) = m /\ i \in 1 .. m
      BY <1>1, <1>3
    <3> HIDE DEF l, m
    <3>2. /\ (m - i) + 1 \in 1 .. m /\ ((l + m) - i) + 1 = l + ((m - i) + 1)
          /\ i \in 1 .. (l + m)
      BY <3>1
    <3> QED BY <3>1, <3>2 DEF l, m
  <2>2. allBack[i] = all[Len(s) + j]
    BY <1>4, <2>1
  <2> HIDE DEF j
  <2>3. allBack[i] = t[j]
    BY <1>1, <2>1, <2>2
  <2> QED BY <1>3, <2>3 DEF j
<1>6. IsPrefix(back, allBack)
  <2>1. back \in Seq(S) /\ allBack \in Seq(S)
    BY <1>3, <1>4
  <2>2. Len(back) <= Len(allBack)
    <3> DEFINE l == Len(s)
               m == Len(t)
    <3>1. l \in Nat /\ m \in Nat /\ Len(allBack) = l + m /\ Len(back) = m
      BY <1>1, <1>3, <1>4
    <3> HIDE DEF l, m
    <3>2. m <= l + m
      BY <3>1
    <3> QED BY <3>1, <3>2
  <2> QED BY <1>5, <2>1, <2>2, StartsWith
<1> QED BY <1>2, <1>6 DEF IsSuffix, back, allBack, all

(* The command, and the environment: the image's, then the user's.         *)
LEMMA CommandMeant ==
    ASSUME NEW q, HasCommand(q)
    PROVE  CommandAsAsked(q, commandOf(q.container, q.image))
<1> DEFINE c == q.container
           image == q.image
           own == ListOr(c.env)
           others == ListOr(image.env)
           S == ToSet(c.env) \union ToSet(image.env)
           a == commandOf(c, image)
<1>1. own \in Seq(S) /\ others \in Seq(S)
  <2>1. /\ c.env = Absent \/ c.env \in Seq(ToSet(c.env))
        /\ image.env = Absent \/ image.env \in Seq(ToSet(image.env))
    BY DEF HasCommand, MayBeList, IsList
  <2>2. \A X, Y : Seq(X) \subseteq Seq(X \union Y) /\ Seq(Y) \subseteq Seq(X \union Y)
    OBVIOUS
  <2>3. <<>> \in Seq(S)
    OBVIOUS
  <2>4. Seq(ToSet(c.env)) \subseteq Seq(S) /\ Seq(ToSet(image.env)) \subseteq Seq(S)
    BY <2>2
  <2> HIDE DEF S
  <2> QED BY <2>1, <2>3, <2>4 DEF ListOr
<1> HIDE DEF own, others, S
<1>2. IsPrefix(others, others \o own) /\ IsSuffix(own, others \o own)
  BY <1>1, StartAndEnd
<1>3. a.env = others \o own
  BY DEF commandOf, own, others
<1>4. /\ c.entrypoint # Absent => a.entrypoint = c.entrypoint /\ a.cmd = ListOr(c.cmd)
      /\ c.entrypoint = Absent => /\ a.entrypoint = ListOr(image.entrypoint)
                                  /\ a.cmd = ListOr(Or(c.cmd, image.cmd))
  BY DEF commandOf, ListOr, Or
<1> HIDE DEF a
<1>5. CommandAsAsked(q, a)
  BY <1>2, <1>3, <1>4 DEF CommandAsAsked, own, others
<1> QED BY <1>5 DEF a

(* The tags: the last label of each key.                                   *)
LEMMA TagsMeant ==
    ASSUME NEW q, HasLabels(q)
    PROVE  TagsAsAsked(q, vmTagsFromLabels(q.container, q.image))
<1> DEFINE I == q.image.labels
           C == q.container.labels
           labels == I \o C
           own == ToSet(C)
           ofImage == ToSet(I)
           asTags == {l \in own \union {i \in ofImage : \A o \in own : o.key # i.key} :
                         l.type # "package"}
           a == vmTagsFromLabels(q.container, q.image)
<1>1. /\ IsLabels(I) /\ IsLabels(C)
      /\ I \in Seq(own \union ofImage) /\ C \in Seq(own \union ofImage)
  <2>1. IsLabels(I) /\ IsLabels(C)
    BY DEF HasLabels
  <2>2. I \in Seq(ofImage) /\ C \in Seq(own)
    BY <2>1 DEF IsLabels, IsList
  <2> HIDE DEF I, C, own, ofImage
  <2>3. Seq(ofImage) \subseteq Seq(own \union ofImage) /\ Seq(own) \subseteq Seq(own \union ofImage)
    OBVIOUS
  <2> QED BY <2>1, <2>2, <2>3
<1> HIDE DEF I, C
<1>2. /\ Len(I) \in Nat /\ Len(C) \in Nat
      /\ DOMAIN I = 1 .. Len(I) /\ DOMAIN C = 1 .. Len(C)
      /\ DOMAIN labels = 1 .. (Len(I) + Len(C))
      /\ \A i \in 1 .. Len(I) : labels[i] = I[i]
      /\ \A i \in 1 .. Len(C) : labels[Len(I) + i] = C[i]
  <2> HIDE DEF own, ofImage
  <2> QED BY <1>1, JoinedLists
<1>3. own = {C[i] : i \in 1 .. Len(C)} /\ ofImage = {I[i] : i \in 1 .. Len(I)}
  BY <1>2 DEF ToSet
<1> HIDE DEF labels, own, ofImage
<1>4. \A k \in 1 .. (Len(I) + Len(C)) :
         \/ k \in 1 .. Len(I)
         \/ \E i \in 1 .. Len(C) : k = Len(I) + i
  <2> DEFINE n == Len(I)
             m == Len(C)
  <2>1. n \in Nat /\ m \in Nat
    BY <1>2
  <2> HIDE DEF n, m
  <2>2. ASSUME NEW k \in 1 .. (n + m), k \notin 1 .. n PROVE \E i \in 1 .. m : k = n + i
    <3>1. k - n \in 1 .. m /\ k = n + (k - n)
      BY <2>1, <2>2
    <3> QED BY <3>1
  <2> QED BY <2>2 DEF n, m
<1>5. /\ \A i \in 1 .. Len(I) : i \in DOMAIN labels
      /\ \A i \in 1 .. Len(C) : Len(I) + i \in DOMAIN labels
      /\ \A i \in 1 .. Len(I), j \in 1 .. Len(C) : Len(I) + j > i
      /\ \A i \in 1 .. Len(C), j \in 1 .. Len(C) : Len(I) + j > Len(I) + i => j > i
  <2> DEFINE n == Len(I)
             m == Len(C)
             D == DOMAIN labels
  <2>1. n \in Nat /\ m \in Nat /\ D = 1 .. (n + m)
    BY <1>2
  <2> HIDE DEF n, m, D
  <2>2. /\ \A i \in 1 .. n : i \in D
        /\ \A i \in 1 .. m : n + i \in D
        /\ \A i \in 1 .. n, j \in 1 .. m : n + j > i
        /\ \A i \in 1 .. m, j \in 1 .. m : n + j > n + i => j > i
    BY <2>1
  <2> QED BY <2>2 DEF n, m, D
<1>6. ToSet(labels) = own \union ofImage
  <2>1. \A l \in ToSet(labels) : l \in own \union ofImage
    BY <1>2, <1>3, <1>4 DEF ToSet
  <2>2. \A l \in own \union ofImage : l \in ToSet(labels)
    BY <1>2, <1>3, <1>5 DEF ToSet
  <2> QED BY <2>1, <2>2
<1> DEFINE bad == {l \in own \union ofImage : IsBadLabel(l)}
           refused == "invalid label"
<1>7. a = [error |-> IF bad = {} THEN "none" ELSE refused,
           bad |-> bad, tags |-> Tagged(labels)]
  BY <1>6 DEF vmTagsFromLabels, labels, I, C
<1>8. refused # "none"
  OBVIOUS
<1> HIDE DEF refused
<1>9. /\ bad = {} => a.error = "none"
      /\ bad # {} => a.error # "none"
      /\ a.tags = Tagged(labels)
  <2> HIDE DEF a, bad
  <2> QED BY <1>7, <1>8
<1>10. ASSUME \A l \in own \union ofImage : ~IsBadLabel(l) PROVE Tagged(labels) = asTags
  <2>1. /\ \A l \in own \union ofImage : IsTag(l) <=> l.type # "package"
        /\ \A l, m \in own \union ofImage :
              l.key = m.key => (l.type = "package" <=> m.type = "package")
    <3>1. \A l \in own \union ofImage : l.type = "package" <=> l.key = PackageLabel
      <4>1. \A l \in own : ~IsBadLabel(l) => (l.type = "package" <=> l.key = PackageLabel)
        BY <1>1, Zenon DEF IsLabels, own
      <4>2. \A l \in ofImage : ~IsBadLabel(l) => (l.type = "package" <=> l.key = PackageLabel)
        BY <1>1, Zenon DEF IsLabels, ofImage
      <4>3. ASSUME NEW l \in own \union ofImage
            PROVE  l.type = "package" <=> l.key = PackageLabel
        <5>1. ~IsBadLabel(l)
          BY <1>10
        <5>2. CASE l \in own
          BY <4>1, <5>1, <5>2
        <5>3. CASE l \in ofImage
          BY <4>2, <5>1, <5>3
        <5> QED BY <4>3, <5>2, <5>3
      <4> QED BY <4>3
    <3>2. \A l \in own \union ofImage : IsTag(l) <=> l.type # "package"
      BY <1>10 DEF IsTag
    <3> QED BY <3>1, <3>2, Zenon
  <2>2. /\ \A i, j \in 1 .. Len(I) : I[i].key = I[j].key => i = j
        /\ \A i, j \in 1 .. Len(C) : C[i].key = C[j].key => i = j
    BY <1>1, <1>2 DEF IsLabels
  <2> DEFINE Stays(i) == \A j \in DOMAIN labels :
                            j > i /\ IsTag(labels[j]) => labels[j].key # labels[i].key
  <2>3. Tagged(labels) = {labels[i] : i \in {i \in DOMAIN labels : IsTag(labels[i]) /\ Stays(i)}}
    BY DEF Tagged
  <2>4. ASSUME NEW i \in DOMAIN labels, IsTag(labels[i]), Stays(i) PROVE labels[i] \in asTags
    <3>1. CASE i \in 1 .. Len(I)
      <4>1. labels[i] \in ofImage /\ labels[i].type # "package"
        BY <1>2, <1>3, <2>1, <2>4, <3>1
      <4>2. ASSUME NEW o \in own, o.key = labels[i].key PROVE FALSE
        <5>1. PICK j \in 1 .. Len(C) : o = labels[Len(I) + j]
          BY <1>2, <1>3
        <5>2. IsTag(o)
          BY <2>1, <4>1, <4>2
        <5>3. Len(I) + j \in DOMAIN labels /\ Len(I) + j > i
          BY <1>5, <3>1
        <5> QED BY <2>4, <4>2, <5>1, <5>2, <5>3
      <4> QED BY <4>1, <4>2
    <3>2. CASE \E j \in 1 .. Len(C) : i = Len(I) + j
      <4>1. labels[i] \in own
        BY <1>2, <1>3, <3>2
      <4> QED BY <2>1, <2>4, <4>1
    <3> QED BY <1>2, <1>4, <3>1, <3>2
  <2>5. ASSUME NEW l \in asTags PROVE l \in Tagged(labels)
    <3>1. IsTag(l)
      BY <2>1
    <3>2. CASE l \in own
      <4>1. PICK i \in 1 .. Len(C) : l = labels[Len(I) + i] /\ l = C[i]
        BY <1>2, <1>3, <3>2
      <4>2. ASSUME NEW k \in DOMAIN labels, k > Len(I) + i, labels[k].key = l.key PROVE FALSE
        <5>1. k \notin 1 .. Len(I)
          BY <1>5, <4>2, <1>2, <4>1
        <5>2. PICK j \in 1 .. Len(C) : k = Len(I) + j
          BY <1>2, <1>4, <5>1
        <5>3. j > i /\ C[j].key = C[i].key
          BY <1>2, <1>5, <4>1, <4>2, <5>2
        <5>4. j = i
          BY <2>2, <5>3
        <5> QED BY <5>3, <5>4
      <4>3. Stays(Len(I) + i) /\ Len(I) + i \in DOMAIN labels
        BY <1>5, <4>1, <4>2
      <4> QED BY <2>3, <3>1, <4>1, <4>3
    <3>3. CASE l \in ofImage /\ \A o \in own : o.key # l.key
      <4>1. PICK i \in 1 .. Len(I) : l = labels[i] /\ l = I[i]
        BY <1>2, <1>3, <3>3
      <4>2. ASSUME NEW k \in DOMAIN labels, k > i, labels[k].key = l.key PROVE FALSE
        <5>1. CASE k \in 1 .. Len(I)
          <6>1. k = i
            BY <1>2, <2>2, <4>1, <4>2, <5>1
          <6> QED BY <4>2, <6>1
        <5>2. CASE \E j \in 1 .. Len(C) : k = Len(I) + j
          <6>1. labels[k] \in own
            BY <1>2, <1>3, <5>2
          <6> QED BY <3>3, <4>2, <6>1
        <5> QED BY <1>2, <1>4, <5>1, <5>2
      <4>3. Stays(i) /\ i \in DOMAIN labels
        BY <1>5, <4>1, <4>2
      <4> QED BY <2>3, <3>1, <4>1, <4>3
    <3> QED BY <3>2, <3>3
  <2> HIDE DEF asTags, Stays
  <2>6. \A l \in Tagged(labels) : l \in asTags
    BY <2>3, <2>4
  <2> QED BY <2>5, <2>6
<1>11. TagsAsAsked(q, a)
  <2>1. bad = {} <=> \A l \in own \union ofImage : ~IsBadLabel(l)
    OBVIOUS
  <2> HIDE DEF a, bad
  <2> QED BY <1>9, <1>10, <2>1 DEF TagsAsAsked, own, ofImage, I, C
<1> QED BY <1>11 DEF a

(* A version of one digit, a point and two digits is too old by its text   *)
(* just when it is by its numbers.                                         *)
LEMMA VersionMeant ==
    ASSUME NEW q \in VersionQuestions
    PROVE  VersionAsAsked(q, reqClientApiVersion(q))
<1> DEFINE least == MinApiVersion
           S == {Point} \union 0..9
           Before(v, n) == /\ n < Len(least) /\ IsPrefix(SubSeq(v, 1, n), least)
                           /\ n = Len(v) \/ v[n + 1] < least[n + 1]
<1>1. q \in Seq(S) /\ least \in Seq(S) /\ Len(least) = 4
  BY RequestAssumption DEF MinApiVersion, Point
<1>2. least[1] = 1 /\ least[2] = Point /\ least[3] = 2 /\ least[4] = 0
  BY DEF MinApiVersion
<1>3. ASSUME NEW v \in Seq(S), Len(v) = 4
      PROVE  IsBeforeText(v, least) <=>
               \/ v[1] < 1
               \/ v[1] = 1 /\ v[2] < Point
               \/ v[1] = 1 /\ v[2] = Point /\ v[3] < 2
               \/ v[1] = 1 /\ v[2] = Point /\ v[3] = 2 /\ v[4] < 0
  <2> HIDE DEF least, S
  <2>1. ASSUME NEW n \in 0..3
        PROVE  Before(v, n) <=> /\ \A i \in 1..n : v[i] = least[i]
                                /\ v[n + 1] < least[n + 1]
    <3> DEFINE p == SubSeq(v, 1, n)
               r == SubSeq(p, 1, n)
               t == SubSeq(least, 1, n)
    <3>0. \A s \in Seq(S) : \A k \in 0..Len(s) :
             /\ SubSeq(s, 1, k) \in Seq(S) /\ Len(SubSeq(s, 1, k)) = k
             /\ \A i \in 1..k : SubSeq(s, 1, k)[i] = s[i]
      OBVIOUS
    <3>1. /\ p \in Seq(S) /\ Len(p) = n /\ \A i \in 1..n : p[i] = v[i]
      <4>1. v \in Seq(S) /\ n \in 0..Len(v)
        BY <1>3
      <4> QED BY <3>0, <4>1
    <3> HIDE DEF p
    <3>2. /\ r \in Seq(S) /\ Len(r) = n /\ \A i \in 1..n : r[i] = v[i]
      BY <2>1, <3>1
    <3>3. /\ t \in Seq(S) /\ Len(t) = n /\ \A i \in 1..n : t[i] = least[i]
      <4>1. n \in 0..Len(least) /\ least \in Seq(S)
        BY <1>1, <2>1
      <4> QED BY <3>0, <4>1
    <3> HIDE DEF r, t
    <3>4. IsPrefix(p, least) <=> r = t
      BY <1>1, <2>1, <3>1 DEF IsPrefix, r, t
    <3>5. r = t <=> \A i \in 1..n : v[i] = least[i]
      BY <3>2, <3>3, SeqEqual
    <3>6. n < Len(least) /\ n # Len(v)
      BY <1>1, <1>3, <2>1
    <3> QED BY <3>4, <3>5, <3>6 DEF p
  <2>2. IsBeforeText(v, least) <=> \E n \in 0..4 : Before(v, n)
    BY <1>3 DEF IsBeforeText
  <2>3. ~Before(v, 4)
    BY <1>1
  <2>4. IsBeforeText(v, least) <=> Before(v, 0) \/ Before(v, 1) \/ Before(v, 2) \/ Before(v, 3)
    <3> HIDE DEF Before
    <3>1. \A n : n \in 0..4 <=> n = 0 \/ n = 1 \/ n = 2 \/ n = 3 \/ n = 4
      OBVIOUS
    <3> QED BY <2>2, <2>3, <3>1
  <2>5. Before(v, 0) <=> v[1] < 1
    BY <1>2, <2>1
  <2>6. Before(v, 1) <=> v[1] = 1 /\ v[2] < Point
    BY <1>2, <2>1
  <2>7. Before(v, 2) <=> v[1] = 1 /\ v[2] = Point /\ v[3] < 2
    BY <1>2, <2>1
  <2>8. Before(v, 3) <=> v[1] = 1 /\ v[2] = Point /\ v[3] = 2 /\ v[4] < 0
    BY <1>2, <2>1
  <2> HIDE DEF Before
  <2> QED BY <2>4, <2>5, <2>6, <2>7, <2>8
<1> HIDE DEF least, S
<1>4. ASSUME q = NoText PROVE reqClientApiVersion(q).accepted
  <2>1. ApiVersion \in Seq(S) /\ Len(ApiVersion) = 4
    BY DEF ApiVersion, S, Point
  <2>2. ApiVersion[1] = 1 /\ ApiVersion[2] = Point /\ ApiVersion[3] = 2 /\ ApiVersion[4] = 1
    BY DEF ApiVersion
  <2>3. ~IsBeforeText(ApiVersion, least)
    BY <1>3, <2>1, <2>2 DEF Point
  <2> QED BY <1>4, <2>3 DEF reqClientApiVersion, least
<1>5. ASSUME HasTwoDigits(q)
      PROVE  reqClientApiVersion(q).accepted <=> q[1] > 1 \/ 10 * q[3] + q[4] >= 20
  <2>1. Len(q) = 4 /\ q[1] \in 1..9 /\ q[2] = Point /\ q[3] \in 0..9 /\ q[4] \in 0..9
    BY <1>5 DEF HasTwoDigits
  <2>2. q # NoText
    BY <2>1 DEF NoText
  <2>3. reqClientApiVersion(q).accepted <=> ~IsBeforeText(q, least)
    BY <2>2 DEF reqClientApiVersion, least
  <2>4. IsBeforeText(q, least) <=> q[1] = 1 /\ q[3] < 2
    BY <1>1, <1>3, <2>1 DEF Point
  <2> QED BY <2>1, <2>3, <2>4
<1> QED BY <1>4, <1>5 DEF VersionAsAsked

(* What passes the checks: a list of checks without an error has none.     *)
LEMMA NoError ==
    ASSUME NEW T, NEW s \in Seq(T), FirstError(s) = "none"
    PROVE  \A i \in DOMAIN s : s[i] = "none"
<1> DEFINE IsFirst(i) == s[i] # "none" /\ \A j \in 1..(i - 1) : s[j] = "none"
           first == CHOOSE i \in DOMAIN s : IsFirst(i)
           bad == {i \in DOMAIN s : s[i] # "none"}
<1>1. DOMAIN s = 1 .. Len(s) /\ Len(s) \in Nat
  OBVIOUS
<1>2. "none" = IF \A i \in DOMAIN s : s[i] = "none" THEN "none" ELSE s[first]
  BY DEF FirstError
<1>3. ASSUME bad # {} PROVE FALSE
  <2>1. bad \in SUBSET Nat /\ IsFiniteSet(bad)
    <3>1. bad \subseteq 1 .. Len(s) /\ IsFiniteSet(1 .. Len(s))
      BY <1>1, FS_Interval
    <3> QED BY <1>1, <3>1, FS_Subset
  <2>2. PICK i \in bad : \A j \in bad : i <= j
    BY <1>3, <2>1, LeastIsThere
  <2>3. IsFirst(i)
    BY <1>1, <2>2
  <2>4. IsFirst(first)
    BY <2>2, <2>3
  <2> HIDE DEF first
  <2> QED BY <1>2, <2>2, <2>4
<1> QED BY <1>3

LEMMA NoErrorOfSix ==
    ASSUME NEW a, NEW b, NEW c, NEW d, NEW e, NEW f,
           FirstError(<<a, b, c, d, e, f>>) = "none"
    PROVE  a = "none" /\ b = "none" /\ c = "none" /\ d = "none" /\ e = "none" /\ f = "none"
<1> DEFINE s == <<a, b, c, d, e, f>>
           T == {a, b, c, d, e, f}
<1>1. s \in Seq(T) /\ DOMAIN s = 1 .. 6
  OBVIOUS
<1>2. s[1] = a /\ s[2] = b /\ s[3] = c /\ s[4] = d /\ s[5] = e /\ s[6] = f
  OBVIOUS
<1> HIDE DEF s, T
<1>3. \A i \in 1 .. 6 : s[i] = "none"
  BY <1>1, NoError DEF s
<1> QED BY <1>2, <1>3

LEMMA ValueIs ==
    ASSUME NEW text, NEW port
    PROVE  /\ Value(text, port).text = text /\ Value(text, port).port = port
           /\ WithPort(Value(text, port)).text = text
           /\ WithPort(Value(text, port)).port # NoPort
  BY DEF Value, WithPort, NoPort, SyslogPort

LEMMA CheckedMeant ==
    ASSUME NEW q \in CheckQuestions
    PROVE  CheckedAsAsked(q,
             [error |-> validateCreateContainer(q.container, q.config),
              log |-> logConfigOf(q.container),
              binds |-> [i \in DOMAIN q.container.binds |->
                            getVolumeInfoFromBindString(q.container.binds[i])]])
<1> DEFINE c == q.container
           config == q.config
           made == logConfigOf(c)
           binds == [i \in DOMAIN c.binds |-> getVolumeInfoFromBindString(c.binds[i])]
           a == [error |-> validateCreateContainer(c, config), log |-> made, binds |-> binds]
           log == made.log
<1>1. c.log # Absent => \A o \in DOMAIN c.log.Config :
         c.log.Config[o] = Value(c.log.Config[o].text, c.log.Config[o].port)
  BY RequestAssumption
<1>2. a.error = validateCreateContainer(c, config) /\ a.log = made /\ a.binds = binds
  OBVIOUS
<1>3. ASSUME validateCreateContainer(c, config) = "none"
      PROVE  /\ checkVolumeName(c.volumes) = "none" /\ assertNetworkingParams(c) = "none"
             /\ assertPortBindings(c.bindings) = "none" /\ validateBinds(c.binds) = "none"
             /\ c.log # Absent => assertLogConfig(c.log, config) = "none"
  <2>1. FirstError(<<assertNetworkMode(c.mode), checkVolumeName(c.volumes),
                     assertNetworkingParams(c), assertPortBindings(c.bindings),
                     IF c.log = Absent THEN "none" ELSE assertLogConfig(c.log, config),
                     validateBinds(c.binds)>>) = "none"
    BY <1>3 DEF validateCreateContainer
  <2> QED BY <2>1, NoErrorOfSix
<1> HIDE DEF c, config
<1>4. ASSUME checkVolumeName(c.volumes) = "none" PROVE \A v \in ToSet(c.volumes) : v.absolute
  BY <1>4 DEF checkVolumeName
<1>5. ASSUME assertNetworkingParams(c) = "none" PROVE c.links # <<>> => c.mode \in DefaultModes
  <2> DEFINE refused == "links are not supported in user-defined networks"
             linked == c.links # <<>>
  <2>1. refused # "none"
    OBVIOUS
  <2>2. "none" = IF c.mode \notin DefaultModes /\ linked THEN refused ELSE "none"
    BY <1>5 DEF assertNetworkingParams
  <2> HIDE DEF refused, linked
  <2> QED BY <2>1, <2>2 DEF linked
<1>6. ASSUME assertPortBindings(c.bindings) = "none"
      PROVE  \A b \in ToSet(c.bindings) : b.port \in 1..MaxPort /\ b.proto \in Protos
  <2> DEFINE refused == "invalid port specification"
             fine == \A b \in ToSet(c.bindings) : b.port \in 1..MaxPort /\ b.proto \in Protos
  <2>1. refused # "none"
    OBVIOUS
  <2>2. "none" = IF fine THEN "none" ELSE refused
    BY <1>6 DEF assertPortBindings
  <2> HIDE DEF refused, fine
  <2> QED BY <2>1, <2>2 DEF fine
<1>7. ASSUME validateBinds(c.binds) = "none"
      PROVE  \A i \in DOMAIN c.binds : binds[i].mountpoint = c.binds[i].mountpoint
  <2> DEFINE refused == "Invalid binds"
             fine == \A b \in ToSet(c.binds) : IsBind(b)
  <2>1. refused # "none"
    OBVIOUS
  <2>2. "none" = IF fine THEN "none" ELSE refused
    BY <1>7 DEF validateBinds
  <2>3. fine
    <3> HIDE DEF refused, fine
    <3> QED BY <2>1, <2>2
  <2>4. \A i \in DOMAIN c.binds : c.binds[i].parts \in {2, 3}
    BY <2>3 DEF ToSet, IsBind
  <2> QED BY <2>4 DEF getVolumeInfoFromBindString
<1>8. ASSUME c.log = Absent
      PROVE  made.error = "none" /\ DOMAIN log.Config = {}
  <2>1. made = LogConfig_("none", Log("json-file", NoOptions))
    BY <1>8 DEF logConfigOf
  <2> QED BY <2>1 DEF LogConfig_, Log, NoOptions
<1> DEFINE driver == DriverOf(c.log)
           given == c.log.Config
           address == "syslog-address"
           all == DOMAIN given \union DefaultOpts(driver)
           filled == [o \in all |-> IF o \in DOMAIN given THEN given[o] ELSE DefaultValue(o)]
           options == [o \in all |-> IF driver = "syslog" /\ o = address THEN WithPort(filled[o])
                                     ELSE filled[o]]
<1>9. ASSUME c.log # Absent, assertLogConfig(c.log, config) = "none"
      PROVE  /\ driver \in config.drivers /\ RequiredOpts(driver) \subseteq DOMAIN given
             /\ DOMAIN given \subseteq Opts(driver)
  <2> DEFINE e1 == "unsupported log driver"
             e2 == "missing required log opt"
             e3 == "unknown log opt"
             rest == IF \E o \in DOMAIN given : given[o] = Malformed THEN "invalid log opt" ELSE "none"
             required == RequiredOpts(driver) \subseteq DOMAIN given
             known == DOMAIN given \subseteq Opts(driver)
             enabled == driver \in config.drivers
  <2>1. "none" = IF ~enabled THEN e1 ELSE IF ~required THEN e2 ELSE IF ~known THEN e3 ELSE rest
    BY <1>9 DEF assertLogConfig
  <2>2. e1 # "none" /\ e2 # "none" /\ e3 # "none"
    OBVIOUS
  <2> HIDE DEF e1, e2, e3, rest, required, known, enabled
  <2>3. required /\ known /\ enabled
    BY <2>1, <2>2
  <2> QED BY <2>3 DEF required, known, enabled
<1>10. ASSUME c.log # Absent, RequiredOpts(driver) \subseteq DOMAIN given
       PROVE  made.error = "none" /\ log = Log(driver, options)
  <2> DEFINE refused == LogConfig_("thrown", Log(driver, filled))
             missing == driver = "syslog" /\ address \notin all
  <2>1. made = IF c.log = Absent THEN LogConfig_("none", Log("json-file", NoOptions))
               ELSE IF missing THEN refused ELSE LogConfig_("none", Log(driver, options))
    BY DEF logConfigOf
  <2>2. driver = "syslog" => RequiredOpts(driver) = {address}
    BY DEF RequiredOpts
  <2> HIDE DEF refused, address, made, driver, given, options
  <2>3. ~missing
    BY <1>10, <2>2
  <2>4. made = LogConfig_("none", Log(driver, options))
    BY <1>10, <2>1, <2>3
  <2> QED BY <2>4 DEF LogConfig_, log
<1>11. ASSUME c.log # Absent
       PROVE  /\ \A o \in DOMAIN given : options[o].text = given[o].text
              /\ driver = "syslog" /\ address \in all => options[address].port # NoPort
  <2>1. \A o \in DOMAIN given : given[o] = Value(given[o].text, given[o].port)
    BY <1>1, <1>11
  <2>2. \A o : \E text, port : DefaultValue(o) = Value(text, port)
    BY DEF DefaultValue
  <2>3. \A o \in all : /\ options[o] = IF driver = "syslog" /\ o = address
                                        THEN WithPort(filled[o]) ELSE filled[o]
                       /\ filled[o] = IF o \in DOMAIN given THEN given[o] ELSE DefaultValue(o)
    OBVIOUS
  <2>4. DOMAIN given \subseteq all
    OBVIOUS
  <2> HIDE DEF given, address, all, filled, options
  <2>5. ASSUME NEW o \in DOMAIN given PROVE options[o].text = given[o].text
    <3>1. filled[o] = Value(given[o].text, given[o].port)
      BY <2>1, <2>3, <2>4
    <3>2. options[o] = WithPort(filled[o]) \/ options[o] = filled[o]
      BY <2>3, <2>4
    <3> DEFINE v == filled[o]
               w == options[o]
    <3> HIDE DEF v, w
    <3> QED BY <3>1, <3>2, ValueIs
  <2>6. ASSUME driver = "syslog", address \in all PROVE options[address].port # NoPort
    <3>1. \E text, port : filled[address] = Value(text, port)
      BY <2>1, <2>2, <2>3, <2>6
    <3>2. options[address] = WithPort(filled[address])
      BY <2>3, <2>6
    <3> QED BY <3>1, <3>2, ValueIs
  <2> QED BY <2>5, <2>6
<1>12. ASSUME c.log # Absent, assertLogConfig(c.log, config) = "none"
       PROVE  /\ made.error = "none"
              /\ log.Type \in config.drivers /\ DOMAIN log.Config \subseteq Opts(log.Type)
              /\ RequiredOpts(log.Type) \subseteq DOMAIN given
              /\ \A o \in DOMAIN given : log.Config[o].text = given[o].text
              /\ address \in DOMAIN log.Config => log.Config[address].port # NoPort
  <2>1. DefaultOpts(driver) \subseteq Opts(driver)
    BY DEF Opts
  <2>2. all \subseteq Opts(driver) /\ DOMAIN options = all
    BY <1>9, <1>12, <2>1
  <2>3. made.error = "none" /\ log = Log(driver, options)
    BY <1>9, <1>10, <1>12
  <2>5. address \in Opts(driver) => driver = "syslog"
    BY DEF Opts, RequiredOpts, DefaultOpts
  <2> HIDE DEF driver, given, address, all, filled, options, made, log
  <2>4. log.Type = driver /\ log.Config = options
    BY <2>3 DEF Log
  <2> QED BY <1>9, <1>11, <1>12, <2>2, <2>3, <2>4, <2>5
<1>13. ASSUME a.error = "none"
       PROVE  /\ a.log.error = "none"
              /\ c.log # Absent =>
                    /\ log.Type \in config.drivers /\ DOMAIN log.Config \subseteq Opts(log.Type)
                    /\ RequiredOpts(log.Type) \subseteq DOMAIN c.log.Config
                    /\ \A o \in DOMAIN c.log.Config : log.Config[o].text = c.log.Config[o].text
              /\ address \in DOMAIN log.Config => log.Config[address].port # NoPort
              /\ \A i \in DOMAIN c.binds : a.binds[i].mountpoint = c.binds[i].mountpoint
              /\ \A b \in ToSet(c.bindings) : b.port \in 1..MaxPort /\ b.proto \in Protos
              /\ c.links # <<>> => c.mode \in DefaultModes
              /\ \A v \in ToSet(c.volumes) : v.absolute
  <2>1. validateCreateContainer(c, config) = "none" /\ a.log = made /\ a.binds = binds
    BY <1>2, <1>13
  <2> HIDE DEF a, made, binds, log, address, driver, given, all, options, filled
  <2>2. /\ checkVolumeName(c.volumes) = "none" /\ assertNetworkingParams(c) = "none"
        /\ assertPortBindings(c.bindings) = "none" /\ validateBinds(c.binds) = "none"
        /\ c.log # Absent => assertLogConfig(c.log, config) = "none"
    BY <1>3, <2>1
  <2>3. CASE c.log = Absent
    BY <1>4, <1>5, <1>6, <1>7, <1>8, <2>1, <2>2, <2>3
  <2>4. CASE c.log # Absent
    <3>1. /\ made.error = "none"
          /\ log.Type \in config.drivers /\ DOMAIN log.Config \subseteq Opts(log.Type)
          /\ RequiredOpts(log.Type) \subseteq DOMAIN c.log.Config
          /\ \A o \in DOMAIN c.log.Config : log.Config[o].text = c.log.Config[o].text
          /\ address \in DOMAIN log.Config => log.Config[address].port # NoPort
      BY <1>12, <2>2, <2>4 DEF given
    <3> QED BY <1>4, <1>5, <1>6, <1>7, <2>1, <2>2, <2>4, <3>1
  <2> QED BY <2>3, <2>4
<1>14. CheckedAsAsked(q, a)
  <2> HIDE DEF a, made, binds
  <2> QED BY <1>2, <1>13 DEF CheckedAsAsked, c, config
<1> QED BY <1>14 DEF c, config

-----------------------------------------------------------------------------
(* Packages.                                                               *)
LEMMA PackageMeant ==
    ASSUME NEW q \in PackageQuestions
    PROVE  PackageAsAsked(q, getPackage(q.container, q.papi, q.config))
<1> DEFINE papi == q.papi
           word == q.container.package
           admitted == {i \in DOMAIN papi : buildPackageFilter(word, q.config.prefix, papi[i])}
           pkgs == Restrict(papi, admitted)
           a == getPackage(q.container, papi, q.config)
           need == getMemoryTarget(q.container, q.config)
           usable == {i \in DOMAIN papi : Usable(papi[i])}
           prefixed == {i \in usable : IsPrefix(q.config.prefix, papi[i].name) /\ papi[i].memory >= need}
           large == {papi[i] : i \in prefixed}
           named == {i \in usable : papi[i].name = word}
           byUuid == {i \in usable \ named :
                     IsHex(word) /\ Len(word) \in {ShortLength, UuidLength}
                     /\ IsPrefix(word, papi[i].uuid)}
<1>1. /\ need \in Nat /\ word \in Text_ /\ DOMAIN papi \in SUBSET Nat /\ IsFiniteSet(DOMAIN papi)
      /\ \A i \in DOMAIN papi : /\ papi[i].uuid \in Text_ /\ IsUUID(papi[i].uuid)
                                /\ papi[i].name \in Text_ /\ papi[i].memory \in Nat
  <2>1. papi \in Seq(ToSet(papi))
    BY RequestAssumption DEF IsList
  <2>2. DOMAIN papi = 1 .. Len(papi) /\ Len(papi) \in Nat
    BY <2>1
  <2>3. \A i \in DOMAIN papi : papi[i] \in ToSet(papi)
    BY DEF ToSet
  <2>4. IsFiniteSet(DOMAIN papi) /\ DOMAIN papi \in SUBSET Nat
    <3>1. PICK n \in Nat : DOMAIN papi = 1 .. n
      BY <2>2
    <3>2. IsFiniteSet(1 .. n)
      BY FS_Interval
    <3> QED BY <3>1, <3>2
  <2>5. need \in Nat /\ word \in Text_
    BY RequestAssumption DEF getMemoryTarget
  <2>6. \A p \in ToSet(papi) : /\ p.uuid \in Text_ /\ IsUUID(p.uuid)
                               /\ p.name \in Text_ /\ p.memory \in Nat
    BY RequestAssumption
  <2> QED BY <2>3, <2>4, <2>5, <2>6
<1>2. DOMAIN pkgs = admitted /\ \A i \in admitted : pkgs[i] = papi[i]
  BY DEF Restrict
<1> HIDE DEF pkgs
<1>3. CASE word = NoText
  <2> DEFINE enough == {i \in admitted : Usable(papi[i]) /\ papi[i].memory >= need}
             IsBetter(i, j) == \/ papi[i].memory < papi[j].memory
                               \/ papi[i].memory = papi[j].memory /\ i < j
             first == {i \in enough : \A j \in enough : ~IsBetter(j, i)}
  <2>1. a = {papi[i] : i \in first}
    BY <1>2, <1>3 DEF getPackage, getClosestMemoryPackage, pkgs
  <2>2. enough = prefixed
    BY <1>3 DEF buildPackageFilter
  <2>3. enough \in SUBSET Nat /\ IsFiniteSet(enough) /\ \A i \in enough : papi[i].memory \in Nat
    BY <1>1, FS_Subset
  <2>4. enough # {} => first # {}
    <3> SUFFICES ASSUME enough # {} PROVE first # {}
      OBVIOUS
    <3> DEFINE f == [i \in enough |-> papi[i].memory]
    <3> HIDE DEF enough
    <3>1. f \in [enough -> Nat]
      BY <2>3
    <3>2. PICK i \in enough : \A j \in enough : f[i] < f[j] \/ (f[i] = f[j] /\ i <= j)
      <4> HIDE DEF f
      <4> QED BY <2>3, <3>1, FirstIsThere
    <3>3. \A j \in enough : ~IsBetter(j, i)
      BY <2>3, <3>2
    <3> QED BY <3>2, <3>3
  <2>5. ASSUME NEW i \in first PROVE \A j \in enough : papi[i].memory <= papi[j].memory
    BY <2>3
  <2> HIDE DEF first, enough
  <2>6. first \subseteq enough
    BY DEF first
  <2>7. a = {} <=> large = {}
    BY <2>1, <2>2, <2>4, <2>6
  <2>8. \A p \in a : p \in large /\ \A other \in large : p.memory <= other.memory
    BY <2>1, <2>2, <2>5, <2>6
  <2> QED BY <1>3, <2>7, <2>8 DEF PackageAsAsked
<1>4. CASE word # NoText
  <2> DEFINE names == {i \in admitted : papi[i].name = word}
             uuids == {i \in admitted \ names :
                          \/ papi[i].uuid = word
                          \/ IsShortUuid(word) /\ IsPrefix(word, papi[i].uuid)}
             found == IF Cardinality(names) = 1 THEN names
                      ELSE IF Cardinality(uuids) = 1 THEN uuids ELSE {}
  <2>1. a = IF IsPackageName(word) THEN {papi[i] : i \in found} ELSE {}
    <3>1. a = IF IsPackageName(word) THEN getSpecifiedPackage(pkgs, word) ELSE {}
      BY <1>4 DEF getPackage, pkgs
    <3>2. {i \in DOMAIN pkgs : pkgs[i].name = word} = names
      BY <1>2
    <3>3. {i \in DOMAIN pkgs \ names : \/ pkgs[i].uuid = word
                                       \/ IsShortUuid(word) /\ IsPrefix(word, pkgs[i].uuid)} = uuids
      BY <1>2
    <3> HIDE DEF names, uuids
    <3>4. getSpecifiedPackage(pkgs, word) = {pkgs[i] : i \in found}
      BY <3>2, <3>3 DEF getSpecifiedPackage
    <3>5. found \subseteq admitted
      BY DEF names, uuids
    <3>6. {pkgs[i] : i \in found} = {papi[i] : i \in found}
      BY <1>2, <3>5
    <3> QED BY <3>1, <3>4, <3>6
  <2>2. names \subseteq named /\ (~IsUUID(word) => names = named)
    BY <1>4 DEF buildPackageFilter
  <2>3. uuids \subseteq byUuid
    <3>1. ASSUME NEW i \in uuids
          PROVE  IsHex(word) /\ Len(word) \in {ShortLength, UuidLength} /\ IsPrefix(word, papi[i].uuid)
      <4>1. CASE papi[i].uuid = word
        BY <1>1, <4>1, PrefixIs DEF IsUUID
      <4>2. CASE IsShortUuid(word) /\ IsPrefix(word, papi[i].uuid)
        BY <4>2 DEF IsShortUuid
      <4> QED BY <4>1, <4>2
    <3>2. \A i \in uuids : i \in usable \ named
      BY DEF buildPackageFilter
    <3> QED BY <3>1, <3>2
  <2>4. IsUUID(word) => \A i \in admitted : papi[i].uuid = word
    BY <1>4 DEF buildPackageFilter
  <2>5. ~IsUUID(word) => uuids = byUuid
    <3> SUFFICES ASSUME ~IsUUID(word), NEW i \in byUuid PROVE i \in uuids
      BY <2>3
    <3>1. IsShortUuid(word)
      BY DEF IsUUID, IsShortUuid
    <3> QED BY <1>4, <3>1 DEF buildPackageFilter
  <2> HIDE DEF names, uuids
  <2>6. found \subseteq names \union uuids
    OBVIOUS
  <2>7. names \union uuids \subseteq admitted
    BY DEF names, uuids
  <2>8. \A p \in a : \E i \in named \union byUuid : papi[i] = p
    BY <2>1, <2>2, <2>3, <2>6
  <2>9. IsPackageName(word) /\ Cardinality(named) = 1 /\ ~IsUUID(word) => a = {papi[i] : i \in named}
    BY <2>1, <2>2
  <2>10. a # {} => \/ Cardinality(named) = 1 \/ Cardinality(byUuid) = 1
                   \/ IsUUID(word) /\ \A p \in a : p.uuid = word
    <3>1. CASE IsUUID(word)
      BY <2>1, <2>4, <2>6, <2>7, <3>1
    <3>2. CASE ~IsUUID(word)
      BY <2>1, <2>2, <2>5, <3>2
    <3> QED BY <3>1, <3>2
  <2> HIDE DEF a, named, byUuid
  <2>11. word # NoText
    BY <1>4
  <2> QED BY <2>8, <2>9, <2>10, <2>11 DEF PackageAsAsked, a, named, byUuid
<1> QED BY <1>3, <1>4

-----------------------------------------------------------------------------
(* Affinity.                                                               *)
(* An expression is valid when it has the form that is documented, and     *)
(* nothing of it is lost.                                                  *)
LEMMA ParsesTheForm ==
    ASSUME NEW T, NEW s \in Seq(T), T = ToSet(s)
    PROVE  /\ parseFilterExpr(s) # BadExpr <=> HasForm(s)
           /\ HasForm(s) => Written(parseFilterExpr(s)) = s
<1> DEFINE op == IF "==" \in T THEN "==" ELSE "!="
           at == CHOOSE i \in DOMAIN s : s[i] = op /\ \A j \in 1 .. (i - 1) : s[j] # op
           rest == Tail_(s, at)
           soft == rest # <<>> /\ rest[1] = Soft
           value == IF soft THEN Tail(rest) ELSE rest
           e == parseFilterExpr(s)
           made == [valid |-> TRUE, key |-> s[1], operator |-> op, value |-> value, isSoft |-> soft,
                    valueType |-> ValueType(value)]
           valid == op \in T /\ IsKey(Head_(s, at - 1)) /\ IsValue(value)
           from == IF s[3] = Soft THEN 3 ELSE 2
           form == Tail_(s, from)
<1>1. /\ s \in Seq(T) /\ DOMAIN s = 1 .. Len(s) /\ Len(s) \in Nat
      /\ T = {s[i] : i \in 1 .. Len(s)}
  BY DEF ToSet
<1>2. e = IF valid THEN made ELSE BadExpr
  BY DEF parseFilterExpr
<1>3. made # BadExpr
  BY DEF BadExpr
<1> HIDE DEF e, made
<1>4. op \in T => at \in DOMAIN s /\ s[at] = op /\ \A j \in 1 .. (at - 1) : s[j] # op
  <2> SUFFICES ASSUME op \in T
               PROVE  \E i \in DOMAIN s : s[i] = op /\ \A j \in 1 .. (i - 1) : s[j] # op
    OBVIOUS
  <2> HIDE DEF op
  <2> DEFINE places == {i \in 1 .. Len(s) : s[i] = op}
  <2>1. places \in SUBSET Nat /\ places # {} /\ IsFiniteSet(places)
    <3>1. IsFiniteSet(1 .. Len(s))
      BY <1>1, FS_Interval
    <3> QED BY <1>1, <3>1, FS_Subset
  <2>2. PICK i \in places : \A j \in places : i <= j
    <3> HIDE DEF places
    <3> QED BY <2>1, LeastIsThere
  <2>3. \A j \in 1 .. (i - 1) : s[j] # op
    <3> SUFFICES ASSUME NEW j \in 1 .. (i - 1), s[j] = op PROVE FALSE
      OBVIOUS
    <3>1. j \in places /\ ~(i <= j)
      BY <1>1
    <3> QED BY <2>2, <3>1
  <2> QED BY <1>1, <2>3
<1>5. op \in Operators
  BY DEF Operators
<1> HIDE DEF at
<1>6. ASSUME at = 2, Len(s) >= 2
      PROVE  /\ Len(Head_(s, at - 1)) = 1 /\ Head_(s, at - 1)[1] = s[1]
             /\ Len(s) = 2 => value = <<>>
             /\ Len(s) > 2 => value = form /\ (soft <=> s[3] = Soft)
             /\ value \in Seq(T)
  <2>1. /\ Head_(s, 1) \in Seq(T) /\ Len(Head_(s, 1)) = 1 /\ Head_(s, 1)[1] = s[1]
        /\ rest \in Seq(T) /\ Len(rest) = Len(s) - 2
        /\ \A i \in 1 .. Len(s) - 2 : rest[i] = s[2 + i]
        /\ 2 < Len(s) => Tail(rest) = Tail_(s, 3)
    <3>1. 1 \in 0 .. Len(s) /\ 2 \in 0 .. Len(s)
      BY <1>1, <1>6
    <3>2. /\ Head_(s, 1) \in Seq(T) /\ Len(Head_(s, 1)) = 1
          /\ \A i \in 1 .. 1 : Head_(s, 1)[i] = s[i]
      BY <1>1, <3>1, PartsOf
    <3>3. /\ Tail_(s, 2) \in Seq(T) /\ Len(Tail_(s, 2)) = Len(s) - 2
          /\ \A i \in 1 .. Len(s) - 2 : Tail_(s, 2)[i] = s[2 + i]
          /\ 2 < Len(s) => Tail(Tail_(s, 2)) = Tail_(s, 2 + 1)
      BY <1>1, <3>1, PartsOf, Zenon
    <3>4. rest = Tail_(s, 2) /\ 2 + 1 = 3
      BY <1>6
    <3>5. Head_(s, 1)[1] = s[1]
      BY <3>2
    <3> HIDE DEF rest
    <3> QED BY <3>2, <3>3, <3>4, <3>5
  <2>2. rest = <<>> <=> Len(s) = 2
    <3> HIDE DEF rest
    <3>1. Len(s) \in Nat
      BY <1>1
    <3>2. rest \in Seq(T) /\ Len(rest) = Len(s) - 2
      BY <2>1
    <3>3. rest = <<>> <=> Len(rest) = 0
      BY <3>2, NoEntries, Zenon
    <3>4. Len(rest) = 0 <=> Len(s) = 2
      BY <3>1, <3>2
    <3> QED BY <3>3, <3>4
  <2>3. Len(s) > 2 => rest[1] = s[3] /\ Tail_(s, 3) \in Seq(T) /\ Len(Tail_(s, 3)) = Len(s) - 3
    <3> SUFFICES ASSUME Len(s) > 2
                 PROVE  rest[1] = s[3] /\ Tail_(s, 3) \in Seq(T) /\ Len(Tail_(s, 3)) = Len(s) - 3
      OBVIOUS
    <3>1. 3 \in 0 .. Len(s) /\ 1 \in 1 .. Len(s) - 2
      BY <1>1
    <3>2. Tail_(s, 3) \in Seq(T) /\ Len(Tail_(s, 3)) = Len(s) - 3
      BY <1>1, <3>1, PartsOf
    <3>3. rest[1] = s[2 + 1]
      <4> HIDE DEF rest
      <4> QED BY <2>1, <3>1
    <3> QED BY <3>2, <3>3
  <2>4. Len(s) > 2 => (soft <=> s[3] = Soft)
    <3>1. Len(s) > 2 => Len(s) # 2
      BY <1>1
    <3> HIDE DEF rest
    <3> QED BY <2>2, <2>3, <3>1, Zenon
  <2>5. Len(s) > 2 => value = form
    BY <1>6, <2>1, <2>4
  <2>6. Len(s) = 2 => value = <<>> /\ ~soft
    BY <2>2
  <2>7. Len(s) > 2 => value \in Seq(T) /\ Len(value) = Len(s) - (IF s[3] = Soft THEN 3 ELSE 2)
    BY <1>1, <1>6, <2>1, <2>3, <2>4
  <2> HIDE DEF value, soft, form
  <2>9. value \in Seq(T)
    <3>1. CASE Len(s) > 2
      BY <2>7, <3>1
    <3>2. CASE Len(s) = 2
      BY <2>6, <3>2
    <3> QED BY <1>1, <1>6, <3>1, <3>2
  <2> QED BY <1>6, <2>1, <2>4, <2>5, <2>6, <2>9
<1>7. ASSUME valid PROVE at = 2 /\ Len(s) > 2 /\ HasForm(s)
  <2>1. at \in 1 .. Len(s) /\ s[at] = op
    BY <1>1, <1>4, <1>7
  <2>2. Len(Head_(s, at - 1)) = at - 1
    <3>1. at - 1 \in 0 .. Len(s)
      BY <1>1, <2>1
    <3> QED BY <1>1, <3>1, PartsOf
  <2>3. at = 2
    <3>1. Len(Head_(s, at - 1)) = 1
      BY <1>7 DEF IsKey
    <3>2. at \in Int
      BY <1>1, <2>1
    <3>3. at - 1 = 1
      BY <2>2, <3>1, Zenon
    <3> QED BY <3>2, <3>3
  <2>4. Len(s) >= 2
    BY <1>1, <2>1, <2>3
  <2>5. Len(s) > 2 /\ value = form
    <3>1. value # <<>>
      BY <1>7 DEF IsValue
    <3> HIDE DEF value, form
    <3>2. Len(s) > 2
      <4>1. Len(s) # 2
        BY <1>6, <2>3, <2>4, <3>1
      <4> QED BY <1>1, <2>4, <4>1
    <3> QED BY <1>6, <2>3, <2>4, <3>2
  <2>6. IsKey(<<s[1]>>)
    BY <1>6, <1>7, <2>3, <2>4 DEF IsKey
  <2> HIDE DEF value, form, op
  <2>7. form # <<>> /\ \A t \in ToSet(form) : t \notin {"==", "!=", Soft}
    BY <1>7, <2>5 DEF IsValue, Operators
  <2>8. s[2] \in {"==", "!="}
    BY <1>5, <2>1, <2>3 DEF Operators
  <2> QED BY <2>3, <2>5, <2>6, <2>7, <2>8 DEF HasForm, form
<1>8. ASSUME HasForm(s) PROVE valid /\ Written(made) = s
  <2>1. /\ Len(s) > 2 /\ IsKey(<<s[1]>>) /\ s[2] \in {"==", "!="}
        /\ form # <<>> /\ \A t \in ToSet(form) : t \notin {"==", "!=", Soft}
    BY <1>8 DEF HasForm
  <2>2. from \in 0 .. Len(s)
    BY <1>1, <2>1
  <2>3. /\ form \in Seq(T) /\ Len(form) = Len(s) - from
        /\ \A i \in 1 .. Len(s) - from : form[i] = s[from + i]
    <3> HIDE DEF from
    <3> QED BY <1>1, <2>2, PartsOf
  <2>4. s[1] \notin Operators
    BY <2>1 DEF IsKey
  <2>5. ASSUME NEW i \in 3 .. Len(s) PROVE s[i] \notin Operators
    <3> HIDE DEF form
    <3>1. CASE i <= from
      BY <1>1, <3>1 DEF Soft, Operators
    <3>2. CASE i > from
      <4>1. i - from \in 1 .. Len(form) /\ form[i - from] = s[i]
        <5> HIDE DEF from
        <5>1. i \in Nat /\ from \in Nat /\ i <= Len(s) /\ i - from \in 1 .. Len(s) - from
          BY <1>1, <2>2, <3>2
        <5>2. form[i - from] = s[from + (i - from)] /\ from + (i - from) = i
          BY <2>3, <5>1
        <5> QED BY <2>3, <5>1, <5>2
      <4>2. s[i] \in ToSet(form)
        <5>1. DOMAIN form = 1 .. Len(form)
          BY <2>3
        <5> QED BY <4>1, <5>1, Zenon DEF ToSet
      <4> QED BY <2>1, <4>2 DEF Operators
    <3> QED BY <1>1, <2>2, <3>1, <3>2
  <2>6. \A i \in 1 .. Len(s) : i # 2 => s[i] \notin Operators
    BY <1>1, <2>4, <2>5
  <2>7. s[2] \in T
    BY <1>1, <2>1
  <2>8. op = s[2]
    BY <1>1, <2>1, <2>6, <2>7 DEF Operators
  <2> HIDE DEF op
  <2>9. op \in T /\ at = 2
    BY <1>1, <1>4, <1>5, <2>6, <2>7, <2>8
  <2>10. /\ Len(Head_(s, at - 1)) = 1 /\ Head_(s, at - 1)[1] = s[1]
         /\ value = form /\ (soft <=> s[3] = Soft)
    BY <1>1, <1>6, <2>1, <2>9
  <2> HIDE DEF value, soft
  <2>11. IsKey(Head_(s, at - 1))
    BY <2>1, <2>10 DEF IsKey
  <2>12. IsValue(value)
    BY <2>1, <2>10 DEF IsValue, Operators
  <2>13. Written(made) = (<<s[1], s[2]>> \o (IF s[3] = Soft THEN <<Soft>> ELSE <<>>)) \o form
    BY <2>8, <2>10 DEF Written, made
  <2> DEFINE w == (<<s[1], s[2]>> \o (IF s[3] = Soft THEN <<Soft>> ELSE <<>>)) \o form
  <2>14. w = s
    <3>1. s[1] \in T /\ s[2] \in T /\ s[3] \in T
      BY <1>1, <2>1
    <3> HIDE DEF form
    <3>2. CASE s[3] = Soft
      <4>1. w = <<s[1], s[2], Soft>> \o form
        BY <3>2
      <4>2. w \in Seq(T) /\ Len(w) = Len(s) /\ \A i \in 1 .. Len(w) : w[i] = s[i]
        <5>1. w \in Seq(T) /\ Len(w) = 3 + Len(form)
          BY <2>3, <3>1, <3>2, <4>1
        <5>2. w[1] = s[1] /\ w[2] = s[2] /\ w[3] = s[3] /\ \A i \in 1 .. Len(form) : w[3 + i] = form[i]
          BY <2>3, <3>1, <3>2, <4>1
        <5> HIDE DEF w
        <5>3. Len(w) = Len(s)
          BY <1>1, <2>1, <2>3, <3>2, <5>1
        <5>4. ASSUME NEW i \in 1 .. Len(w) PROVE w[i] = s[i]
          <6>1. CASE i > 3
            <7>1. i - 3 \in 1 .. Len(form) /\ 3 + (i - 3) = i
              BY <2>3, <5>1, <6>1
            <7>2. w[i] = form[i - 3]
              BY <5>2, <7>1
            <7>3. form[i - 3] = s[i]
              BY <2>3, <3>2, <7>1
            <7> QED BY <7>2, <7>3
          <6>2. CASE i \in {1, 2, 3}
            BY <5>2, <6>2
          <6> QED BY <5>1, <6>1, <6>2
        <5> QED BY <5>1, <5>3, <5>4
      <4> HIDE DEF w
      <4> QED BY <1>1, <4>2, SeqEqual
    <3>3. CASE s[3] # Soft
      <4>1. w = <<s[1], s[2]>> \o form
        BY <2>3, <3>3
      <4>2. w \in Seq(T) /\ Len(w) = Len(s) /\ \A i \in 1 .. Len(w) : w[i] = s[i]
        <5>1. w \in Seq(T) /\ Len(w) = 2 + Len(form)
          BY <2>3, <3>1, <3>3, <4>1
        <5>2. w[1] = s[1] /\ w[2] = s[2] /\ \A i \in 1 .. Len(form) : w[2 + i] = form[i]
          BY <2>3, <3>1, <3>3, <4>1
        <5> HIDE DEF w
        <5>3. Len(w) = Len(s)
          BY <1>1, <2>1, <2>3, <3>3, <5>1
        <5>4. ASSUME NEW i \in 1 .. Len(w) PROVE w[i] = s[i]
          <6>1. CASE i > 2
            <7>1. i - 2 \in 1 .. Len(form) /\ 2 + (i - 2) = i
              BY <2>3, <5>1, <6>1
            <7>2. w[i] = form[i - 2]
              BY <5>2, <7>1
            <7>3. form[i - 2] = s[i]
              BY <2>3, <3>3, <7>1
            <7> QED BY <7>2, <7>3
          <6>2. CASE i \in {1, 2}
            BY <5>2, <6>2
          <6> QED BY <5>1, <6>1, <6>2
        <5> QED BY <5>1, <5>3, <5>4
      <4> HIDE DEF w
      <4> QED BY <1>1, <4>2, SeqEqual
    <3> QED BY <3>2, <3>3
  <2> QED BY <2>9, <2>11, <2>12, <2>13, <2>14
<1> HIDE DEF valid
<1> QED BY <1>2, <1>3, <1>7, <1>8 DEF e

LEMMA AffinityMeant ==
    ASSUME NEW q \in AffinityQuestions
    PROVE  AffinityAsAsked(q, affinitiesFromContainer(q.container))
<1> DEFINE c == q.container
           affine == {e \in ToSet(c.env) : IsAffinity(e)}
           hints == Kept(c.env, affine)
           ofHints == [i \in DOMAIN hints |-> hints[i].expr]
           exprs == c.label \o ofHints
           parsed == [i \in DOMAIN exprs |-> parseFilterExpr(exprs[i])]
           invalid == BadExpr \in ToSet(parsed)
           unlabelled == hints # <<>> /\ ~c.hasLabels
           rest == Kept(c.env, ToSet(c.env) \ affine)
           made == [error |-> IF invalid \/ unlabelled THEN "invalid affinity" ELSE "none",
                    affinities |-> IF invalid \/ unlabelled THEN <<>> ELSE parsed,
                    label |-> IF invalid \/ unlabelled \/ hints = <<>> THEN c.label ELSE exprs,
                    env |-> IF invalid THEN c.env ELSE rest,
                    payloadEnv |-> c.env]
           X == ToSet(c.label) \union {e.expr : e \in affine}
           fine == /\ \A s \in ToSet(exprs) : HasForm(s)
                   /\ hints # <<>> => c.hasLabels
<1>1. /\ c.env \in Seq(ToSet(c.env)) /\ c.label \in Seq(ToSet(c.label))
      /\ \A i \in DOMAIN c.label : c.label[i] \in Seq(ToSet(c.label[i]))
      /\ \A e \in affine : e.expr \in Seq(ToSet(e.expr))
  BY RequestAssumption DEF IsList
<1>2. affinitiesFromContainer(c) = made
  BY DEF affinitiesFromContainer
<1>3. hints \in Seq(affine)
  <2> DEFINE T == ToSet(c.env)
  <2>1. hints \in Seq(T \cap affine) /\ T \cap affine = affine
    <3>1. T \cap affine = affine
      OBVIOUS
    <3> HIDE DEF T, affine
    <3>2. hints \in Seq(T \cap affine)
      BY <1>1, KeptIs DEF T
    <3> QED BY <3>1, <3>2
  <2> HIDE DEF T, affine, hints
  <2> QED BY <2>1
<1>4. \A e \in ToSet(rest) : ~IsAffinity(e)
  <2> DEFINE T == ToSet(c.env)
             others == T \ affine
  <2>1. rest \in Seq(T \cap others)
    <3> HIDE DEF T, affine, others
    <3>1. Kept(c.env, others) \in Seq(T \cap others)
      BY <1>1, KeptIs DEF T
    <3> QED BY <3>1 DEF others, T
  <2>2. ToSet(rest) \subseteq T \cap others
    <3> HIDE DEF rest, others, T
    <3> QED BY <2>1 DEF ToSet
  <2> QED BY <2>2
<1>5. \A s \in X : s \in Seq(ToSet(s))
  <2> SUFFICES ASSUME NEW s \in X PROVE s \in Seq(ToSet(s))
    OBVIOUS
  <2>1. CASE s \in ToSet(c.label)
    <3>1. \A t \in ToSet(c.label) : \E i \in DOMAIN c.label : t = c.label[i]
      BY DEF ToSet
    <3> QED BY <1>1, <2>1, <3>1
  <2>2. CASE \E e \in affine : s = e.expr
    <3> HIDE DEF affine
    <3> QED BY <1>1, <2>2
  <2> QED BY <2>1, <2>2
<1> HIDE DEF hints
<1>6. ofHints \in Seq(X)
  <2> HIDE DEF affine
  <2>1. Len(hints) \in Nat /\ DOMAIN hints = 1 .. Len(hints) /\ \A i \in DOMAIN hints : hints[i] \in affine
    BY <1>3
  <2>2. \A i \in DOMAIN hints : ofHints[i] \in X
    BY <2>1
  <2> HIDE DEF X
  <2> QED BY <2>1, <2>2
<1>7. exprs \in Seq(X)
  <2>1. c.label \in Seq(X)
    <3>1. ToSet(c.label) \subseteq X
      OBVIOUS
    <3> HIDE DEF X
    <3> QED BY <1>1, <3>1
  <2> HIDE DEF X, ofHints
  <2> QED BY <1>6, <2>1
<1> HIDE DEF exprs, X, affine, rest
<1>8. DOMAIN exprs = 1 .. Len(exprs) /\ \A i \in DOMAIN exprs : exprs[i] \in X
  BY <1>7
<1>9. \A i \in DOMAIN exprs : /\ parsed[i] # BadExpr <=> HasForm(exprs[i])
                              /\ HasForm(exprs[i]) => Written(parsed[i]) = exprs[i]
  <2> SUFFICES ASSUME NEW i \in DOMAIN exprs
               PROVE  /\ parseFilterExpr(exprs[i]) # BadExpr <=> HasForm(exprs[i])
                      /\ HasForm(exprs[i]) => Written(parseFilterExpr(exprs[i])) = exprs[i]
    OBVIOUS
  <2>1. exprs[i] \in Seq(ToSet(exprs[i]))
    BY <1>5, <1>8
  <2> QED BY <2>1, ParsesTheForm
<1>10. DOMAIN parsed = DOMAIN exprs
  OBVIOUS
<1> HIDE DEF parsed
<1>11. fine <=> ~(invalid \/ unlabelled)
  <2>1. ToSet(exprs) = {exprs[i] : i \in DOMAIN exprs} /\ ToSet(parsed) = {parsed[i] : i \in DOMAIN exprs}
    BY <1>10 DEF ToSet
  <2>2. (\A s \in ToSet(exprs) : HasForm(s)) <=> ~invalid
    BY <1>9, <2>1
  <2> QED BY <2>2
<1>12. fine => [i \in DOMAIN parsed |-> Written(parsed[i])] = exprs
  <2> SUFFICES ASSUME fine PROVE [i \in DOMAIN parsed |-> Written(parsed[i])] = exprs
    OBVIOUS
  <2>1. \A i \in DOMAIN exprs : HasForm(exprs[i])
    BY DEF ToSet
  <2>2. \A i \in DOMAIN exprs : Written(parsed[i]) = exprs[i]
    BY <1>9, <2>1
  <2>3. [i \in DOMAIN parsed |-> Written(parsed[i])] = [i \in DOMAIN exprs |-> exprs[i]]
    BY <1>10, <2>2
  <2>4. exprs = [i \in DOMAIN exprs |-> exprs[i]]
    BY <1>7
  <2> QED BY <2>3, <2>4
<1> HIDE DEF invalid, unlabelled
<1>13. /\ fine => /\ made.error = "none" /\ made.affinities = parsed
                  /\ hints # <<>> => made.label = exprs
                  /\ made.env = rest
       /\ ~fine => made.error # "none"
  <2> HIDE DEF fine
  <2> QED BY <1>11
<1> HIDE DEF made
<1>14. fine <=> (\A s \in ToSet(exprs) : HasForm(s)) /\ (hints = <<>> \/ c.hasLabels)
  OBVIOUS
<1>15. EnvHints(c) = hints /\ AllHints(c) = exprs
  BY DEF EnvHints, AllHints, exprs, hints, affine
<1> HIDE DEF fine, c
<1>16. /\ made.error = "none" =>
             /\ \A s \in ToSet(exprs) : HasForm(s)
             /\ [i \in DOMAIN made.affinities |-> Written(made.affinities[i])] = exprs
             /\ hints # <<>> => made.label = exprs
             /\ \A e \in ToSet(made.env) : ~IsAffinity(e)
       /\ (\A s \in ToSet(exprs) : HasForm(s)) /\ (hints = <<>> \/ c.hasLabels) => made.error = "none"
  BY <1>4, <1>12, <1>13, <1>14
<1>17. AffinityAsAsked(q, made)
  BY <1>15, <1>16 DEF AffinityAsAsked, c
<1> QED BY <1>2, <1>17 DEF c

-----------------------------------------------------------------------------
(* Mounts.                                                                 *)
(* Of two lists one after the other.                                       *)
LEMMA TimesOfBoth ==
    ASSUME NEW T, NEW s \in Seq(T), NEW t \in Seq(T), NEW d
    PROVE  /\ Times(d, s) \in Nat /\ Times(d, t) \in Nat
           /\ Times(d, s \o t) = Times(d, s) + Times(d, t)
           /\ Dirs(s \o t) = Dirs(s) \union Dirs(t)
<1> DEFINE m == Len(s)
           n == Len(t)
           A == {i \in 1 .. m : s[i].dir = d}
           B == {i \in 1 .. n : t[i].dir = d}
           C == {i \in m + 1 .. m + n : t[i - m].dir = d}
           st == s \o t
           both == {i \in 1 .. m + n : st[i].dir = d}
           f == [i \in B |-> m + i]
<1>1. /\ m \in Nat /\ n \in Nat /\ DOMAIN s = 1 .. m /\ DOMAIN t = 1 .. n
      /\ DOMAIN st = 1 .. m + n
      /\ \A i \in 1 .. m : st[i] = s[i]
      /\ \A i \in m + 1 .. m + n : st[i] = t[i - m]
  OBVIOUS
<1>2. Times(d, s) = Cardinality(A) /\ Times(d, t) = Cardinality(B) /\ Times(d, st) = Cardinality(both)
  BY <1>1 DEF Times
<1>3. \A i \in 1 .. m + n : i \in 1 .. m \/ i \in m + 1 .. m + n
  BY <1>1
<1>4. Dirs(st) = Dirs(s) \union Dirs(t)
  <2>1. ASSUME NEW x \in Dirs(st) PROVE x \in Dirs(s) \union Dirs(t)
    <3>1. PICK i \in 1 .. m + n : x = st[i].dir
      BY <1>1 DEF Dirs
    <3>2. i \in m + 1 .. m + n => i - m \in 1 .. n
      BY <1>1
    <3> QED BY <1>1, <1>3, <3>1, <3>2 DEF Dirs
  <2>2. \A i \in 1 .. m : i \in 1 .. m + n /\ s[i] = st[i]
    BY <1>1
  <2>3. \A i \in 1 .. n : m + i \in 1 .. m + n /\ t[i] = st[m + i]
    <3> SUFFICES ASSUME NEW i \in 1 .. n PROVE m + i \in 1 .. m + n /\ t[i] = st[m + i]
      OBVIOUS
    <3>1. m + i \in m + 1 .. m + n /\ (m + i) - m = i /\ m + i \in 1 .. m + n
      BY <1>1
    <3> QED BY <1>1, <3>1
  <2>4. ASSUME NEW x \in Dirs(s) PROVE x \in Dirs(st)
    <3>1. PICK i \in 1 .. m : x = s[i].dir
      BY <1>1 DEF Dirs
    <3>2. i \in DOMAIN st /\ st[i].dir = x
      BY <1>1, <2>2, <3>1
    <3> QED BY <3>2 DEF Dirs
  <2>5. ASSUME NEW x \in Dirs(t) PROVE x \in Dirs(st)
    <3>1. PICK i \in 1 .. n : x = t[i].dir
      BY <1>1 DEF Dirs
    <3>2. m + i \in DOMAIN st /\ st[m + i].dir = x
      BY <1>1, <2>3, <3>1
    <3> QED BY <3>2 DEF Dirs
  <2> QED BY <2>1, <2>4, <2>5
<1> HIDE DEF m, n, st
<1>5. both = A \union C /\ A \intersect C = {}
  BY <1>1, <1>3
<1>6. IsFiniteSet(A) /\ IsFiniteSet(B) /\ IsFiniteSet(C)
  <2>1. IsFiniteSet(1 .. m) /\ IsFiniteSet(1 .. n) /\ IsFiniteSet(m + 1 .. m + n)
    BY <1>1, FS_Interval
  <2> QED BY <2>1, FS_Subset
<1>7. Cardinality(C) = Cardinality(B)
  <2>1. f \in [B -> C]
    BY <1>1
  <2>2. \A i, j \in B : f[i] = f[j] => i = j
    BY <1>1
  <2>3. \A j \in C : \E i \in B : f[i] = j
    <3> SUFFICES ASSUME NEW j \in C PROVE j - m \in B /\ f[j - m] = j
      OBVIOUS
    <3> QED BY <1>1
  <2> HIDE DEF B, C, f
  <2>4. f \in Bijection(B, C)
    BY <2>1, <2>2, <2>3 DEF Bijection, Injection, Surjection, IsInjective
  <2>5. ExistsBijection(B, C)
    BY <2>4 DEF ExistsBijection
  <2> QED BY <1>6, <2>5, FS_Bijection
<1> HIDE DEF A, B, C, both
<1>8. Cardinality(both) = Cardinality(A) + Cardinality(C)
  <2>1. Cardinality(A \intersect C) = 0
    BY <1>5, FS_EmptySet
  <2>2. Cardinality(A) \in Nat /\ Cardinality(C) \in Nat
    BY <1>6, FS_CardinalityType
  <2>3. Cardinality(A \union C) = Cardinality(A) + Cardinality(C) - Cardinality(A \intersect C)
    BY <1>6, FS_Union
  <2> QED BY <1>5, <2>1, <2>2, <2>3
<1>9. Cardinality(A) \in Nat /\ Cardinality(B) \in Nat
  BY <1>6, FS_CardinalityType
<1> QED BY <1>2, <1>4, <1>7, <1>8, <1>9 DEF st

(* A list in which no directory comes twice has each of its own once.      *)
OneOfEach(s) == \A i, j \in DOMAIN s : s[i].dir = s[j].dir => i = j
LEMMA TimesOnce ==
    ASSUME NEW T, NEW s \in Seq(T), OneOfEach(s), NEW d
    PROVE  Times(d, s) = IF d \in Dirs(s) THEN 1 ELSE 0
<1> DEFINE A == {i \in DOMAIN s : s[i].dir = d}
<1>1. CASE d \in Dirs(s)
  <2>1. PICK i \in DOMAIN s : s[i].dir = d
    BY <1>1 DEF Dirs
  <2>2. A = {i}
    BY <2>1 DEF OneOfEach
  <2> QED BY <1>1, <2>2, FS_Singleton DEF Times
<1>2. CASE d \notin Dirs(s)
  <2>1. A = {}
    BY <1>2 DEF Dirs
  <2> QED BY <1>2, <2>1, FS_EmptySet DEF Times
<1> QED BY <1>1, <1>2

LEMMA TimesOfOthers ==
    ASSUME NEW s, NEW d, d \notin Dirs(s)
    PROVE  Times(d, s) = 0
<1> DEFINE A == {i \in DOMAIN s : s[i].dir = d}
<1>1. A = {}
  BY DEF Dirs
<1> QED BY <1>1, FS_EmptySet DEF Times

(* What volumes add: the state of a payload with these mounts besides what *)
(* is given, and that they are what is wanted besides it.                  *)
PathsIn(D) == [dir : D, plain : BOOLEAN]
PlainIn(D) == [dir : D, plain : {TRUE}]
Mounted(vf, e, b) == Mounts("none", vf \o e, b)
Serves(e, given, wanted, plain) ==
    /\ Dirs(e) \subseteq wanted /\ wanted \subseteq Dirs(e) \union Dirs(given)
    /\ plain = TRUE => OneOfEach(e) /\ Dirs(e) \intersect Dirs(given) = {}

LEMMA DirsIn ==
    ASSUME NEW T, NEW s \in Seq(T)
    PROVE  /\ Dirs(s) = {p.dir : p \in ToSet(s)}
           /\ \A p \in ToSet(s) : p \in T /\ \E i \in DOMAIN s : s[i] = p
  BY DEF Dirs, ToSet

LEMMA NormalizedIs ==
    ASSUME NEW D, NEW p \in PathsIn(D)
    PROVE  /\ normalize(p) \in PlainIn(D) /\ normalize(p) \in PathsIn(D)
           /\ normalize(p).dir = p.dir
  BY DEF PathsIn, PlainIn, normalize

LEMMA VolumeAdded ==
    ASSUME NEW D, NEW vf \in Seq(PathsIn(D)), NEW e \in Seq(PlainIn(D)), NEW b,
           NEW p \in PathsIn(D)
    PROVE  /\ Append(e, normalize(p)) \in Seq(PlainIn(D))
           /\ addDataVolume(Mounted(vf, e, b), p) = Mounted(vf, Append(e, normalize(p)), b)
<1> DEFINE np == normalize(p)
<1>1. np \in PlainIn(D) /\ np \in PathsIn(D)
  BY NormalizedIs
<1>2. e \in Seq(PathsIn(D))
  <2>1. PlainIn(D) \subseteq PathsIn(D)
    BY DEF PlainIn, PathsIn
  <2> HIDE DEF np
  <2> QED BY <2>1, SeqMonotonic
<1> HIDE DEF np
<1>3. Append(vf \o e, np) = vf \o Append(e, np)
  <2> DEFINE P == PathsIn(D)
  <2>1. vf \in Seq(P) /\ e \in Seq(P) /\ np \in P
    BY <1>1, <1>2
  <2> HIDE DEF P
  <2> QED BY <2>1
<1>4. addDataVolume(Mounted(vf, e, b), p) = Mounts("none", Append(vf \o e, np), b)
  <2> DEFINE fs == vf \o e
             m == Mounts("none", fs, b)
             longer == Append(fs, np)
  <2> HIDE DEF fs, np, longer
  <2>1. [m EXCEPT !.filesystems = longer] = Mounts("none", longer, b)
    BY DEF Mounts
  <2>2. m.filesystems = fs
    BY DEF Mounts
  <2> HIDE DEF m
  <2>3. [m EXCEPT !.filesystems = Append(m.filesystems, np)] = Mounts("none", longer, b)
    BY <2>1, <2>2 DEF longer
  <2> QED BY <2>3 DEF addDataVolume, Mounted, np, fs, m, longer
<1>5. Append(e, np) \in Seq(PlainIn(D))
  BY <1>1, AppendProperties
<1> QED BY <1>3, <1>4, <1>5 DEF Mounted, np

LEMMA ServesOn ==
    ASSUME NEW D, NEW e \in Seq(PlainIn(D)), NEW p \in PathsIn(D), NEW given, NEW wanted,
           NEW plain, Serves(e, given, wanted, plain)
    PROVE  /\ p.dir \in Dirs(e) \union Dirs(given) => Serves(e, given, wanted \union {p.dir}, plain)
           /\ (plain = TRUE => p.dir \notin Dirs(e) \union Dirs(given))
                 => Serves(Append(e, normalize(p)), given, wanted \union {p.dir}, plain)
<1>1. ASSUME p.dir \in Dirs(e) \union Dirs(given)
      PROVE  Serves(e, given, wanted \union {p.dir}, plain)
  BY <1>1 DEF Serves
<1>2. ASSUME plain = TRUE => p.dir \notin Dirs(e) \union Dirs(given)
      PROVE  Serves(Append(e, normalize(p)), given, wanted \union {p.dir}, plain)
  <2> DEFINE np == normalize(p)
             t == Append(e, np)
  <2>1. np \in PlainIn(D) /\ np.dir = p.dir
    BY NormalizedIs
  <2> HIDE DEF np
  <2>2. /\ DOMAIN t = 1 .. Len(e) + 1 /\ DOMAIN e = 1 .. Len(e) /\ Len(e) \in Nat
        /\ \A i \in 1 .. Len(e) : t[i] = e[i]
        /\ t[Len(e) + 1] = np
    BY <2>1
  <2>3. Dirs(t) = Dirs(e) \union {p.dir}
    <3> HIDE DEF t
    <3>1. ASSUME NEW x \in Dirs(t) PROVE x \in Dirs(e) \union {p.dir}
      <4>1. PICK i \in DOMAIN t : x = t[i].dir
        BY DEF Dirs
      <4>2. CASE i = Len(e) + 1
        BY <2>1, <2>2, <4>1, <4>2
      <4>3. CASE i # Len(e) + 1
        <5>1. i \in 1 .. Len(e)
          BY <2>2, <4>1, <4>3
        <5> QED BY <2>2, <4>1, <5>1 DEF Dirs
      <4> QED BY <4>2, <4>3
    <3>2. ASSUME NEW x \in Dirs(e) PROVE x \in Dirs(t)
      <4>1. PICK i \in DOMAIN e : x = e[i].dir
        BY DEF Dirs
      <4>2. i \in DOMAIN t /\ t[i] = e[i]
        BY <2>2, <4>1
      <4> QED BY <4>1, <4>2 DEF Dirs
    <3>3. p.dir \in Dirs(t)
      <4>1. Len(e) + 1 \in DOMAIN t
        BY <2>2
      <4> QED BY <2>1, <2>2, <4>1 DEF Dirs
    <3> QED BY <3>1, <3>2, <3>3
  <2>4. ASSUME plain = TRUE PROVE OneOfEach(t) /\ Dirs(t) \intersect Dirs(given) = {}
    <3> HIDE DEF t
    <3>1. OneOfEach(e) /\ Dirs(e) \intersect Dirs(given) = {}
      BY <2>4 DEF Serves
    <3>2. p.dir \notin Dirs(e) /\ p.dir \notin Dirs(given)
      BY <1>2, <2>4
    <3>3. ASSUME NEW i \in DOMAIN t, NEW j \in DOMAIN t, t[i].dir = t[j].dir PROVE i = j
      <4>1. \A k \in DOMAIN t : k = Len(e) + 1 \/ k \in 1 .. Len(e)
        BY <2>2
      <4>2. \A k \in 1 .. Len(e) : t[k].dir # p.dir
        BY <2>2, <3>2 DEF Dirs
      <4>3. CASE i \in 1 .. Len(e) /\ j \in 1 .. Len(e)
        BY <2>2, <3>1, <3>3, <4>3 DEF OneOfEach
      <4>4. CASE i = Len(e) + 1 \/ j = Len(e) + 1
        BY <2>1, <2>2, <3>3, <4>1, <4>2, <4>4
      <4> QED BY <4>1, <4>3, <4>4
    <3>4. OneOfEach(t)
      BY <3>3 DEF OneOfEach
    <3> QED BY <2>3, <3>1, <3>2, <3>4
  <2> HIDE DEF t
  <2>5. Dirs(t) \subseteq wanted \union {p.dir}
    BY <2>3 DEF Serves
  <2>6. wanted \union {p.dir} \subseteq Dirs(t) \union Dirs(given)
    BY <2>3 DEF Serves
  <2>7. Serves(t, given, wanted \union {p.dir}, plain)
    BY <2>4, <2>5, <2>6 DEF Serves
  <2> QED BY <2>7 DEF t, np
<1> QED BY <1>1, <1>2

(* The volumes of the request: what is given is looked up before.          *)
LEMMA OwnVolumes ==
    ASSUME NEW D, NEW vf \in Seq(PathsIn(D)), NEW b \in Seq(PathsIn(D)), NEW c,
           c.volumes \in Seq(PathsIn(D)), ~(Len(c.volumes) > MaxDataVolumes),
           \A i, j \in DOMAIN c.volumes : c.volumes[i] = c.volumes[j] => i = j,
           NEW plain,
           plain = TRUE => \A p \in ToSet(vf) \union ToSet(b) \union ToSet(c.volumes) : p.plain
    PROVE  \E e \in Seq(PlainIn(D)) :
              /\ handleVolumes(Mounted(vf, <<>>, b), c) = Mounted(vf, e, b)
              /\ Serves(e, vf \o b, Dirs(c.volumes), plain)
<1> DEFINE vols == c.volumes
           n == Len(vols)
           m == Mounted(vf, <<>>, b)
           given == vf \o b
           Add(s, v) == IF v \in PathsOf(m) THEN s ELSE addDataVolume(s, v)
           E == Seq(PlainIn(D))
           X == {Mounted(vf, e, b) : e \in E}
           Runs(f) == f = [i \in 0 .. n |-> IF i = 0 THEN m ELSE Add(f[i - 1], vols[i])]
           f0 == CHOOSE f : Runs(f)
           next == [i \in 1 .. n |-> [s \in X |-> Add(s, vols[i])]]
           upto == [i \in 0 .. n |-> {vols[j].dir : j \in 1 .. i}]
           inv == [i \in 0 .. n |-> {Mounted(vf, e, b) : e \in {e \in E : Serves(e, given, upto[i], plain)}}]
<1>1. n \in Nat /\ DOMAIN vols = 1 .. n /\ \A i \in 1 .. n : vols[i] \in PathsIn(D)
  OBVIOUS
<1>2. handleVolumes(m, c) = f0[n]
  BY DEF handleVolumes, Through
<1>3. PathsOf(m) = ToSet(vf) \union ToSet(b)
  <2>1. vf \o <<>> = vf
    OBVIOUS
  <2> QED BY <2>1 DEF PathsOf, Mounted, Mounts
<1>4. \A v \in ToSet(vf) \union ToSet(b) : v.dir \in Dirs(given)
  <2>1. Dirs(given) = Dirs(vf) \union Dirs(b)
    BY TimesOfBoth
  <2> QED BY <2>1, DirsIn
<1>5. \A x \in Dirs(given) : \E v \in ToSet(vf) \union ToSet(b) : v \in PathsIn(D) /\ v.dir = x
  <2>1. Dirs(given) = Dirs(vf) \union Dirs(b)
    BY TimesOfBoth
  <2> QED BY <2>1, DirsIn
<1>6. \A p, q \in PathsIn(D) : p.dir = q.dir /\ p.plain = q.plain => p = q
  BY DEF PathsIn
<1> HIDE DEF m, given
<1>7. ASSUME NEW e \in E, NEW i \in 1 .. n
      PROVE  \E e2 \in E : /\ Add(Mounted(vf, e, b), vols[i]) = Mounted(vf, e2, b)
                           /\ Serves(e, given, upto[i - 1], plain) => Serves(e2, given, upto[i], plain)
  <2> DEFINE v == vols[i]
             before == upto[i - 1]
  <2>1. v \in PathsIn(D) /\ i \in 0 .. n /\ i - 1 \in 0 .. n
    BY <1>1
  <2>2. upto[i] = before \union {v.dir}
    <3>1. \A j : j \in 1 .. i <=> j \in 1 .. i - 1 \/ j = i
      BY <1>1
    <3> HIDE DEF v
    <3>2. {vols[j].dir : j \in 1 .. i} = {vols[j].dir : j \in 1 .. i - 1} \union {v.dir}
      BY <3>1 DEF v
    <3> QED BY <2>1, <3>2
  <2>3. CASE v \in PathsOf(m)
    <3>1. v.dir \in Dirs(given)
      BY <1>3, <1>4, <2>3
    <3>2. Serves(e, given, before, plain) => Serves(e, given, before \union {v.dir}, plain)
      <4> HIDE DEF v, before
      <4> QED BY <2>1, <3>1, ServesOn
    <3>3. Add(Mounted(vf, e, b), v) = Mounted(vf, e, b)
      BY <2>3
    <3> HIDE DEF Add, upto
    <3> QED BY <2>2, <3>2, <3>3
  <2>4. CASE v \notin PathsOf(m)
    <3> DEFINE e2 == Append(e, normalize(v))
    <3>1. e2 \in E /\ addDataVolume(Mounted(vf, e, b), v) = Mounted(vf, e2, b)
      <4> HIDE DEF v
      <4> QED BY <2>1, VolumeAdded
    <3>2. ASSUME Serves(e, given, before, plain), plain = TRUE PROVE v.dir \notin Dirs(e) \union Dirs(given)
      <4>1. v \in ToSet(vols) /\ v.plain
        BY <1>1, <3>2 DEF ToSet
      <4>2. v.dir \notin Dirs(given)
        <5> SUFFICES ASSUME v.dir \in Dirs(given) PROVE FALSE
          OBVIOUS
        <5>1. PICK g \in ToSet(vf) \union ToSet(b) : g \in PathsIn(D) /\ g.dir = v.dir
          BY <1>5
        <5>2. g.plain = TRUE /\ v.plain = TRUE
          BY <2>1, <3>2, <4>1, <5>1 DEF PathsIn
        <5>3. g = v
          BY <1>6, <2>1, <5>1, <5>2
        <5> QED BY <1>3, <2>4, <5>3
      <4>3. v.dir \notin Dirs(e)
        <5> SUFFICES ASSUME v.dir \in Dirs(e) PROVE FALSE
          OBVIOUS
        <5>1. v.dir \in before
          BY <3>2 DEF Serves
        <5>2. PICK j \in 1 .. i - 1 : vols[j].dir = v.dir
          BY <2>1, <5>1
        <5>3. j \in 1 .. n /\ j # i /\ vols[j] \in PathsIn(D) /\ vols[j] \in ToSet(vols)
          <6>1. j \in 1 .. n /\ j # i
            BY <1>1, <5>2
          <6>2. vols[j] \in ToSet(vols)
            <7> HIDE DEF vols
            <7> QED BY <1>1, <6>1 DEF ToSet
          <6> QED BY <1>1, <6>1, <6>2
        <5>4. vols[j].plain = TRUE /\ v.plain = TRUE
          BY <2>1, <3>2, <4>1, <5>3 DEF PathsIn
        <5>5. vols[j] = vols[i]
          BY <1>6, <2>1, <5>2, <5>3, <5>4
        <5> HIDE DEF vols, n
        <5>6. vols[i] = vols[j] => i = j
          BY <1>1, <5>3 DEF vols
        <5> QED BY <5>3, <5>5, <5>6
      <4> QED BY <4>2, <4>3
    <3>3. Serves(e, given, before, plain) => Serves(e2, given, before \union {v.dir}, plain)
      <4> HIDE DEF v, before
      <4> SUFFICES ASSUME Serves(e, given, before, plain)
                   PROVE  Serves(Append(e, normalize(v)), given, before \union {v.dir}, plain)
        OBVIOUS
      <4>1. plain = TRUE => v.dir \notin Dirs(e) \union Dirs(given)
        BY <3>2
      <4> HIDE DEF e2
      <4>2. e \in Seq(PlainIn(D))
        OBVIOUS
      <4> HIDE DEF E
      <4>3. (plain = TRUE => v.dir \notin Dirs(e) \union Dirs(given))
               => Serves(Append(e, normalize(v)), given, before \union {v.dir}, plain)
        BY <2>1, <4>2, ServesOn
      <4> QED BY <4>1, <4>3
    <3>4. Add(Mounted(vf, e, b), v) = Mounted(vf, e2, b)
      BY <2>4, <3>1
    <3> HIDE DEF e2, Add, upto
    <3> QED BY <2>2, <3>1, <3>3, <3>4
  <2> QED BY <2>3, <2>4
<1>8. Serves(<<>>, given, upto[0], plain) /\ <<>> \in E
  <2>1. upto[0] = {} /\ Dirs(<<>>) = {} /\ OneOfEach(<<>>)
    BY <1>1 DEF Dirs, OneOfEach
  <2> HIDE DEF upto
  <2>2. <<>> \in E
    OBVIOUS
  <2> QED BY <2>1, <2>2 DEF Serves
<1>9. m \in X /\ m \in inv[0]
  <2>1. m = Mounted(vf, <<>>, b) /\ 0 \in 0 .. n
    BY <1>1 DEF m
  <2> HIDE DEF upto
  <2> QED BY <1>8, <2>1
<1> HIDE DEF n, E, Add, upto
<1>10. next \in Steps(n, X)
  <2> SUFFICES ASSUME NEW i \in 1 .. n, NEW s \in X PROVE Add(s, vols[i]) \in X
    BY DEF Steps
  <2> QED BY <1>7
<1>11. \A s \in X, i \in 1 .. n : next[i][s] = Add(s, vols[i])
  OBVIOUS
<1> HIDE DEF X, next
<1>12. PICK f \in [0 .. n -> X] : f[0] = m /\ \A i \in 1 .. n : f[i] = next[i][f[i - 1]]
  <2>1. Loops(n, X, m, next) # {}
    BY <1>1, <1>9, <1>10, LoopRuns
  <2> QED BY <2>1 DEF Loops
<1>13. Runs(f0)
  <2>1. \A i \in 0 .. n : f[i] = IF i = 0 THEN m ELSE Add(f[i - 1], vols[i])
    <3>1. ASSUME NEW i \in 1 .. n PROVE f[i] = Add(f[i - 1], vols[i])
      <4>1. f[i - 1] \in X
        BY <1>1, <1>12
      <4> QED BY <1>11, <1>12, <4>1
    <3> QED BY <1>1, <1>12, <3>1
  <2>2. Runs(f)
    BY <1>12, <2>1
  <2> HIDE DEF Runs
  <2> QED BY <2>2
<1>14. f0[0] = m /\ \A i \in 1 .. n : f0[i] = Add(f0[i - 1], vols[i])
  <2> HIDE DEF f0
  <2> QED BY <1>1, <1>13
<1> HIDE DEF f0
<1>15. \A i \in 1 .. n : f0[i - 1] \in inv[i - 1] => f0[i] \in inv[i]
  <2> SUFFICES ASSUME NEW i \in 1 .. n, f0[i - 1] \in inv[i - 1] PROVE f0[i] \in inv[i]
    OBVIOUS
  <2>1. i - 1 \in 0 .. n /\ i \in 0 .. n
    BY <1>1
  <2>2. PICK e \in E : Serves(e, given, upto[i - 1], plain) /\ f0[i - 1] = Mounted(vf, e, b)
    BY <2>1
  <2>3. PICK e2 \in E : Add(Mounted(vf, e, b), vols[i]) = Mounted(vf, e2, b) /\ Serves(e2, given, upto[i], plain)
    BY <1>7, <2>2
  <2>4. f0[i] = Mounted(vf, e2, b)
    BY <1>14, <2>2, <2>3
  <2> QED BY <2>1, <2>3, <2>4
<1>16. f0[n] \in inv[n]
  <2>1. f0[0] \in inv[0]
    BY <1>9, <1>14
  <2> HIDE DEF inv
  <2> QED BY <1>1, <1>15, <2>1, LoopKeeps
<1>17. PICK e \in E : Serves(e, given, upto[n], plain) /\ f0[n] = Mounted(vf, e, b)
  <2>1. n \in 0 .. n
    BY <1>1
  <2> QED BY <1>16, <2>1
<1>18. upto[n] = Dirs(vols)
  <2>1. n \in 0 .. n
    BY <1>1
  <2> QED BY <1>1, <2>1 DEF upto, Dirs
<1> QED BY <1>2, <1>17, <1>18 DEF given, m, E

(* Those of the image: what is there is looked up before each.             *)
LEMMA ImageVolumes ==
    ASSUME NEW D, NEW vf \in Seq(PathsIn(D)), NEW b \in Seq(PathsIn(D)), NEW c,
           c.volumes \in Seq(PathsIn(D)), NEW plain,
           plain = TRUE => \A p \in ToSet(vf) \union ToSet(b) \union ToSet(c.volumes) : p.plain,
           NEW own \in Seq(PlainIn(D)), NEW wanted, Serves(own, vf \o b, wanted, plain)
    PROVE  \E e \in Seq(PlainIn(D)) :
              /\ addImageVolumes(Mounted(vf, own, b), c) = Mounted(vf, e, b)
              /\ Serves(e, vf \o b, wanted \union Dirs(c.volumes), plain)
<1> DEFINE vols == c.volumes
           n == Len(vols)
           m == Mounted(vf, own, b)
           given == vf \o b
           Add(s, v) == IF v \in PathsOf(s) THEN s ELSE addDataVolume(s, v)
           E == Seq(PlainIn(D))
           X == {Mounted(vf, e, b) : e \in E}
           Runs(f) == f = [i \in 0 .. n |-> IF i = 0 THEN m ELSE Add(f[i - 1], vols[i])]
           f0 == CHOOSE f : Runs(f)
           next == [i \in 1 .. n |-> [s \in X |-> Add(s, vols[i])]]
           upto == [i \in 0 .. n |-> wanted \union {vols[j].dir : j \in 1 .. i}]
           inv == [i \in 0 .. n |-> {Mounted(vf, e, b) : e \in {e \in E : Serves(e, given, upto[i], plain)}}]
<1>1. n \in Nat /\ DOMAIN vols = 1 .. n /\ \A i \in 1 .. n : vols[i] \in PathsIn(D)
  OBVIOUS
<1>2. addImageVolumes(m, c) = f0[n]
  BY DEF addImageVolumes, Through
<1>3. ASSUME NEW e \in E
      PROVE  /\ \A v \in PathsOf(Mounted(vf, e, b)) : v.dir \in Dirs(e) \union Dirs(given)
             /\ \A x \in Dirs(e) \union Dirs(given) :
                   \E v \in PathsOf(Mounted(vf, e, b)) :
                      /\ v \in PathsIn(D) /\ v.dir = x
                      /\ plain = TRUE => v.plain = TRUE
  <2>1. e \in Seq(PlainIn(D)) /\ \A p \in PlainIn(D) : p \in PathsIn(D) /\ p.plain = TRUE
    BY DEF PlainIn, PathsIn
  <2> HIDE DEF E
  <2>2. PathsOf(Mounted(vf, e, b)) = ToSet(vf) \union ToSet(e) \union ToSet(b)
    <3>1. ToSet(vf \o e) = ToSet(vf) \union ToSet(e)
      <4>1. e \in Seq(PathsIn(D))
        BY <2>1, SeqMonotonic
      <4>2. \A s : ToSet(s) = Range(s)
        BY DEF ToSet, Range
      <4>3. Range(vf \o e) = Range(vf) \union Range(e)
        BY <4>1, RangeConcatenation
      <4> QED BY <4>2, <4>3
    <3> QED BY <3>1 DEF PathsOf, Mounted, Mounts
  <2>3. Dirs(given) = Dirs(vf) \union Dirs(b)
    BY TimesOfBoth
  <2>4. /\ Dirs(e) = {p.dir : p \in ToSet(e)} /\ \A p \in ToSet(e) : p \in PlainIn(D)
        /\ Dirs(vf) = {p.dir : p \in ToSet(vf)} /\ \A p \in ToSet(vf) : p \in PathsIn(D)
        /\ Dirs(b) = {p.dir : p \in ToSet(b)} /\ \A p \in ToSet(b) : p \in PathsIn(D)
    BY <2>1, DirsIn
  <2>5. \A p \in PathsIn(D) : p.plain => p.plain = TRUE
    BY DEF PathsIn
  <2> HIDE DEF given
  <2> QED BY <2>1, <2>2, <2>3, <2>4, <2>5
<1>6. \A p, q \in PathsIn(D) : p.dir = q.dir /\ p.plain = q.plain => p = q
  BY DEF PathsIn
<1> HIDE DEF m, given
<1>7. ASSUME NEW e \in E, NEW i \in 1 .. n
      PROVE  \E e2 \in E : /\ Add(Mounted(vf, e, b), vols[i]) = Mounted(vf, e2, b)
                           /\ Serves(e, given, upto[i - 1], plain) => Serves(e2, given, upto[i], plain)
  <2> DEFINE v == vols[i]
             before == upto[i - 1]
             there == PathsOf(Mounted(vf, e, b))
  <2>1. v \in PathsIn(D) /\ i \in 0 .. n /\ i - 1 \in 0 .. n
    BY <1>1
  <2>2. upto[i] = before \union {v.dir}
    <3>1. \A j : j \in 1 .. i <=> j \in 1 .. i - 1 \/ j = i
      BY <1>1
    <3> HIDE DEF v
    <3>2. {vols[j].dir : j \in 1 .. i} = {vols[j].dir : j \in 1 .. i - 1} \union {v.dir}
      BY <3>1 DEF v
    <3> QED BY <2>1, <3>2
  <2>3. CASE v \in there
    <3>1. v.dir \in Dirs(e) \union Dirs(given)
      BY <1>3, <2>3
    <3>2. Serves(e, given, before, plain) => Serves(e, given, before \union {v.dir}, plain)
      <4> HIDE DEF v, before
      <4> QED BY <2>1, <3>1, ServesOn
    <3>3. Add(Mounted(vf, e, b), v) = Mounted(vf, e, b)
      BY <2>3
    <3> HIDE DEF Add, upto
    <3> QED BY <2>2, <3>2, <3>3
  <2>4. CASE v \notin there
    <3> DEFINE e2 == Append(e, normalize(v))
    <3>1. e2 \in E /\ addDataVolume(Mounted(vf, e, b), v) = Mounted(vf, e2, b)
      <4> HIDE DEF v
      <4> QED BY <2>1, VolumeAdded
    <3>2. ASSUME plain = TRUE PROVE v.dir \notin Dirs(e) \union Dirs(given)
      <4>1. v.plain = TRUE
        <5>1. v \in ToSet(vols)
          <6> HIDE DEF vols
          <6> QED BY <1>1 DEF ToSet
        <5> QED BY <2>1, <3>2, <5>1 DEF PathsIn
      <4> SUFFICES ASSUME v.dir \in Dirs(e) \union Dirs(given) PROVE FALSE
        OBVIOUS
      <4> HIDE DEF there, v
      <4>2. PICK g \in there : g \in PathsIn(D) /\ g.dir = v.dir /\ g.plain = TRUE
        BY <1>3, <3>2 DEF there
      <4>3. g = v
        BY <1>6, <2>1, <4>1, <4>2
      <4> QED BY <2>4, <4>2, <4>3
    <3>3. Serves(e, given, before, plain) => Serves(e2, given, before \union {v.dir}, plain)
      <4> HIDE DEF v, before
      <4> SUFFICES ASSUME Serves(e, given, before, plain)
                   PROVE  Serves(Append(e, normalize(v)), given, before \union {v.dir}, plain)
        OBVIOUS
      <4>1. plain = TRUE => v.dir \notin Dirs(e) \union Dirs(given)
        BY <3>2
      <4> HIDE DEF e2
      <4>2. e \in Seq(PlainIn(D))
        OBVIOUS
      <4> HIDE DEF E
      <4>3. (plain = TRUE => v.dir \notin Dirs(e) \union Dirs(given))
               => Serves(Append(e, normalize(v)), given, before \union {v.dir}, plain)
        BY <2>1, <4>2, ServesOn
      <4> QED BY <4>1, <4>3
    <3>4. Add(Mounted(vf, e, b), v) = Mounted(vf, e2, b)
      BY <2>4, <3>1
    <3> HIDE DEF e2, Add, upto
    <3> QED BY <2>2, <3>1, <3>3, <3>4
  <2> QED BY <2>3, <2>4
<1>9. m \in X /\ m \in inv[0]
  <2>1. upto[0] = wanted /\ 0 \in 0 .. n
    BY <1>1
  <2>2. Serves(own, given, upto[0], plain)
    BY <2>1 DEF given
  <2> HIDE DEF upto, given
  <2> QED BY <2>1, <2>2 DEF m
<1> HIDE DEF n, E, Add, upto
<1>10. next \in Steps(n, X)
  <2> SUFFICES ASSUME NEW i \in 1 .. n, NEW s \in X PROVE Add(s, vols[i]) \in X
    BY DEF Steps
  <2> QED BY <1>7
<1>11. \A s \in X, i \in 1 .. n : next[i][s] = Add(s, vols[i])
  OBVIOUS
<1> HIDE DEF X, next
<1>12. PICK f \in [0 .. n -> X] : f[0] = m /\ \A i \in 1 .. n : f[i] = next[i][f[i - 1]]
  <2>1. Loops(n, X, m, next) # {}
    BY <1>1, <1>9, <1>10, LoopRuns
  <2> QED BY <2>1 DEF Loops
<1>13. Runs(f0)
  <2>1. \A i \in 0 .. n : f[i] = IF i = 0 THEN m ELSE Add(f[i - 1], vols[i])
    <3>1. ASSUME NEW i \in 1 .. n PROVE f[i] = Add(f[i - 1], vols[i])
      <4>1. f[i - 1] \in X
        BY <1>1, <1>12
      <4> QED BY <1>11, <1>12, <4>1
    <3> QED BY <1>1, <1>12, <3>1
  <2>2. Runs(f)
    BY <1>12, <2>1
  <2> HIDE DEF Runs
  <2> QED BY <2>2
<1>14. f0[0] = m /\ \A i \in 1 .. n : f0[i] = Add(f0[i - 1], vols[i])
  <2> HIDE DEF f0
  <2> QED BY <1>1, <1>13
<1> HIDE DEF f0
<1>15. \A i \in 1 .. n : f0[i - 1] \in inv[i - 1] => f0[i] \in inv[i]
  <2> SUFFICES ASSUME NEW i \in 1 .. n, f0[i - 1] \in inv[i - 1] PROVE f0[i] \in inv[i]
    OBVIOUS
  <2>1. i - 1 \in 0 .. n /\ i \in 0 .. n
    BY <1>1
  <2>2. PICK e \in E : Serves(e, given, upto[i - 1], plain) /\ f0[i - 1] = Mounted(vf, e, b)
    BY <2>1
  <2>3. PICK e2 \in E : Add(Mounted(vf, e, b), vols[i]) = Mounted(vf, e2, b) /\ Serves(e2, given, upto[i], plain)
    BY <1>7, <2>2
  <2>4. f0[i] = Mounted(vf, e2, b)
    BY <1>14, <2>2, <2>3
  <2> QED BY <2>1, <2>3, <2>4
<1>16. f0[n] \in inv[n]
  <2>1. f0[0] \in inv[0]
    BY <1>9, <1>14
  <2> HIDE DEF inv
  <2> QED BY <1>1, <1>15, <2>1, LoopKeeps
<1>17. PICK e \in E : Serves(e, given, upto[n], plain) /\ f0[n] = Mounted(vf, e, b)
  <2>1. n \in 0 .. n
    BY <1>1
  <2> QED BY <1>16, <2>1
<1>18. upto[n] = wanted \union Dirs(vols)
  <2>1. n \in 0 .. n
    BY <1>1
  <2> QED BY <1>1, <2>1 DEF upto, Dirs
<1> QED BY <1>2, <1>17, <1>18 DEF given, m, E

LEMMA PathsAre ==
    ASSUME NEW s, ArePaths(s), NEW D, Dirs(s) \subseteq D
    PROVE  s \in Seq(PathsIn(D))
<1>1. s \in Seq(ToSet(s))
  BY DEF ArePaths, IsList
<1>2. ToSet(s) \subseteq PathsIn(D)
  <2> SUFFICES ASSUME NEW p \in ToSet(s) PROVE p \in PathsIn(D)
    OBVIOUS
  <2>1. p \in [dir : {p.dir}, plain : BOOLEAN]
    BY DEF ArePaths
  <2>2. p.dir \in D
    BY <1>1, DirsIn
  <2> QED BY <2>1, <2>2 DEF PathsIn
<1> QED BY <1>1, <1>2, SeqMonotonic

(* The mounts of a payload, if the request is not refused.                 *)
MountSpace(q) == Dirs(q.container.volumesFrom) \union Dirs(q.container.binds)
                 \union Dirs(q.container.volumes) \union Dirs(q.image.volumes)
ArePlain(q) == \A p \in ToSet(q.container.volumesFrom \o q.container.binds
                              \o q.container.volumes \o q.image.volumes) : p.plain
IsRefused(q) ==
    \/ q.container.binds # <<>> /\ ~(q.config.nfs /\ q.config.automount)
    \/ Len(q.container.volumes) > MaxDataVolumes
LEMMA MountsAre ==
    ASSUME NEW q, HasMounts(q)
    PROVE  LET c == q.container
               given == c.volumesFrom \o c.binds
               wanted == Dirs(c.volumes) \union Dirs(q.image.volumes)
               a == mountsOf(c, q.image, q.config)
           IN /\ c.volumesFrom \in Seq(PathsIn(MountSpace(q))) /\ c.binds \in Seq(PathsIn(MountSpace(q)))
              /\ c.volumes \in Seq(PathsIn(MountSpace(q))) /\ q.image.volumes \in Seq(PathsIn(MountSpace(q)))
              /\ IsRefused(q) <=> a.error # "none"
              /\ ~IsRefused(q) => \E e \in Seq(PlainIn(MountSpace(q))) :
                    /\ a = Mounted(c.volumesFrom, e, c.binds)
                    /\ Serves(e, given, wanted, IF ArePlain(q) THEN TRUE ELSE FALSE)
<1> DEFINE c == q.container
           vf == c.volumesFrom
           b == c.binds
           vols == c.volumes
           ivols == q.image.volumes
           given == vf \o b
           wanted == given \o vols \o ivols
           D == MountSpace(q)
           a == mountsOf(c, q.image, q.config)
           plain == ArePlain(q)
           shared == handleSharedVolumes(c, q.config)
           own == handleVolumes(shared, c)
<1>1. /\ vf \in Seq(PathsIn(D)) /\ b \in Seq(PathsIn(D))
      /\ vols \in Seq(PathsIn(D)) /\ ivols \in Seq(PathsIn(D))
      /\ \A i, j \in DOMAIN vols : vols[i] = vols[j] => i = j
  <2>1. ArePaths(vf) /\ ArePaths(b) /\ ArePaths(vols) /\ ArePaths(ivols)
    BY DEF HasMounts
  <2>2. \A i, j \in DOMAIN vols : vols[i] = vols[j] => i = j
    BY DEF HasMounts
  <2>3. Dirs(vf) \subseteq D /\ Dirs(b) \subseteq D /\ Dirs(vols) \subseteq D /\ Dirs(ivols) \subseteq D
    BY DEF MountSpace
  <2> HIDE DEF c, vf, b, vols, ivols, D
  <2>4. vf \in Seq(PathsIn(D)) /\ b \in Seq(PathsIn(D))
    BY <2>1, <2>3, PathsAre
  <2>5. vols \in Seq(PathsIn(D)) /\ ivols \in Seq(PathsIn(D))
    BY <2>1, <2>3, PathsAre
  <2> QED BY <2>2, <2>4, <2>5
<1>2. a = IF shared.error # "none" THEN shared
          ELSE IF own.error # "none" THEN own ELSE addImageVolumes(own, q.image)
  BY DEF mountsOf
<1> HIDE DEF a, D
<1>3. CASE b # <<>> /\ ~(q.config.nfs /\ q.config.automount)
  <2>1. shared.error # "none"
    BY <1>3 DEF handleSharedVolumes, Mounts
  <2> HIDE DEF shared
  <2> QED BY <1>1, <1>2, <1>3, <2>1 DEF IsRefused, a, D
<1>4. CASE ~(b # <<>> /\ ~(q.config.nfs /\ q.config.automount))
  <2>1. shared = Mounted(vf, <<>>, b)
    <3>1. shared = Mounts("none", vf, b)
      BY <1>4 DEF handleSharedVolumes
    <3>2. vf \o <<>> = vf
      BY <1>1
    <3> QED BY <3>1, <3>2 DEF Mounted
  <2>2. \A e : /\ Mounted(vf, e, b).error = "none"
               /\ Mounted(vf, e, b).filesystems = vf \o e
               /\ Mounted(vf, e, b).volumes = b
    BY DEF Mounted, Mounts
  <2>3. CASE Len(vols) > MaxDataVolumes
    <3>1. own = [shared EXCEPT !.error = "too many data volumes"]
      BY <2>3 DEF handleVolumes
    <3>2. own.error = "too many data volumes"
      BY <2>1, <3>1 DEF Mounted, Mounts
    <3> HIDE DEF own, shared
    <3>3. a.error # "none"
      BY <1>2, <2>1, <2>2, <3>2
    <3> QED BY <1>1, <2>3, <3>3 DEF IsRefused, a, D
  <2>4. CASE ~(Len(vols) > MaxDataVolumes)
    <3> DEFINE P == PathsIn(D)
               plain_ == IF plain THEN TRUE ELSE FALSE
    <3>1. plain_ = TRUE => \A p \in ToSet(vf) \union ToSet(b) \union ToSet(vols) \union ToSet(ivols) : p.plain
      <4>1. ToSet(wanted) = ToSet(vf) \union ToSet(b) \union ToSet(vols) \union ToSet(ivols)
        <5> HIDE DEF vf, b, vols, ivols, P
        <5>1. \A s : ToSet(s) = Range(s)
          BY DEF ToSet, Range
        <5>2. /\ given \in Seq(P) /\ given \o vols \in Seq(P)
          BY <1>1 DEF P
        <5>3. Range(given) = Range(vf) \union Range(b)
          BY <1>1, RangeConcatenation
        <5> HIDE DEF given
        <5>4. Range(given \o vols) = Range(given) \union Range(vols)
          BY <1>1, <5>2, RangeConcatenation DEF P
        <5> DEFINE gv == given \o vols
        <5> HIDE DEF gv
        <5>5. gv \in Seq(P) /\ ivols \in Seq(P)
          BY <1>1, <5>2 DEF gv, P
        <5>6. Range(gv \o ivols) = Range(gv) \union Range(ivols)
          BY <5>5, RangeConcatenation
        <5> QED BY <5>1, <5>3, <5>4, <5>6 DEF gv
      <4>2. plain_ = TRUE => \A p \in ToSet(wanted) : p.plain
        BY DEF ArePlain
      <4> HIDE DEF plain_
      <4> QED BY <4>1, <4>2
    <3> HIDE DEF plain_
    <3>2. PICK e1 \in Seq(PlainIn(D)) : /\ handleVolumes(Mounted(vf, <<>>, b), c) = Mounted(vf, e1, b)
                                        /\ Serves(e1, given, Dirs(vols), plain_)
      BY <1>1, <2>4, <3>1, OwnVolumes
    <3>3. PICK e \in Seq(PlainIn(D)) : /\ addImageVolumes(Mounted(vf, e1, b), q.image) = Mounted(vf, e, b)
                                       /\ Serves(e, given, Dirs(vols) \union Dirs(ivols), plain_)
      BY <1>1, <3>1, <3>2, ImageVolumes
    <3>4. a = Mounted(vf, e, b) /\ a.error = "none"
      <4>1. own = Mounted(vf, e1, b)
        BY <2>1, <3>2
      <4> HIDE DEF own, shared
      <4> QED BY <1>2, <2>1, <2>2, <3>3, <4>1
    <3>5. ~IsRefused(q)
      BY <1>4, <2>4 DEF IsRefused
    <3> QED BY <1>1, <3>3, <3>4, <3>5 DEF plain_, a, D
  <2> QED BY <2>3, <2>4
<1> QED BY <1>3, <1>4

LEMMA MountsMeant ==
    ASSUME NEW q, HasMounts(q)
    PROVE  MountsAsAsked(q, mountsOf(q.container, q.image, q.config))
<1> DEFINE c == q.container
           vf == c.volumesFrom
           b == c.binds
           vols == c.volumes
           ivols == q.image.volumes
           given == vf \o b
           wanted == given \o vols \o ivols
           D == MountSpace(q)
           P == PathsIn(D)
           a == mountsOf(c, q.image, q.config)
           mounted == a.filesystems \o a.volumes
           plain == ArePlain(q)
           plain_ == IF plain THEN TRUE ELSE FALSE
           refused == IsRefused(q)
<1>1. /\ vf \in Seq(P) /\ b \in Seq(P) /\ vols \in Seq(P) /\ ivols \in Seq(P)
      /\ refused <=> a.error # "none"
      /\ ~refused => \E e \in Seq(PlainIn(D)) :
            a = Mounted(vf, e, b) /\ Serves(e, given, Dirs(vols) \union Dirs(ivols), plain_)
  BY MountsAre
<1>2. MountsAsAsked(q, a) <=>
         /\ refused <=> a.error # "none"
         /\ ~refused => Dirs(mounted) = Dirs(wanted)
         /\ ~refused /\ plain => \A dir \in Dirs(wanted) :
               Times(dir, mounted) = IF dir \in Dirs(given) THEN Times(dir, given) ELSE 1
  BY DEF MountsAsAsked, IsRefused, ArePlain
<1> HIDE DEF a, D, plain, plain_, refused
<1>3. CASE refused
  <2> HIDE DEF mounted, wanted, given
  <2> QED BY <1>1, <1>2, <1>3 DEF a
<1>4. CASE ~refused
  <2>1. PICK e \in Seq(PlainIn(D)) :
           a = Mounted(vf, e, b) /\ Serves(e, given, Dirs(vols) \union Dirs(ivols), plain_)
    BY <1>1, <1>4
  <2>2. Dirs(given) = Dirs(vf) \union Dirs(b) /\ Dirs(wanted) = Dirs(given) \union Dirs(vols) \union Dirs(ivols)
    <3> HIDE DEF vf, b, vols, ivols, P
    <3>1. given \in Seq(P) /\ given \o vols \in Seq(P)
      BY <1>1 DEF P
    <3>2. Dirs(given) = Dirs(vf) \union Dirs(b)
      BY <1>1, TimesOfBoth
    <3> DEFINE gv == given \o vols
    <3>3. Dirs(gv) = Dirs(given) \union Dirs(vols)
      <4>1. given \in Seq(P) /\ vols \in Seq(P)
        BY <1>1, <3>1 DEF P
      <4> HIDE DEF given
      <4> QED BY <4>1, TimesOfBoth
    <3>4. gv \in Seq(P) /\ ivols \in Seq(P)
      BY <1>1, <3>1 DEF P
    <3> HIDE DEF gv
    <3>5. Dirs(gv \o ivols) = Dirs(gv) \union Dirs(ivols)
      BY <3>4, TimesOfBoth
    <3> QED BY <3>2, <3>3, <3>5 DEF gv
  <2>5. mounted = (vf \o e) \o b
    BY <2>1 DEF Mounted, Mounts
  <2>6. \A d : /\ Times(d, vf) \in Nat /\ Times(d, b) \in Nat /\ Times(d, e) \in Nat
               /\ Times(d, mounted) = Times(d, vf) + Times(d, e) + Times(d, b)
               /\ Times(d, given) = Times(d, vf) + Times(d, b)
               /\ Dirs(mounted) = Dirs(vf) \union Dirs(e) \union Dirs(b)
    <3> SUFFICES ASSUME NEW d
                 PROVE  /\ Times(d, vf) \in Nat /\ Times(d, b) \in Nat /\ Times(d, e) \in Nat
                        /\ Times(d, (vf \o e) \o b) = Times(d, vf) + Times(d, e) + Times(d, b)
                        /\ Times(d, given) = Times(d, vf) + Times(d, b)
                        /\ Dirs((vf \o e) \o b) = Dirs(vf) \union Dirs(e) \union Dirs(b)
      BY <2>5
    <3> HIDE DEF vf, b, P, mounted
    <3> DEFINE ve == vf \o e
    <3>1. e \in Seq(P) /\ vf \in Seq(P) /\ b \in Seq(P)
      <4>1. PlainIn(D) \subseteq PathsIn(D)
        BY DEF PlainIn, PathsIn
      <4> QED BY <1>1, <4>1, SeqMonotonic DEF P
    <3>2. ve \in Seq(P)
      BY <3>1
    <3>3. Times(d, ve) = Times(d, vf) + Times(d, e) /\ Dirs(ve) = Dirs(vf) \union Dirs(e)
      <4>1. \A T : \A x, y \in Seq(T) : /\ Times(d, x \o y) = Times(d, x) + Times(d, y)
                                       /\ Dirs(x \o y) = Dirs(x) \union Dirs(y)
        BY TimesOfBoth
      <4>2. \A x, y \in Seq(P) : /\ Times(d, x \o y) = Times(d, x) + Times(d, y)
                                 /\ Dirs(x \o y) = Dirs(x) \union Dirs(y)
        BY <4>1
      <4> QED BY <3>1, <4>2
    <3>4. Times(d, vf) \in Nat /\ Times(d, e) \in Nat
      BY <3>1, TimesOfBoth
    <3> HIDE DEF ve
    <3>5. Times(d, ve \o b) = Times(d, ve) + Times(d, b) /\ Dirs(ve \o b) = Dirs(ve) \union Dirs(b)
      BY <3>1, <3>2, TimesOfBoth
    <3>6. Times(d, given) = Times(d, vf) + Times(d, b) /\ Times(d, b) \in Nat
      BY <3>1, TimesOfBoth
    <3> QED BY <3>3, <3>4, <3>5, <3>6 DEF ve
  <2> HIDE DEF mounted, given
  <2>7. Dirs(mounted) = Dirs(wanted)
    BY <2>2, <2>1, <2>6 DEF Serves
  <2>8. ASSUME plain, NEW dir \in Dirs(wanted)
        PROVE  Times(dir, mounted) = IF dir \in Dirs(given) THEN Times(dir, given) ELSE 1
    <3>1. OneOfEach(e) /\ Dirs(e) \intersect Dirs(given) = {}
      <4>1. plain_ = TRUE
        BY <2>8 DEF plain_
      <4> QED BY <2>1, <4>1 DEF Serves
    <3>2. CASE dir \in Dirs(given)
      <4>1. Times(dir, e) = 0
        BY <3>1, <3>2, TimesOfOthers
      <4> QED BY <2>6, <3>2, <4>1
    <3>3. CASE dir \notin Dirs(given)
      <4>1. dir \in Dirs(e)
        BY <2>6, <2>7, <2>8, <2>2, <3>3
      <4>2. Times(dir, vf) = 0 /\ Times(dir, b) = 0
        BY <2>2, <3>3, TimesOfOthers
      <4>3. Times(dir, e) = 1
        BY <3>1, <4>1, TimesOnce
      <4> QED BY <2>6, <3>3, <4>2, <4>3
    <3> QED BY <3>2, <3>3
  <2> HIDE DEF mounted, wanted
  <2> QED BY <1>1, <1>2, <1>4, <2>7, <2>8 DEF a
<1> QED BY <1>3, <1>4

-----------------------------------------------------------------------------
(* A list without repetitions is as long as it has entries.                *)
IsOneToOne(s) == \A i, j \in DOMAIN s : s[i] = s[j] => i = j
LEMMA LengthIs ==
    ASSUME NEW T, NEW s \in Seq(T), IsOneToOne(s)
    PROVE  IsFiniteSet(ToSet(s)) /\ Cardinality(ToSet(s)) = Len(s)
<1> DEFINE n == Len(s)
<1>1. n \in Nat /\ DOMAIN s = 1 .. n /\ ToSet(s) = {s[i] : i \in 1 .. n}
  BY DEF ToSet
<1>2. \A i, j \in 1 .. n : s[i] = s[j] => i = j
  BY <1>1 DEF IsOneToOne
<1> DEFINE f == [i \in 1 .. n |-> s[i]]
<1>3. f \in Bijection(1 .. n, ToSet(s))
  BY <1>1, <1>2 DEF Bijection, Injection, Surjection, IsInjective
<1>4. ExistsBijection(1 .. n, ToSet(s))
  BY <1>3 DEF ExistsBijection
<1> QED BY <1>1, <1>4, FS_NatBijection, FS_CountingElements

(* What one more entry makes of a list.                                    *)
LEMMA OneMore ==
    ASSUME NEW T, NEW s \in Seq(T), NEW x \in T
    PROVE  /\ Append(s, x) \in Seq(T) /\ Len(Append(s, x)) = Len(s) + 1
           /\ ToSet(Append(s, x)) = ToSet(s) \union {x}
           /\ IsOneToOne(s) /\ x \notin ToSet(s) => IsOneToOne(Append(s, x))
<1> DEFINE t == Append(s, x)
<1>1. /\ t \in Seq(T) /\ Len(t) = Len(s) + 1 /\ t[Len(s) + 1] = x
      /\ \A i \in 1 .. Len(s) : t[i] = s[i]
      /\ Len(s) \in Nat
  OBVIOUS
<1> HIDE DEF t
<1>2. ToSet(s) = {s[i] : i \in 1 .. Len(s)} /\ ToSet(t) = {t[i] : i \in 1 .. Len(s) + 1}
  BY <1>1 DEF ToSet
<1>3. ToSet(t) = ToSet(s) \union {x}
  <2>1. \A i \in 1 .. Len(s) + 1 : i = Len(s) + 1 \/ i \in 1 .. Len(s)
    BY <1>1
  <2>2. \A i \in 1 .. Len(s) : i \in 1 .. Len(s) + 1
    BY <1>1
  <2>3. Len(s) + 1 \in 1 .. Len(s) + 1
    BY <1>1
  <2> QED BY <1>1, <1>2, <2>1, <2>2, <2>3
<1>4. ASSUME IsOneToOne(s), x \notin ToSet(s) PROVE IsOneToOne(t)
  <2> SUFFICES ASSUME NEW i \in DOMAIN t, NEW j \in DOMAIN t, t[i] = t[j] PROVE i = j
    BY DEF IsOneToOne
  <2>1. /\ i = Len(s) + 1 \/ i \in DOMAIN s
        /\ j = Len(s) + 1 \/ j \in DOMAIN s
    BY <1>1
  <2>2. \A k \in DOMAIN s : t[k] = s[k] /\ t[k] # x
    BY <1>1, <1>2, <1>4
  <2> QED BY <1>1, <1>4, <2>1, <2>2 DEF IsOneToOne
<1> QED BY <1>1, <1>3, <1>4 DEF t

(* The slices of a list are short and hold all its entries.                *)
LEMMA SlicesAre ==
    ASSUME NEW T, NEW s \in Seq(T)
    PROVE  /\ \A t \in Slices(s) : t \in Seq(T) /\ Len(t) \in 1 .. MaxPortsPerRule
           /\ UNION {ToSet(t) : t \in Slices(s)} = ToSet(s)
<1> DEFINE n == Len(s)
           M == MaxPortsPerRule
           Part(k) == Head_(Tail_(s, k * M), M)
           Starts == {k \in 0 .. n : k * M < n}
<1>1. n \in Nat /\ M \in Nat /\ M > 0 /\ DOMAIN s = 1 .. n
  BY PayloadAssumption
<1>2. Slices(s) = {Part(k) : k \in Starts}
  BY DEF Slices
<1>3. ASSUME NEW k \in Starts
      PROVE  /\ Part(k) \in Seq(T) /\ Len(Part(k)) \in 1 .. M
             /\ \A i \in 1 .. Len(Part(k)) : k * M + i \in 1 .. n /\ Part(k)[i] = s[k * M + i]
             /\ \A i \in 1 .. M : k * M + i <= n => i \in 1 .. Len(Part(k))
  <2> DEFINE a == k * M
             r == Tail_(s, a)
  <2>1. a \in 0 .. n /\ a < n
    BY <1>1
  <2> HIDE DEF a
  <2>2. r \in Seq(T) /\ Len(r) = n - a /\ \A i \in 1 .. n - a : r[i] = s[a + i]
    BY <2>1, PartsOf
  <2> DEFINE m == IF M < n - a THEN M ELSE n - a
  <2>3. m \in 1 .. M /\ m \in 1 .. n - a /\ \A i \in 1 .. M : a + i <= n => i \in 1 .. m
    BY <1>1, <2>1
  <2> HIDE DEF r
  <2> DEFINE t == SubSeq(r, 1, m)
  <2>4. Head_(r, M) = t
    BY <2>2 DEF Head_
  <2> HIDE DEF m
  <2>5. t \in Seq(T) /\ Len(t) = m /\ \A i \in 1 .. m : t[i] = r[i]
    BY <2>2, <2>3
  <2> HIDE DEF t
  <2>6. Part(k) = t
    BY <2>4 DEF r, a
  <2> HIDE DEF Part
  <2>7. \A i \in 1 .. m : a + i \in 1 .. n /\ i \in 1 .. n - a
    BY <1>1, <2>1, <2>3
  <2>8. \A i \in 1 .. m : t[i] = s[a + i]
    BY <2>2, <2>5, <2>7
  <2> QED BY <2>3, <2>5, <2>6, <2>7, <2>8 DEF a
<1>4. ASSUME NEW i \in 1 .. n PROVE \E k \in Starts : \E j \in 1 .. M : i = k * M + j
  <2> DEFINE D == {m \in 0 .. i : m = 0 \/ \E k \in 0 .. i : \E j \in 1 .. M : m = k * M + j}
  <2>1. i \in D
    <3>1. 0 \in D /\ D \in SUBSET (0 .. i)
      BY <1>1
    <3>2. ASSUME NEW m \in 1 .. i, m - 1 \in D PROVE m \in D
      <4>1. CASE m = 1
        <5>1. m = 0 * M + 1 /\ 1 \in 1 .. M /\ 0 \in 0 .. i
          BY <1>1, <4>1
        <5> QED BY <5>1
      <4>2. CASE m # 1
        <5>1. PICK k \in 0 .. i, j \in 1 .. M : m - 1 = k * M + j
          BY <1>1, <3>2, <4>2
        <5>2. CASE j < M
          <6>1. j + 1 \in 1 .. M
            BY <1>1, <5>2
          <6>2. m = k * M + (j + 1)
            BY <1>1, <5>1
          <6> QED BY <6>1, <6>2
        <5>3. CASE j = M
          <6>1. m = (k + 1) * M + 1 /\ k * M >= k
            BY <1>1, <5>1, <5>3
          <6>2. k + 1 \in 0 .. i /\ 1 \in 1 .. M
            BY <1>1, <5>1, <5>3, <6>1
          <6> QED BY <6>1, <6>2
        <5> QED BY <1>1, <5>2, <5>3
      <4> QED BY <4>1, <4>2
    <3> HIDE DEF D
    <3> QED BY <1>1, <3>1, <3>2, CountUp
  <2>2. PICK k \in 0 .. i, j \in 1 .. M : i = k * M + j
    BY <2>1
  <2>3. k * M \in Nat /\ k * M < n /\ k \in 0 .. n
    BY <1>1, <2>2
  <2>4. k \in Starts
    BY <2>3
  <2> QED BY <2>2, <2>4
<1> HIDE DEF Part, Starts, n, M
<1>5. UNION {ToSet(t) : t \in Slices(s)} = ToSet(s)
  <2>1. \A k \in Starts : ToSet(Part(k)) = {Part(k)[i] : i \in 1 .. Len(Part(k))}
    <3> SUFFICES ASSUME NEW k \in Starts PROVE ToSet(Part(k)) = {Part(k)[i] : i \in 1 .. Len(Part(k))}
      OBVIOUS
    <3>1. DOMAIN Part(k) = 1 .. Len(Part(k))
      BY <1>3
    <3> QED BY <3>1 DEF ToSet
  <2>2. ToSet(s) = {s[i] : i \in 1 .. n}
    BY <1>1 DEF ToSet
  <2>3. ASSUME NEW x \in ToSet(s) PROVE \E k \in Starts : x \in ToSet(Part(k))
    <3>1. PICK i \in 1 .. n : x = s[i]
      BY <2>2
    <3>2. PICK k \in Starts, j \in 1 .. M : i = k * M + j
      BY <1>4
    <3>3. j \in 1 .. Len(Part(k))
      BY <1>1, <1>3, <3>2
    <3>4. x = Part(k)[j]
      BY <1>3, <3>1, <3>2, <3>3
    <3> QED BY <2>1, <3>3, <3>4
  <2>4. ASSUME NEW k \in Starts, NEW x \in ToSet(Part(k)) PROVE x \in ToSet(s)
    <3>1. PICK i \in 1 .. Len(Part(k)) : x = Part(k)[i]
      BY <2>1
    <3> QED BY <1>3, <2>2, <3>1
  <2> QED BY <1>2, <2>3, <2>4
<1> QED BY <1>2, <1>3, <1>5 DEF M

-----------------------------------------------------------------------------
(* Going through a list of ports.                                          *)
PortNumbers == 1 .. MaxPort
PortErrors == {"none", "too many ports", "remapping not allowed"}
PortLists == [exposed : [Protos -> Seq(PortNumbers)], unpublished : [Protos -> SUBSET PortNumbers],
              error : PortErrors]
OfFirst(entries, i, p) ==
    {entries[j].port : j \in {j \in 1 .. i : entries[j].proto = p}}
IsRemapped(e) == e.host \notin {NoHostPort, e.port}
Added(s, entries, bound, publishAll, i, t) ==
    IF bound = TRUE \/ publishAll = TRUE
    THEN /\ t.error = "none" =>
               /\ \A p \in Protos :
                     /\ ToSet(t.exposed[p]) = ToSet(s.exposed[p]) \union OfFirst(entries, i, p)
                     /\ Len(t.exposed[p]) = Len(s.exposed[p]) + Cardinality(OfFirst(entries, i, p))
                     /\ Len(t.exposed[p]) <= MaxProcessedPorts
                     /\ t.unpublished[p] = s.unpublished[p] \ OfFirst(entries, i, p)
               /\ bound = TRUE => \A j \in 1 .. i : ~IsRemapped(entries[j])
         /\ t.error # "none" =>
               \/ bound = TRUE /\ \E j \in 1 .. i : IsRemapped(entries[j])
               \/ \E p \in Protos : Len(s.exposed[p]) + Cardinality(OfFirst(entries, i, p)) > MaxProcessedPorts
    ELSE /\ t.exposed = s.exposed /\ t.error = "none"
         /\ \A p \in Protos : t.unpublished[p] = s.unpublished[p] \union OfFirst(entries, i, p)

LEMMA OfFirstIs ==
    ASSUME NEW entries, IsList(entries),
           \A j \in DOMAIN entries : entries[j].port \in PortNumbers /\ entries[j].proto \in Protos,
           \A j, k \in DOMAIN entries :
              entries[j].port = entries[k].port /\ entries[j].proto = entries[k].proto => j = k,
           NEW i \in 1 .. Len(entries), NEW p \in Protos
    PROVE  /\ IsFiniteSet(OfFirst(entries, i, p)) /\ OfFirst(entries, i, p) \subseteq PortNumbers
           /\ p # entries[i].proto => OfFirst(entries, i, p) = OfFirst(entries, i - 1, p)
           /\ p = entries[i].proto =>
                 /\ OfFirst(entries, i, p) = OfFirst(entries, i - 1, p) \union {entries[i].port}
                 /\ Cardinality(OfFirst(entries, i, p)) = Cardinality(OfFirst(entries, i - 1, p)) + 1
           /\ Cardinality(OfFirst(entries, i - 1, p)) \in Nat
           /\ Cardinality(OfFirst(entries, i - 1, p)) <= Cardinality(OfFirst(entries, i, p))
<1> DEFINE A == OfFirst(entries, i, p)
           B == OfFirst(entries, i - 1, p)
           e == entries[i]
<1>1. DOMAIN entries = 1 .. Len(entries) /\ Len(entries) \in Nat
  BY DEF IsList
<1>2. \A j : j \in 1 .. i <=> j \in 1 .. i - 1 \/ j = i
  BY <1>1
<1>3. \A j \in 1 .. i : j \in DOMAIN entries
  BY <1>1
<1>4. A \subseteq PortNumbers
  BY <1>3 DEF OfFirst
<1>5. IsFiniteSet(A)
  <2>1. IsFiniteSet(PortNumbers)
    BY FS_Interval, PayloadAssumption DEF PortNumbers
  <2> QED BY <1>4, <2>1, FS_Subset
<1>6. ASSUME p # e.proto PROVE A = B
  BY <1>2, <1>6 DEF OfFirst
<1>7. ASSUME p = e.proto PROVE A = B \union {e.port} /\ e.port \notin B
  <2>1. A = B \union {e.port}
    BY <1>2, <1>7 DEF OfFirst
  <2>2. ASSUME e.port \in B PROVE FALSE
    <3>1. PICK j \in 1 .. i - 1 : entries[j].proto = p /\ entries[j].port = e.port
      BY <2>2 DEF OfFirst
    <3>2. j \in DOMAIN entries /\ i \in DOMAIN entries /\ j # i
      BY <1>1, <3>1
    <3> QED BY <1>7, <3>1, <3>2
  <2> QED BY <2>1, <2>2
<1> HIDE DEF A, B
<1>8. IsFiniteSet(B) /\ Cardinality(B) \in Nat /\ Cardinality(B) <= Cardinality(A)
  <2>1. B \in SUBSET A
    BY <1>6, <1>7
  <2>2. IsFiniteSet(B) /\ Cardinality(B) <= Cardinality(A)
    BY <1>5, <2>1, FS_Subset
  <2> QED BY <2>2, FS_CardinalityType
<1>9. ASSUME p = e.proto PROVE Cardinality(A) = Cardinality(B) + 1
  BY <1>7, <1>8, <1>9, FS_AddElement
<1> QED BY <1>4, <1>5, <1>6, <1>7, <1>8, <1>9 DEF A, B

(* One port more.                                                          *)
LEMMA PortAdded ==
    ASSUME NEW s \in PortLists, NEW entries, IsList(entries),
           \A j \in DOMAIN entries : entries[j].port \in PortNumbers /\ entries[j].proto \in Protos,
           \A j, k \in DOMAIN entries :
              entries[j].port = entries[k].port /\ entries[j].proto = entries[k].proto => j = k,
           NEW bound \in BOOLEAN, NEW publishAll \in BOOLEAN,
           NEW i \in 1 .. Len(entries), NEW t \in PortLists, t.error = "none",
           Added(s, entries, bound, publishAll, i - 1, t)
    PROVE  LET u == addPort(t, entries[i], bound, publishAll)
           IN u \in PortLists /\ Added(s, entries, bound, publishAll, i, u)
<1> DEFINE e == entries[i]
           u == addPort(t, e, bound, publishAll)
<1>1. e.port \in PortNumbers /\ e.proto \in Protos
  BY DEF IsList
<1> HIDE DEF e
<1>2. \A p \in Protos :
         /\ p # e.proto => OfFirst(entries, i, p) = OfFirst(entries, i - 1, p)
         /\ p = e.proto =>
               /\ OfFirst(entries, i, p) = OfFirst(entries, i - 1, p) \union {e.port}
               /\ Cardinality(OfFirst(entries, i, p)) = Cardinality(OfFirst(entries, i - 1, p)) + 1
         /\ Cardinality(OfFirst(entries, i - 1, p)) \in Nat
  BY OfFirstIs DEF e
<1>3. /\ t.exposed \in [Protos -> Seq(PortNumbers)]
      /\ t.unpublished \in [Protos -> SUBSET PortNumbers]
      /\ s.exposed \in [Protos -> Seq(PortNumbers)]
  BY DEF PortLists
<1>4. CASE bound = FALSE /\ publishAll = FALSE
  <2> DEFINE unpublished == [t.unpublished EXCEPT ![e.proto] = @ \union {e.port}]
  <2>1. u = [t EXCEPT !.unpublished = unpublished]
    BY <1>4 DEF addPort
  <2>2. unpublished \in [Protos -> SUBSET PortNumbers]
    BY <1>1, <1>3
  <2>3. \A p \in Protos : unpublished[p] = IF p = e.proto THEN t.unpublished[p] \union {e.port}
                                           ELSE t.unpublished[p]
    BY <1>1, <1>3
  <2> HIDE DEF unpublished, u
  <2>4. u \in PortLists /\ u.exposed = t.exposed /\ u.error = t.error /\ u.unpublished = unpublished
    BY <2>1, <2>2 DEF PortLists
  <2>5. /\ t.exposed = s.exposed
        /\ \A p \in Protos : t.unpublished[p] = s.unpublished[p] \union OfFirst(entries, i - 1, p)
    BY <1>4 DEF Added
  <2>6. \A p \in Protos : u.unpublished[p] = s.unpublished[p] \union OfFirst(entries, i, p)
    <3> SUFFICES ASSUME NEW p \in Protos PROVE u.unpublished[p] = s.unpublished[p] \union OfFirst(entries, i, p)
      OBVIOUS
    <3>1. CASE p = e.proto
      BY <1>2, <2>3, <2>4, <2>5, <3>1
    <3>2. CASE p # e.proto
      BY <1>2, <2>3, <2>4, <2>5, <3>2
    <3> QED BY <3>1, <3>2
  <2>7. Added(s, entries, bound, publishAll, i, u)
    BY <1>4, <2>4, <2>5, <2>6 DEF Added
  <2> QED BY <2>4, <2>7 DEF u, e
<1>5. CASE bound = TRUE \/ publishAll = TRUE
  <2> DEFINE list == Append(t.exposed[e.proto], e.port)
             exposed == [t.exposed EXCEPT ![e.proto] = list]
             unpublished == [t.unpublished EXCEPT ![e.proto] = @ \ {e.port}]
             error == PortError(list, e, bound)
  <2>1. u = [t EXCEPT !.unpublished = unpublished, !.exposed = exposed, !.error = error]
    BY <1>5 DEF addPort
  <2>2. /\ list \in Seq(PortNumbers) /\ Len(list) = Len(t.exposed[e.proto]) + 1
        /\ ToSet(list) = ToSet(t.exposed[e.proto]) \union {e.port}
    BY <1>1, <1>3, OneMore
  <2> HIDE DEF list
  <2>3. /\ exposed \in [Protos -> Seq(PortNumbers)]
        /\ \A p \in Protos : exposed[p] = IF p = e.proto THEN list ELSE t.exposed[p]
    BY <1>1, <1>3, <2>2
  <2>4. unpublished \in [Protos -> SUBSET PortNumbers]
    BY <1>1, <1>3
  <2>5. \A p \in Protos : unpublished[p] = IF p = e.proto THEN t.unpublished[p] \ {e.port}
                                           ELSE t.unpublished[p]
    BY <1>1, <1>3
  <2>6. /\ error \in PortErrors
        /\ error = "none" => Len(list) <= MaxProcessedPorts /\ ~(bound = TRUE /\ IsRemapped(e))
        /\ error # "none" => Len(list) > MaxProcessedPorts \/ (bound = TRUE /\ IsRemapped(e))
    <3>1. Len(list) \in Nat /\ MaxProcessedPorts \in Nat
      BY <2>2, PayloadAssumption
    <3> QED BY <3>1 DEF PortError, PortErrors, IsRemapped
  <2> HIDE DEF unpublished, exposed, error, u
  <2>7. u \in PortLists /\ u.exposed = exposed /\ u.error = error /\ u.unpublished = unpublished
    BY <2>1, <2>3, <2>4, <2>6 DEF PortLists
  <2>8. /\ \A p \in Protos :
              /\ ToSet(t.exposed[p]) = ToSet(s.exposed[p]) \union OfFirst(entries, i - 1, p)
              /\ Len(t.exposed[p]) = Len(s.exposed[p]) + Cardinality(OfFirst(entries, i - 1, p))
              /\ Len(t.exposed[p]) <= MaxProcessedPorts
              /\ t.unpublished[p] = s.unpublished[p] \ OfFirst(entries, i - 1, p)
        /\ bound = TRUE => \A j \in 1 .. i - 1 : ~IsRemapped(entries[j])
    BY <1>5 DEF Added
  <2>9. Len(list) = Len(s.exposed[e.proto]) + Cardinality(OfFirst(entries, i, e.proto))
    <3> DEFINE a == Len(s.exposed[e.proto])
               b == Cardinality(OfFirst(entries, i - 1, e.proto))
               c == Cardinality(OfFirst(entries, i, e.proto))
    <3>1. a \in Nat /\ b \in Nat /\ c = b + 1
      BY <1>1, <1>2, <1>3
    <3>2. Len(t.exposed[e.proto]) = a + b
      BY <1>1, <2>8
    <3> HIDE DEF a, b, c
    <3>3. Len(list) = a + c
      BY <2>2, <3>1, <3>2
    <3> QED BY <3>3 DEF a, c
  <2>10. \A j : j \in 1 .. i <=> j \in 1 .. i - 1 \/ j = i
    <3>1. Len(entries) \in Nat
      BY DEF IsList
    <3> QED BY <3>1
  <2>11. ASSUME error = "none", NEW p \in Protos
         PROVE  /\ ToSet(exposed[p]) = ToSet(s.exposed[p]) \union OfFirst(entries, i, p)
                /\ Len(exposed[p]) = Len(s.exposed[p]) + Cardinality(OfFirst(entries, i, p))
                /\ Len(exposed[p]) <= MaxProcessedPorts
                /\ unpublished[p] = s.unpublished[p] \ OfFirst(entries, i, p)
    <3>1. CASE p = e.proto
      <4>1. ToSet(list) = ToSet(s.exposed[p]) \union OfFirst(entries, i, p)
        BY <1>2, <2>2, <2>8, <3>1
      <4>2. unpublished[p] = s.unpublished[p] \ OfFirst(entries, i, p)
        BY <1>2, <2>5, <2>8, <3>1
      <4> QED BY <2>3, <2>6, <2>9, <2>11, <3>1, <4>1, <4>2
    <3>2. CASE p # e.proto
      BY <1>2, <2>3, <2>5, <2>8, <3>2
    <3> QED BY <3>1, <3>2
  <2>12. ASSUME error = "none", bound = TRUE, NEW j \in 1 .. i PROVE ~IsRemapped(entries[j])
    BY <2>6, <2>8, <2>10, <2>12 DEF e
  <2>13. ASSUME error # "none"
         PROVE  \/ bound = TRUE /\ \E j \in 1 .. i : IsRemapped(entries[j])
                \/ \E p \in Protos : Len(s.exposed[p]) + Cardinality(OfFirst(entries, i, p)) > MaxProcessedPorts
    <3>1. CASE Len(list) > MaxProcessedPorts
      BY <1>1, <2>9, <3>1
    <3>2. CASE bound = TRUE /\ IsRemapped(e)
      BY <2>10, <3>2 DEF e
    <3> QED BY <2>6, <2>13, <3>1, <3>2
  <2>14. Added(s, entries, bound, publishAll, i, u)
    BY <1>5, <2>7, <2>11, <2>12, <2>13 DEF Added
  <2> QED BY <2>7, <2>14 DEF u, e
<1> QED BY <1>4, <1>5

(* What one port makes of lists are lists, and an error is not undone.     *)
LEMMA PortKinds ==
    ASSUME NEW t \in PortLists, NEW e, e.port \in PortNumbers, e.proto \in Protos,
           NEW bound, NEW publishAll
    PROVE  addPort(t, e, bound, publishAll) \in PortLists
<1> DEFINE u == addPort(t, e, bound, publishAll)
           fewer == [t.unpublished EXCEPT ![e.proto] = @ \ {e.port}]
           more == [t.unpublished EXCEPT ![e.proto] = @ \union {e.port}]
           list == Append(t.exposed[e.proto], e.port)
           exposed == [t.exposed EXCEPT ![e.proto] = list]
           error == PortError(list, e, bound)
<1>1. /\ t.exposed \in [Protos -> Seq(PortNumbers)]
      /\ t.unpublished \in [Protos -> SUBSET PortNumbers]
  BY DEF PortLists
<1>2. more \in [Protos -> SUBSET PortNumbers] /\ fewer \in [Protos -> SUBSET PortNumbers]
  BY <1>1
<1>3. exposed \in [Protos -> Seq(PortNumbers)]
  <2>1. list \in Seq(PortNumbers)
    BY <1>1
  <2> HIDE DEF list
  <2> QED BY <1>1, <2>1
<1>4. error \in PortErrors
  BY DEF PortError, PortErrors
<1>5. \/ u = [t EXCEPT !.unpublished = more]
      \/ u = [t EXCEPT !.unpublished = fewer, !.exposed = exposed, !.error = error]
  BY DEF addPort
<1> HIDE DEF u, more, fewer, exposed, error
<1> QED BY <1>2, <1>3, <1>4, <1>5 DEF PortLists, u

LEMMA ErrorStays ==
    ASSUME NEW s \in PortLists, NEW entries, IsList(entries),
           \A j \in DOMAIN entries : entries[j].port \in PortNumbers /\ entries[j].proto \in Protos,
           \A j, k \in DOMAIN entries :
              entries[j].port = entries[k].port /\ entries[j].proto = entries[k].proto => j = k,
           NEW bound \in BOOLEAN, NEW publishAll \in BOOLEAN,
           NEW i \in 1 .. Len(entries), NEW t \in PortLists, t.error # "none",
           Added(s, entries, bound, publishAll, i - 1, t)
    PROVE  Added(s, entries, bound, publishAll, i, t)
<1>1. bound = TRUE \/ publishAll = TRUE
  BY DEF Added
<1>2. \/ bound = TRUE /\ \E j \in 1 .. i - 1 : IsRemapped(entries[j])
      \/ \E p \in Protos : Len(s.exposed[p]) + Cardinality(OfFirst(entries, i - 1, p)) > MaxProcessedPorts
  BY <1>1 DEF Added
<1>3. CASE bound = TRUE /\ \E j \in 1 .. i - 1 : IsRemapped(entries[j])
  <2>1. \A j \in 1 .. i - 1 : j \in 1 .. i
    BY DEF IsList
  <2> QED BY <1>3, <2>1 DEF Added
<1>4. ASSUME NEW p \in Protos, Len(s.exposed[p]) + Cardinality(OfFirst(entries, i - 1, p)) > MaxProcessedPorts
      PROVE  Len(s.exposed[p]) + Cardinality(OfFirst(entries, i, p)) > MaxProcessedPorts
  <2> DEFINE a == Cardinality(OfFirst(entries, i - 1, p))
             b == Cardinality(OfFirst(entries, i, p))
  <2>1. a \in Nat /\ a <= b
    BY OfFirstIs
  <2>2. b \in Nat
    BY FS_CardinalityType, OfFirstIs
  <2>3. Len(s.exposed[p]) \in Nat /\ MaxProcessedPorts \in Nat
    BY PayloadAssumption DEF PortLists
  <2> HIDE DEF a, b
  <2>4. Len(s.exposed[p]) + a > MaxProcessedPorts => Len(s.exposed[p]) + b > MaxProcessedPorts
    BY <2>1, <2>2, <2>3
  <2> QED BY <1>4, <2>4 DEF a, b
<1> QED BY <1>1, <1>2, <1>3, <1>4 DEF Added

(* The whole list.  An error that is there already stays.                  *)
LEMMA PortsAdded ==
    ASSUME NEW s \in PortLists, NEW entries, IsList(entries),
           \A j \in DOMAIN entries : entries[j].port \in PortNumbers /\ entries[j].proto \in Protos,
           \A j, k \in DOMAIN entries :
              entries[j].port = entries[k].port /\ entries[j].proto = entries[k].proto => j = k,
           NEW bound \in BOOLEAN, NEW publishAll \in BOOLEAN,
           s.error = "none" => \A p \in Protos : Len(s.exposed[p]) <= MaxProcessedPorts
    PROVE  LET t == addPorts(s, entries, bound, publishAll)
           IN /\ t \in PortLists
              /\ s.error = "none" => Added(s, entries, bound, publishAll, Len(entries), t)
              /\ s.error # "none" => t = s
<1> DEFINE n == Len(entries)
           Add(t, e) == IF t.error # "none" THEN t ELSE addPort(t, e, bound, publishAll)
           X == PortLists
           Runs(f) == f = [i \in 0 .. n |-> IF i = 0 THEN s ELSE Add(f[i - 1], entries[i])]
           f0 == CHOOSE f : Runs(f)
           Stands(i, t) == /\ s.error = "none" => Added(s, entries, bound, publishAll, i, t)
                           /\ s.error # "none" => t = s
           next == [i \in 1 .. n |-> [t \in X |-> Add(t, entries[i])]]
           inv == [i \in 0 .. n |-> {t \in X : Stands(i, t)}]
<1>1. n \in Nat /\ DOMAIN entries = 1 .. n
  BY DEF IsList
<1>2. addPorts(s, entries, bound, publishAll) = f0[n]
  BY DEF addPorts, Through
<1>3. ASSUME NEW i \in 1 .. n, NEW t \in X PROVE Add(t, entries[i]) \in X
  BY <1>1, <1>3, PortKinds
<1>4. ASSUME NEW i \in 1 .. n, NEW t \in X, Stands(i - 1, t) PROVE Stands(i, Add(t, entries[i]))
  <2>1. CASE s.error # "none"
    BY <1>4, <2>1
  <2>2. CASE s.error = "none" /\ t.error = "none"
    <3>1. Added(s, entries, bound, publishAll, i, addPort(t, entries[i], bound, publishAll))
      <4>1. Added(s, entries, bound, publishAll, i - 1, t)
        BY <1>4, <2>2
      <4> QED BY <2>2, <4>1, PortAdded
    <3> QED BY <2>2, <3>1
  <2>3. CASE s.error = "none" /\ t.error # "none"
    <3>1. Added(s, entries, bound, publishAll, i - 1, t)
      BY <1>4, <2>3
    <3>2. Added(s, entries, bound, publishAll, i, t)
      BY <2>3, <3>1, ErrorStays
    <3> QED BY <2>3, <3>2
  <2> QED BY <2>1, <2>2, <2>3
<1>5. s \in X /\ Stands(0, s)
  <2> SUFFICES ASSUME s.error = "none" PROVE Added(s, entries, bound, publishAll, 0, s)
    OBVIOUS
  <2>1. \A p \in Protos : OfFirst(entries, 0, p) = {} /\ Cardinality(OfFirst(entries, 0, p)) = 0
    <3>1. \A p \in Protos : OfFirst(entries, 0, p) = {}
      BY DEF OfFirst
    <3> QED BY <3>1, FS_EmptySet
  <2>2. \A p \in Protos : Len(s.exposed[p]) \in Nat /\ Len(s.exposed[p]) <= MaxProcessedPorts
    BY DEF PortLists
  <2> QED BY <2>1, <2>2 DEF Added
<1> HIDE DEF n, X, Stands, Add
<1>6. next \in Steps(n, X)
  BY <1>3 DEF Steps
<1>7. \A t \in X, i \in 1 .. n : next[i][t] = Add(t, entries[i])
  OBVIOUS
<1> HIDE DEF next
<1>8. PICK f \in [0 .. n -> X] : f[0] = s /\ \A i \in 1 .. n : f[i] = next[i][f[i - 1]]
  <2>1. Loops(n, X, s, next) # {}
    BY <1>1, <1>5, <1>6, LoopRuns
  <2> QED BY <2>1 DEF Loops
<1>9. Runs(f0)
  <2>1. \A i \in 0 .. n : f[i] = IF i = 0 THEN s ELSE Add(f[i - 1], entries[i])
    <3>1. ASSUME NEW i \in 1 .. n PROVE f[i] = Add(f[i - 1], entries[i])
      <4>1. f[i - 1] \in X
        BY <1>1, <1>8
      <4> QED BY <1>7, <1>8, <4>1
    <3> QED BY <1>1, <1>8, <3>1
  <2>2. Runs(f)
    BY <1>8, <2>1
  <2> HIDE DEF Runs
  <2> QED BY <2>2
<1>10. f0[0] = s /\ \A i \in 1 .. n : f0[i] = Add(f0[i - 1], entries[i])
  <2> HIDE DEF f0
  <2> QED BY <1>1, <1>9
<1> HIDE DEF f0
<1>11. f0[n] \in inv[n]
  <2>1. f0[0] \in inv[0]
    BY <1>1, <1>5, <1>10
  <2>2. \A i \in 1 .. n : f0[i - 1] \in inv[i - 1] => f0[i] \in inv[i]
    <3> SUFFICES ASSUME NEW i \in 1 .. n, f0[i - 1] \in inv[i - 1] PROVE f0[i] \in inv[i]
      OBVIOUS
    <3>1. i - 1 \in 0 .. n /\ i \in 0 .. n
      BY <1>1
    <3> QED BY <1>3, <1>4, <1>10, <3>1
  <2> HIDE DEF inv
  <2> QED BY <1>1, <2>1, <2>2, LoopKeeps
<1>12. f0[n] \in X /\ Stands(n, f0[n])
  <2>1. n \in 0 .. n
    BY <1>1
  <2> QED BY <1>11, <2>1
<1> QED BY <1>2, <1>12 DEF n, X, Stands

-----------------------------------------------------------------------------
(* The ranges of ports.                                                    *)
PortRanges == [start : PortNumbers, end : PortNumbers]
IsMaximal(a, b, S) == /\ a \in S /\ b \in S /\ a <= b /\ a .. b \subseteq S
                      /\ a - 1 \notin S /\ b + 1 \notin S
Before(S, n) == {r \in MaximalRanges(S) : r.end < n}
Covers(ranges, S, n) ==
    /\ ranges \in Seq(PortRanges) /\ IsOneToOne(ranges) /\ ToSet(ranges) = Before(S, n)
    /\ \A x \in S : x < n => \E r \in ToSet(ranges) : x \in r.start .. r.end

LEMMA MaximalIs ==
    ASSUME NEW S, NEW r
    PROVE  r \in MaximalRanges(S) <=> \E a, b \in S : r = Range_(a, b) /\ IsMaximal(a, b, S)
<1>1. ASSUME r \in MaximalRanges(S) PROVE \E a, b \in S : r = Range_(a, b) /\ IsMaximal(a, b, S)
  <2>1. PICK t \in S \X S : /\ r = Range_(t[1], t[2])
                            /\ t[1] <= t[2] /\ t[1] .. t[2] \subseteq S
                            /\ t[1] - 1 \notin S /\ t[2] + 1 \notin S
    BY <1>1 DEF MaximalRanges
  <2>2. t[1] \in S /\ t[2] \in S
    BY <2>1
  <2> QED BY <2>1, <2>2 DEF IsMaximal
<1>2. ASSUME NEW a \in S, NEW b \in S, r = Range_(a, b), IsMaximal(a, b, S) PROVE r \in MaximalRanges(S)
  <2> DEFINE t == <<a, b>>
  <2>1. t \in S \X S /\ t[1] = a /\ t[2] = b
    OBVIOUS
  <2> HIDE DEF t
  <2>2. /\ t[1] <= t[2] /\ t[1] .. t[2] \subseteq S
        /\ t[1] - 1 \notin S /\ t[2] + 1 \notin S
    BY <1>2, <2>1 DEF IsMaximal
  <2>3. r = Range_(t[1], t[2])
    BY <1>2, <2>1
  <2> QED BY <2>1, <2>2, <2>3 DEF MaximalRanges
<1> QED BY <1>1, <1>2

(* A range that is followed by a gap up to n is the last one before n.     *)
LEMMA RangeClosed ==
    ASSUME NEW S \in SUBSET PortNumbers, NEW ranges, NEW a \in S, NEW b \in S, NEW n \in Nat,
           Covers(ranges, S, a), IsMaximal(a, b, S), b < n, \A x \in S : x < n => x <= b
    PROVE  Covers(Append(ranges, Range_(a, b)), S, n)
<1> DEFINE r0 == Range_(a, b)
           more == Append(ranges, r0)
<1>1. \A x \in S : x \in Nat /\ x \in PortNumbers
  BY DEF PortNumbers
<1>2. r0 \in PortRanges /\ r0.start = a /\ r0.end = b /\ r0 \in MaximalRanges(S)
  <2>1. r0 \in MaximalRanges(S)
    BY MaximalIs
  <2> QED BY <1>1, <2>1 DEF Range_, PortRanges
<1>3. ASSUME NEW r \in MaximalRanges(S)
      PROVE  /\ r.start \in S /\ r.end \in S /\ r = Range_(r.start, r.end)
             /\ IsMaximal(r.start, r.end, S)
  <2>1. PICK c \in S, d \in S : r = Range_(c, d) /\ IsMaximal(c, d, S)
    BY MaximalIs
  <2> QED BY <2>1 DEF Range_
<1>4. Before(S, n) = Before(S, a) \union {r0}
  <2>1. ASSUME NEW r \in Before(S, n), ~(r.end < a) PROVE r = r0
    <3> DEFINE c == r.start
               d == r.end
    <3>1. c \in S /\ d \in S /\ r = Range_(c, d) /\ IsMaximal(c, d, S) /\ d < n /\ ~(d < a)
      BY <1>3, <2>1 DEF Before
    <3> HIDE DEF c, d
    <3>2. c \in Nat /\ d \in Nat /\ a \in Nat /\ b \in Nat /\ c <= d /\ a <= b /\ d <= b /\ a <= d
      BY <1>1, <3>1 DEF IsMaximal
    <3>3. d = b
      <4> SUFFICES ASSUME d # b PROVE FALSE
        OBVIOUS
      <4>1. d + 1 \in a .. b
        BY <3>2
      <4> QED BY <3>1, <4>1 DEF IsMaximal
    <3>4. ~(c < a)
      <4> SUFFICES ASSUME c < a PROVE FALSE
        OBVIOUS
      <4>1. a - 1 \in c .. d
        BY <3>2
      <4> QED BY <3>1, <4>1 DEF IsMaximal
    <3>5. ~(a < c)
      <4> SUFFICES ASSUME a < c PROVE FALSE
        OBVIOUS
      <4>1. c - 1 \in a .. b
        BY <3>2
      <4> QED BY <3>1, <4>1 DEF IsMaximal
    <3>6. c = a
      BY <3>2, <3>4, <3>5
    <3> QED BY <3>1, <3>3, <3>6
  <2>2. ASSUME NEW r \in Before(S, a) PROVE r \in Before(S, n)
    <3>1. r \in MaximalRanges(S) /\ r.end < a
      BY DEF Before
    <3>2. r.end \in Nat /\ a \in Nat /\ b \in Nat /\ a <= b /\ r.end \in S
      BY <1>1, <1>3, <3>1 DEF IsMaximal
    <3>3. r.end < n
      BY <3>1, <3>2
    <3> QED BY <3>1, <3>3 DEF Before
  <2>3. r0 \in Before(S, n)
    BY <1>2 DEF Before
  <2>4. \A r \in Before(S, n) : r.end < a => r \in Before(S, a)
    BY DEF Before
  <2> HIDE DEF r0
  <2> QED BY <2>1, <2>2, <2>3, <2>4
<1>5. r0 \notin ToSet(ranges)
  <2>1. ~(b < a)
    BY <1>1 DEF IsMaximal
  <2> QED BY <1>2, <2>1 DEF Covers, Before
<1> HIDE DEF r0
<1>6. more \in Seq(PortRanges) /\ ToSet(more) = ToSet(ranges) \union {r0} /\ IsOneToOne(more)
  BY <1>2, <1>5, OneMore DEF Covers
<1> HIDE DEF more
<1>7. ASSUME NEW x \in S, x < n PROVE \E r \in ToSet(more) : x \in r.start .. r.end
  <2>1. CASE x < a
    BY <1>6, <2>1 DEF Covers
  <2>2. CASE ~(x < a)
    <3>1. x \in Nat /\ a \in Nat /\ b \in Nat /\ x <= b
      BY <1>1, <1>7
    <3>2. x \in r0.start .. r0.end
      BY <1>2, <2>2, <3>1
    <3> QED BY <1>6, <3>2
  <2> QED BY <2>1, <2>2
<1>8. ToSet(more) = Before(S, n)
  BY <1>4, <1>6 DEF Covers
<1> QED BY <1>6, <1>7, <1>8 DEF Covers, more, r0

(* What the loop of compressPorts has after the number i: the ranges that  *)
(* are closed, and the one that is open, if there is any.                  *)
Open(a, b, S, i) ==
    /\ a \in S /\ b \in S /\ a <= b /\ b <= i /\ a .. b \subseteq S /\ a - 1 \notin S
    /\ \A x \in S : x <= i => x <= b
Compressed(acc, S, i) ==
    IF acc.start = 0
    THEN acc = [ranges |-> <<>>, start |-> 0, end |-> 0] /\ \A x \in S : ~(x <= i)
    ELSE Open(acc.start, acc.end, S, i) /\ Covers(acc.ranges, S, acc.start)
Accumulators == [ranges : Seq(PortRanges), start : 0 .. MaxPort, end : 0 .. MaxPort]
Grown(acc, port, S) ==
    IF port \notin S THEN acc
    ELSE IF acc.start = 0 THEN [acc EXCEPT !.start = port, !.end = port]
    ELSE IF acc.end + 1 = port THEN [acc EXCEPT !.end = port]
    ELSE [ranges |-> Append(acc.ranges, Range_(acc.start, acc.end)), start |-> port, end |-> port]

LEMMA StartsWithNone ==
    ASSUME NEW S \in SUBSET PortNumbers, NEW n \in S, \A x \in S : ~(x <= n - 1)
    PROVE  Covers(<<>>, S, n)
<1>1. \A x \in S : x \in Nat
  BY DEF PortNumbers
<1>2. Before(S, n) = {}
  <2> SUFFICES ASSUME NEW r \in Before(S, n) PROVE FALSE
    OBVIOUS
  <2>1. PICK a \in S, b \in S : r = Range_(a, b)
    BY MaximalIs DEF Before
  <2>2. b < n
    BY <2>1 DEF Before, Range_
  <2> QED BY <1>1, <2>2
<1>3. \A x \in S : ~(x < n)
  BY <1>1
<1>4. <<>> \in Seq(PortRanges) /\ ToSet(<<>>) = {} /\ IsOneToOne(<<>>)
  BY DEF ToSet, IsOneToOne
<1> QED BY <1>2, <1>3, <1>4 DEF Covers

LEMMA GrownKind ==
    ASSUME NEW S, NEW i \in PortNumbers, NEW acc \in Accumulators, acc.start # 0 => acc.end # 0
    PROVE  LET new == Grown(acc, i, S)
           IN new \in Accumulators /\ (new.start # 0 => new.end # 0)
<1> DEFINE list == Append(acc.ranges, Range_(acc.start, acc.end))
<1>1. i # 0 /\ i \in 0 .. MaxPort
  BY DEF PortNumbers
<1>2. acc.start # 0 => list \in Seq(PortRanges)
  <2> SUFFICES ASSUME acc.start # 0 PROVE list \in Seq(PortRanges)
    OBVIOUS
  <2>1. acc.start \in PortNumbers /\ acc.end \in PortNumbers
    BY PayloadAssumption DEF Accumulators, PortNumbers
  <2>2. Range_(acc.start, acc.end) \in PortRanges
    BY <2>1 DEF Range_, PortRanges
  <2> QED BY <2>2 DEF Accumulators
<1> HIDE DEF list
<1> QED BY <1>1, <1>2 DEF Grown, Accumulators, list

LEMMA GrownIs ==
    ASSUME NEW S \in SUBSET PortNumbers, NEW i \in PortNumbers, NEW acc \in Accumulators,
           Compressed(acc, S, i - 1)
    PROVE  Grown(acc, i, S) \in Accumulators /\ Compressed(Grown(acc, i, S), S, i)
<1>1. /\ i \in Nat /\ i > 0 /\ i \in 0 .. MaxPort /\ \A x \in S : x \in Nat /\ x > 0 /\ x \in 0 .. MaxPort
      /\ acc.start \in Nat /\ acc.end \in Nat
  BY PayloadAssumption DEF PortNumbers, Accumulators
<1> DEFINE a == acc.start
           b == acc.end
<1>2. \A x \in S : x <= i <=> x <= i - 1 \/ x = i
  BY <1>1
<1>3. CASE i \notin S
  <2>1. \A x \in S : x <= i => x <= i - 1
    BY <1>2, <1>3
  <2>2. a # 0 => a <= i /\ b <= i /\ (b <= i - 1 => b <= i)
    BY <1>1, <1>2 DEF Compressed, Open
  <2> QED BY <1>1, <1>3, <2>1, <2>2 DEF Compressed, Open, Grown
<1>4. CASE i \in S /\ a = 0
  <2> DEFINE new == [acc EXCEPT !.start = i, !.end = i]
  <2>1. Grown(acc, i, S) = new
    BY <1>4 DEF Grown
  <2>2. acc.ranges = <<>> /\ \A x \in S : ~(x <= i - 1)
    BY <1>4 DEF Compressed
  <2>3. new \in Accumulators /\ new.start = i /\ new.end = i /\ new.ranges = <<>>
    BY <1>1, <2>2 DEF Accumulators
  <2> HIDE DEF new
  <2>4. Covers(<<>>, S, i)
    BY <1>4, <2>2, StartsWithNone
  <2>5. Open(i, i, S, i)
    <3>1. i .. i = {i} /\ i <= i /\ i - 1 <= i - 1
      BY <1>1
    <3> QED BY <1>4, <2>2, <3>1 DEF Open
  <2> QED BY <1>1, <2>1, <2>3, <2>4, <2>5 DEF Compressed
<1>5. CASE i \in S /\ a # 0 /\ b + 1 = i
  <2> DEFINE new == [acc EXCEPT !.end = i]
  <2>1. Grown(acc, i, S) = new
    BY <1>5 DEF Grown
  <2>2. Open(a, b, S, i - 1) /\ Covers(acc.ranges, S, a)
    BY <1>5 DEF Compressed
  <2>3. new \in Accumulators /\ new.start = a /\ new.end = i /\ new.ranges = acc.ranges
    BY <1>1 DEF Accumulators
  <2> HIDE DEF new
  <2>4. Open(a, i, S, i)
    <3>1. a <= i /\ i <= i /\ \A x \in a .. i : x \in a .. b \/ x = i
      BY <1>1, <1>5, <2>2 DEF Open
    <3> QED BY <1>1, <1>5, <2>2, <3>1 DEF Open
  <2> QED BY <1>5, <2>1, <2>2, <2>3, <2>4 DEF Compressed
<1>6. CASE i \in S /\ a # 0 /\ b + 1 # i
  <2> DEFINE list == Append(acc.ranges, Range_(a, b))
             new == [ranges |-> list, start |-> i, end |-> i]
  <2>1. Grown(acc, i, S) = new
    BY <1>6 DEF Grown
  <2>2. Open(a, b, S, i - 1) /\ Covers(acc.ranges, S, a)
    BY <1>6 DEF Compressed
  <2> HIDE DEF a, b
  <2>3. a \in S /\ b \in S /\ a \in Nat /\ b \in Nat /\ b < i - 1
    BY <1>1, <1>6, <2>2 DEF Open, a, b
  <2>4. b + 1 \notin S /\ i - 1 \notin S
    <3>1. b + 1 <= i - 1 /\ ~(b + 1 <= b) /\ i - 1 <= i - 1 /\ ~(i - 1 <= b)
      BY <1>1, <2>3
    <3> QED BY <2>2, <3>1 DEF Open
  <2>5. IsMaximal(a, b, S)
    BY <2>2, <2>4 DEF Open, IsMaximal
  <2>6. \A x \in S : x < i => x <= b
    <3>1. \A x \in S : x < i => x <= i - 1
      BY <1>1
    <3> QED BY <2>2, <3>1 DEF Open
  <2>7. b < i
    BY <1>1, <2>3
  <2>8. Covers(list, S, i)
    BY <1>1, <2>2, <2>3, <2>5, <2>6, <2>7, RangeClosed
  <2>9. list \in Seq(PortRanges)
    BY <2>8 DEF Covers
  <2> HIDE DEF list
  <2>10. new \in Accumulators /\ new.start = i /\ new.end = i /\ new.ranges = list
    BY <1>1, <2>9 DEF Accumulators
  <2> HIDE DEF new
  <2>11. Open(i, i, S, i)
    <3>1. i .. i = {i} /\ i <= i
      BY <1>1
    <3>2. \A x \in S : x <= i => x <= i
      OBVIOUS
    <3> QED BY <1>6, <2>4, <3>1, <3>2 DEF Open
  <2> QED BY <1>1, <2>1, <2>8, <2>10, <2>11 DEF Compressed
<1> QED BY <1>3, <1>4, <1>5, <1>6

(* The ranges of ports are those that cannot be made longer, once each.    *)
LEMMA CompressedIs ==
    ASSUME NEW ports \in Seq(PortNumbers), ToSet(ports) # {}
    PROVE  LET ranges == compressPorts(ports)
           IN /\ ranges \in Seq(PortRanges) /\ IsOneToOne(ranges)
              /\ ToSet(ranges) = MaximalRanges(ToSet(ports))
              /\ \A x \in ToSet(ports) : \E r \in ToSet(ranges) : x \in r.start .. r.end
<1> DEFINE n == MaxPort
           S == ToSet(ports)
           start == [ranges |-> <<>>, start |-> 0, end |-> 0]
           seq == [i \in 1 .. MaxPort |-> i]
           X == {acc \in Accumulators : acc.start # 0 => acc.end # 0}
           Runs(f) == f = [i \in 0 .. Len(seq) |-> IF i = 0 THEN start ELSE Grown(f[i - 1], seq[i], S)]
           f0 == CHOOSE f : Runs(f)
           next == [i \in 1 .. n |-> [acc \in X |-> Grown(acc, i, S)]]
           inv == [i \in 0 .. n |-> {acc \in Accumulators : Compressed(acc, S, i)}]
<1>1. n \in Nat /\ Len(seq) = n /\ \A i \in 1 .. n : seq[i] = i
  BY PayloadAssumption
<1>2. S \in SUBSET PortNumbers
  BY DEF ToSet
<1>3. compressPorts(ports) = Append(f0[Len(seq)].ranges, Range_(f0[Len(seq)].start, f0[Len(seq)].end))
  BY DEF compressPorts, Through, Grown
<1> HIDE DEF S, n, seq
<1>4. ASSUME NEW i \in 1 .. n, NEW acc \in X PROVE Grown(acc, i, S) \in X
  BY <1>1, GrownKind DEF n, PortNumbers
<1>5. start \in X /\ Compressed(start, S, 0) /\ start \in Accumulators
  <2>1. start \in Accumulators
    BY <1>1 DEF Accumulators, n
  <2>2. \A x \in S : ~(x <= 0)
    BY <1>2 DEF PortNumbers
  <2> QED BY <2>1, <2>2 DEF Compressed
<1> HIDE DEF X, start
<1>6. next \in Steps(n, X)
  BY <1>4 DEF Steps
<1>7. \A acc \in X, i \in 1 .. n : next[i][acc] = Grown(acc, i, S)
  OBVIOUS
<1> HIDE DEF next
<1>8. PICK f \in [0 .. n -> X] : f[0] = start /\ \A i \in 1 .. n : f[i] = next[i][f[i - 1]]
  <2>1. Loops(n, X, start, next) # {}
    BY <1>1, <1>5, <1>6, LoopRuns
  <2> QED BY <2>1 DEF Loops
<1>9. Runs(f0)
  <2>1. \A i \in 0 .. Len(seq) : f[i] = IF i = 0 THEN start ELSE Grown(f[i - 1], seq[i], S)
    <3>1. ASSUME NEW i \in 1 .. n PROVE f[i] = Grown(f[i - 1], seq[i], S)
      <4>1. f[i - 1] \in X
        BY <1>1, <1>8
      <4> QED BY <1>1, <1>7, <1>8, <4>1
    <3> QED BY <1>1, <1>8, <3>1
  <2>2. Runs(f)
    BY <1>1, <1>8, <2>1
  <2> HIDE DEF Runs
  <2> QED BY <2>2
<1>10. f0[0] = start /\ \A i \in 1 .. n : f0[i] = Grown(f0[i - 1], i, S)
  <2> HIDE DEF f0
  <2> QED BY <1>1, <1>9
<1> HIDE DEF f0
<1>11. f0[n] \in inv[n]
  <2>1. f0[0] \in inv[0]
    BY <1>1, <1>5, <1>10
  <2>2. \A i \in 1 .. n : f0[i - 1] \in inv[i - 1] => f0[i] \in inv[i]
    <3> SUFFICES ASSUME NEW i \in 1 .. n, f0[i - 1] \in inv[i - 1] PROVE f0[i] \in inv[i]
      OBVIOUS
    <3>1. i - 1 \in 0 .. n /\ i \in 0 .. n /\ i \in PortNumbers
      BY <1>1 DEF PortNumbers, n
    <3>2. f0[i - 1] \in Accumulators /\ Compressed(f0[i - 1], S, i - 1)
      BY <3>1
    <3>3. Grown(f0[i - 1], i, S) \in Accumulators /\ Compressed(Grown(f0[i - 1], i, S), S, i)
      BY <1>2, <3>1, <3>2, GrownIs
    <3> QED BY <1>10, <3>1, <3>3
  <2> HIDE DEF inv
  <2> QED BY <1>1, <2>1, <2>2, LoopKeeps
<1> DEFINE acc == f0[n]
<1>12. acc \in Accumulators /\ Compressed(acc, S, n)
  <2>1. n \in 0 .. n
    BY <1>1
  <2> QED BY <1>11, <2>1
<1> DEFINE a == acc.start
           b == acc.end
<1>13. Open(a, b, S, n) /\ Covers(acc.ranges, S, a)
  <2>1. \E x \in S : x <= n
    BY <1>1, <1>2 DEF S, n, PortNumbers
  <2> QED BY <1>12, <2>1 DEF Compressed
<1> HIDE DEF a, b
<1>14. a \in S /\ b \in S /\ \A x \in S : x \in Nat /\ x <= n
  BY <1>2, <1>13 DEF Open, PortNumbers, n
<1>15. b + 1 \notin S /\ b < n + 1 /\ \A x \in S : x < n + 1 /\ x <= b
  <2>1. \A x \in S : x <= b
    BY <1>13, <1>14 DEF Open
  <2>2. ~(b + 1 <= b)
    BY <1>14
  <2> QED BY <1>1, <1>14, <2>1, <2>2
<1>16. IsMaximal(a, b, S)
  BY <1>13, <1>15 DEF Open, IsMaximal
<1> DEFINE list == Append(acc.ranges, Range_(a, b))
<1>17. Covers(list, S, n + 1)
  <2> HIDE DEF acc
  <2>1. n + 1 \in Nat
    BY <1>1
  <2> QED BY <1>2, <1>13, <1>14, <1>15, <1>16, <2>1, RangeClosed
<1>18. compressPorts(ports) = list
  BY <1>1, <1>3 DEF a, b
<1> HIDE DEF list
<1>19. Before(S, n + 1) = MaximalRanges(S)
  <2> SUFFICES ASSUME NEW r \in MaximalRanges(S) PROVE r.end < n + 1
    BY DEF Before
  <2>1. PICK c \in S, d \in S : r = Range_(c, d)
    BY MaximalIs
  <2> QED BY <1>15, <2>1 DEF Range_
<1>20. \A x \in S : \E r \in ToSet(list) : x \in r.start .. r.end
  BY <1>15, <1>17 DEF Covers
<1> QED BY <1>17, <1>18, <1>19, <1>20 DEF Covers, S

-----------------------------------------------------------------------------
(* The rules of one protocol.                                              *)
Entries(rules) == UNION {ToSet(r.ports) : r \in rules}
Spans(ranges) == UNION {r.start .. r.end : r \in ranges}
RulesFit(out, S, size, proto, version) ==
    /\ out.error # "none" <=> MaxExposedPorts < IF version > 1 THEN Cardinality(MaximalRanges(S)) ELSE size
    /\ out.error = "none" =>
          /\ \A r \in out.rules : r.proto = proto /\ Len(r.ports) \in 1 .. MaxPortsPerRule
          /\ Spans(Entries(out.rules)) = S
          /\ version > 1 => Entries(out.rules) = MaximalRanges(S)

LEMMA RulesAre ==
    ASSUME NEW T, NEW entries \in Seq(T), NEW proto
    PROVE  LET out == RulesOf(entries, proto)
           IN /\ out.error # "none" <=> MaxExposedPorts < Len(entries)
              /\ out.error = "none" =>
                    /\ \A r \in out.rules : r.proto = proto /\ Len(r.ports) \in 1 .. MaxPortsPerRule
                    /\ Entries(out.rules) = ToSet(entries)
<1> DEFINE rules == {[proto |-> proto, ports |-> s] : s \in Slices(entries)}
<1>1. \A r \in rules : r.proto = proto /\ Len(r.ports) \in 1 .. MaxPortsPerRule
  BY SlicesAre
<1>2. Entries(rules) = ToSet(entries)
  <2>1. Entries(rules) = UNION {ToSet(t) : t \in Slices(entries)}
    <3>1. ASSUME NEW t \in Slices(entries) PROVE \E r \in rules : r.ports = t
      <4>1. [proto |-> proto, ports |-> t] \in rules
        OBVIOUS
      <4> QED BY <4>1
    <3>2. \A r \in rules : r.ports \in Slices(entries)
      OBVIOUS
    <3> HIDE DEF rules
    <3> QED BY <3>1, <3>2 DEF Entries
  <2> QED BY <2>1, SlicesAre
<1>3. Len(entries) > MaxExposedPorts <=> MaxExposedPorts < Len(entries)
  BY PayloadAssumption
<1> HIDE DEF rules
<1>4. RulesOf(entries, proto) = IF Len(entries) > MaxExposedPorts
                                THEN [error |-> "too many ports", rules |-> {}]
                                ELSE [error |-> "none", rules |-> rules]
  BY DEF RulesOf, rules
<1> DEFINE out == RulesOf(entries, proto)
<1>5. CASE Len(entries) > MaxExposedPorts
  <2>1. out.error = "too many ports"
    BY <1>5 DEF RulesOf
  <2> HIDE DEF out
  <2> QED BY <1>3, <1>5, <2>1 DEF out
<1>6. CASE ~(Len(entries) > MaxExposedPorts)
  <2>1. out.error = "none" /\ out.rules = rules
    BY <1>4, <1>6
  <2> HIDE DEF out
  <2> QED BY <1>1, <1>2, <1>3, <1>6, <2>1 DEF out
<1> QED BY <1>5, <1>6

LEMMA ProtoRules ==
    ASSUME NEW ports, NEW proto, ports.exposed[proto] \in Seq(PortNumbers), NEW version
    PROVE  RulesFit(RulesOfProto(ports, proto, version), ToSet(ports.exposed[proto]),
                    Len(ports.exposed[proto]), proto, version)
<1> DEFINE L == ports.exposed[proto]
           S == ToSet(L)
           out == RulesOfProto(ports, proto, version)
<1>1. L \in Seq(PortNumbers) /\ Len(L) \in Nat /\ S = {L[i] : i \in 1 .. Len(L)}
  BY DEF ToSet
<1>2. S \in SUBSET PortNumbers
  BY <1>1
<1> HIDE DEF L
<1>3. CASE L = <<>>
  <2>1. S = {} /\ Len(L) = 0
    BY <1>3 DEF ToSet
  <2>2. MaximalRanges(S) = {}
    BY <2>1 DEF MaximalRanges
  <2>3. out = [error |-> "none", rules |-> {}]
    BY <1>3 DEF RulesOfProto, L
  <2>4. Entries({}) = {} /\ Spans({}) = {}
    BY DEF Entries, Spans
  <2>5. Cardinality(MaximalRanges(S)) = 0 /\ ~(MaxExposedPorts < 0)
    BY <2>2, FS_EmptySet, PayloadAssumption
  <2> HIDE DEF S, out
  <2>6. out.error = "none" /\ out.rules = {}
    BY <2>3
  <2>7. RulesFit(out, S, Len(L), proto, version)
    BY <2>1, <2>2, <2>4, <2>5, <2>6 DEF RulesFit
  <2> QED BY <2>7 DEF S, L, out
<1>4. CASE L # <<>> /\ version > 1
  <2> DEFINE ranges == compressPorts(L)
  <2>1. S # {}
    <3>1. 1 \in 1 .. Len(L)
      BY <1>1, <1>4
    <3> QED BY <1>1, <3>1
  <2>2. /\ ranges \in Seq(PortRanges) /\ IsOneToOne(ranges) /\ ToSet(ranges) = MaximalRanges(S)
        /\ \A x \in S : \E r \in ToSet(ranges) : x \in r.start .. r.end
    BY <1>1, <2>1, CompressedIs
  <2>3. out = RulesOf(ranges, proto)
    BY <1>4 DEF RulesOfProto, generateExposeRange, L
  <2> HIDE DEF ranges, S, out
  <2>4. Len(ranges) = Cardinality(MaximalRanges(S))
    BY <2>2, LengthIs
  <2>5. Spans(MaximalRanges(S)) = S
    <3>1. \A x \in S : x \in Spans(MaximalRanges(S))
      BY <2>2 DEF Spans
    <3>2. ASSUME NEW r \in MaximalRanges(S) PROVE r.start .. r.end \subseteq S
      <4>1. PICK a \in S, b \in S : r = Range_(a, b) /\ IsMaximal(a, b, S)
        BY MaximalIs
      <4> QED BY <4>1 DEF Range_, IsMaximal
    <3> QED BY <3>1, <3>2 DEF Spans
  <2>6. /\ out.error # "none" <=> MaxExposedPorts < Len(ranges)
        /\ out.error = "none" =>
              /\ \A r \in out.rules : r.proto = proto /\ Len(r.ports) \in 1 .. MaxPortsPerRule
              /\ Entries(out.rules) = ToSet(ranges)
    BY <2>2, <2>3, RulesAre
  <2> QED BY <1>4, <2>2, <2>4, <2>5, <2>6 DEF RulesFit, S, L, out
<1>5. CASE L # <<>> /\ ~(version > 1)
  <2> DEFINE singles == [i \in DOMAIN L |-> Range_(L[i], L[i])]
  <2>1. singles \in Seq(PortRanges) /\ Len(singles) = Len(L)
        /\ ToSet(singles) = {Range_(x, x) : x \in S}
    <3>1. DOMAIN L = 1 .. Len(L)
      BY <1>1
    <3>2. \A i \in 1 .. Len(L) : Range_(L[i], L[i]) \in PortRanges
      BY <1>1 DEF Range_, PortRanges
    <3>3. singles \in Seq(PortRanges) /\ Len(singles) = Len(L) /\ DOMAIN singles = 1 .. Len(L)
      BY <1>1, <3>1, <3>2
    <3>4. \A i \in 1 .. Len(L) : singles[i] = Range_(L[i], L[i])
      BY <3>1
    <3> HIDE DEF singles
    <3>5. ToSet(singles) = {singles[i] : i \in 1 .. Len(L)}
      BY <3>3 DEF ToSet
    <3> HIDE DEF S
    <3> QED BY <1>1, <3>3, <3>4, <3>5
  <2>2. out = RulesOf(singles, proto)
    BY <1>5 DEF RulesOfProto, generateExposeRules, L
  <2> HIDE DEF singles, S, out
  <2>3. Spans({Range_(x, x) : x \in S}) = S
    <3>1. \A x \in S : Range_(x, x).start .. Range_(x, x).end = {x}
      BY <1>2 DEF Range_, PortNumbers
    <3> QED BY <3>1 DEF Spans
  <2>4. /\ out.error # "none" <=> MaxExposedPorts < Len(singles)
        /\ out.error = "none" =>
              /\ \A r \in out.rules : r.proto = proto /\ Len(r.ports) \in 1 .. MaxPortsPerRule
              /\ Entries(out.rules) = ToSet(singles)
    BY <2>1, <2>2, RulesAre
  <2> QED BY <1>5, <2>1, <2>3, <2>4 DEF RulesFit, S, L, out
<1> QED BY <1>3, <1>4, <1>5

(* The ports of a request, gone through.                                   *)
LEMMA PortsOfIs ==
    ASSUME NEW q, HasPorts(q)
    PROVE  LET s == PortsOf(q.container, q.image)
               wrong == \/ \E e \in ToSet(q.container.bindings) : IsRemapped(e)
                        \/ \E p \in Protos : Processed(q, p) > MaxProcessedPorts
           IN /\ s \in PortLists
              /\ s.error # "none" <=> wrong
              /\ s.error = "none" =>
                    \A p \in Protos :
                       /\ ToSet(s.exposed[p]) = ToPublish(q, p)
                       /\ Len(s.exposed[p]) = Processed(q, p)
                       /\ s.unpublished[p] = OfImage(q, p) \ ToPublish(q, p)
<1> DEFINE all == q.container.publishAll
           bindings == q.container.bindings
           image == q.image.ports
           s0 == NoPorts
           s1 == addPorts(s0, image, FALSE, all)
           s2 == addPorts(s1, bindings, TRUE, all)
<1>1. all \in BOOLEAN /\ ArePorts(bindings) /\ ArePorts(image)
  BY DEF HasPorts
<1>2. s0 \in PortLists /\ s0.error = "none"
      /\ \A p \in Protos : s0.exposed[p] = <<>> /\ s0.unpublished[p] = {}
  BY DEF NoPorts, PortLists, PortErrors
<1>3. ASSUME NEW list, ArePorts(list)
      PROVE  /\ IsList(list) /\ Len(list) \in Nat
             /\ \A j \in DOMAIN list : list[j].port \in PortNumbers /\ list[j].proto \in Protos
             /\ \A j, k \in DOMAIN list :
                   list[j].port = list[k].port /\ list[j].proto = list[k].proto => j = k
             /\ \A p \in Protos : OfFirst(list, Len(list), p) = PortsOfProto(list, p)
             /\ \A j \in 1 .. Len(list) : list[j] \in ToSet(list)
             /\ \A e \in ToSet(list) : \E j \in 1 .. Len(list) : list[j] = e
  <2>1. IsList(list) /\ Len(list) \in Nat /\ DOMAIN list = 1 .. Len(list)
    BY <1>3 DEF ArePorts, IsList
  <2>2. ToSet(list) = {list[j] : j \in 1 .. Len(list)}
    BY <2>1 DEF ToSet
  <2>3. \A j \in DOMAIN list : list[j].port \in PortNumbers /\ list[j].proto \in Protos
    BY <1>3, <2>1, <2>2 DEF ArePorts, PortNumbers
  <2>4. \A p \in Protos : OfFirst(list, Len(list), p) = PortsOfProto(list, p)
    BY <2>2 DEF OfFirst, PortsOfProto
  <2> QED BY <1>3, <2>1, <2>2, <2>3, <2>4 DEF ArePorts
<1> HIDE DEF s0, bindings, image, all
<1>4. /\ s1 \in PortLists
      /\ Added(s0, image, FALSE, all, Len(image), s1)
  <2>1. \A p \in Protos : Len(s0.exposed[p]) <= MaxProcessedPorts
    BY <1>2, PayloadAssumption
  <2> HIDE DEF s1
  <2> QED BY <1>1, <1>2, <1>3, <2>1, PortsAdded DEF s1
<1> DEFINE I(p) == IF all THEN OfImage(q, p) ELSE {}
           B(p) == Bound(q, p)
           c(p) == Cardinality(I(p))
           d(p) == Cardinality(B(p))
<1>5. \A p \in Protos :
         /\ OfFirst(image, Len(image), p) = OfImage(q, p)
         /\ OfFirst(bindings, Len(bindings), p) = B(p)
  BY <1>1, <1>3 DEF OfImage, Bound, image, bindings
<1>6. \A p \in Protos :
         /\ ToPublish(q, p) = B(p) \union I(p) /\ Processed(q, p) = d(p) + c(p)
         /\ d(p) \in Nat /\ c(p) \in Nat
  <2> SUFFICES ASSUME NEW p \in Protos
               PROVE  /\ ToPublish(q, p) = B(p) \union I(p) /\ Processed(q, p) = d(p) + c(p)
                      /\ d(p) \in Nat /\ c(p) \in Nat
    OBVIOUS
  <2>1. IsFiniteSet(PortNumbers)
    BY FS_Interval, PayloadAssumption DEF PortNumbers
  <2>2. B(p) \in SUBSET PortNumbers /\ OfImage(q, p) \in SUBSET PortNumbers
    <3>1. \A list : ArePorts(list) => \A e \in ToSet(list) : e.port \in PortNumbers
      BY DEF ArePorts, PortNumbers
    <3> QED BY <1>1, <3>1 DEF Bound, OfImage, PortsOfProto, bindings, image
  <2>3. IsFiniteSet(B(p)) /\ IsFiniteSet(I(p))
    BY <2>1, <2>2, FS_Subset, FS_EmptySet
  <2>4. d(p) \in Nat /\ c(p) \in Nat
    <3> HIDE DEF B, I
    <3> QED BY <2>3, FS_CardinalityType
  <2>5. ToPublish(q, p) = B(p) \union I(p)
    BY DEF ToPublish, all
  <2>6. Processed(q, p) = d(p) + c(p)
    <3>1. CASE all = TRUE
      BY <3>1 DEF Processed, all
    <3>2. CASE all = FALSE
      <4>1. c(p) = 0
        BY <3>2, FS_EmptySet
      <4>2. Processed(q, p) = d(p) + 0
        BY <3>2 DEF Processed, all
      <4> QED BY <4>1, <4>2
    <3> QED BY <1>1, <3>1, <3>2
  <2> QED BY <2>4, <2>5, <2>6
<1>7. /\ s1.error = "none" =>
            \A p \in Protos : /\ ToSet(s1.exposed[p]) = I(p) /\ Len(s1.exposed[p]) = c(p)
                              /\ Len(s1.exposed[p]) <= MaxProcessedPorts
                              /\ s1.unpublished[p] = OfImage(q, p) \ I(p)
      /\ s1.error # "none" => \E p \in Protos : c(p) > MaxProcessedPorts
  <2>1. \A p \in Protos : ToSet(s0.exposed[p]) = {} /\ Len(s0.exposed[p]) = 0 /\ s0.unpublished[p] = {}
    BY <1>2 DEF ToSet
  <2> HIDE DEF s1
  <2>2. CASE all = TRUE
    <3>1. \A p \in Protos : I(p) = OfImage(q, p) /\ c(p) = Cardinality(OfImage(q, p)) /\ c(p) \in Nat
      BY <1>6, <2>2
    <3> HIDE DEF I, c
    <3>2. ASSUME s1.error = "none", NEW p \in Protos
          PROVE  /\ ToSet(s1.exposed[p]) = I(p) /\ Len(s1.exposed[p]) = c(p)
                 /\ Len(s1.exposed[p]) <= MaxProcessedPorts
                 /\ s1.unpublished[p] = OfImage(q, p) \ I(p)
      <4>1. /\ ToSet(s1.exposed[p]) = ToSet(s0.exposed[p]) \union OfFirst(image, Len(image), p)
            /\ Len(s1.exposed[p]) = Len(s0.exposed[p]) + Cardinality(OfFirst(image, Len(image), p))
            /\ Len(s1.exposed[p]) <= MaxProcessedPorts
            /\ s1.unpublished[p] = s0.unpublished[p] \ OfFirst(image, Len(image), p)
        BY <1>4, <2>2, <3>2 DEF Added
      <4>2. Len(s1.exposed[p]) = 0 + c(p)
        BY <1>5, <2>1, <3>1, <4>1
      <4>3. ToSet(s1.exposed[p]) = I(p)
        BY <1>5, <2>1, <3>1, <4>1
      <4>4. s1.unpublished[p] = OfImage(q, p) \ I(p)
        BY <1>5, <2>1, <3>1, <4>1
      <4>5. Len(s1.exposed[p]) = c(p)
        BY <3>1, <4>2
      <4> QED BY <4>1, <4>3, <4>4, <4>5
    <3>3. ASSUME s1.error # "none" PROVE \E p \in Protos : c(p) > MaxProcessedPorts
      <4>1. PICK p \in Protos : Len(s0.exposed[p]) + Cardinality(OfFirst(image, Len(image), p)) > MaxProcessedPorts
        BY <1>4, <2>2, <3>3 DEF Added
      <4>2. 0 + c(p) > MaxProcessedPorts
        BY <1>5, <2>1, <3>1, <4>1
      <4> QED BY <3>1, <4>2
    <3> QED BY <3>2, <3>3
  <2>3. CASE all = FALSE
    <3>1. \A p \in Protos : I(p) = {} /\ c(p) = 0
      BY <2>3, FS_EmptySet
    <3> HIDE DEF I, c
    <3>2. /\ s1.exposed = s0.exposed /\ s1.error = "none"
          /\ \A p \in Protos : s1.unpublished[p] = s0.unpublished[p] \union OfFirst(image, Len(image), p)
      BY <1>4, <2>3 DEF Added
    <3>3. ASSUME NEW p \in Protos
          PROVE  /\ ToSet(s1.exposed[p]) = I(p) /\ Len(s1.exposed[p]) = c(p)
                 /\ Len(s1.exposed[p]) <= MaxProcessedPorts
      <4>1. ToSet(s1.exposed[p]) = {} /\ Len(s1.exposed[p]) = 0
        BY <2>1, <3>2
      <4> QED BY <3>1, <4>1, PayloadAssumption
    <3>4. ASSUME NEW p \in Protos PROVE s1.unpublished[p] = OfImage(q, p) \ I(p)
      BY <1>5, <2>1, <3>1, <3>2
    <3> QED BY <3>2, <3>3, <3>4
  <2> QED BY <1>1, <2>2, <2>3
<1>8. /\ s2 \in PortLists
      /\ s1.error = "none" => Added(s1, bindings, TRUE, all, Len(bindings), s2)
      /\ s1.error # "none" => s2 = s1
  <2> HIDE DEF s1, s2, I, c
  <2>1. s1.error = "none" => \A p \in Protos : Len(s1.exposed[p]) <= MaxProcessedPorts
    BY <1>7
  <2> QED BY <1>1, <1>3, <1>4, <2>1, PortsAdded DEF s2
<1>9. PortsOf(q.container, q.image) = s2
  BY DEF PortsOf, s0, image, bindings, all
<1>10. /\ \A j \in 1 .. Len(bindings) : bindings[j] \in ToSet(bindings)
       /\ \A e \in ToSet(bindings) : \E j \in 1 .. Len(bindings) : bindings[j] = e
  BY <1>1, <1>3
<1> HIDE DEF s1, s2, I, B, c, d
<1>11. CASE s1.error # "none"
  <2>1. PICK p \in Protos : c(p) > MaxProcessedPorts
    BY <1>7, <1>11
  <2>2. Processed(q, p) > MaxProcessedPorts
    BY <1>6, <2>1, PayloadAssumption
  <2> QED BY <1>8, <1>9, <1>11, <2>2
<1>12. CASE s1.error = "none"
  <2>1. ASSUME s2.error = "none", NEW p \in Protos
        PROVE  /\ ToSet(s2.exposed[p]) = ToPublish(q, p) /\ Len(s2.exposed[p]) = Processed(q, p)
               /\ Len(s2.exposed[p]) <= MaxProcessedPorts
               /\ s2.unpublished[p] = OfImage(q, p) \ ToPublish(q, p)
    <3>1. /\ ToSet(s2.exposed[p]) = ToSet(s1.exposed[p]) \union B(p)
          /\ Len(s2.exposed[p]) = Len(s1.exposed[p]) + d(p)
          /\ Len(s2.exposed[p]) <= MaxProcessedPorts
          /\ s2.unpublished[p] = s1.unpublished[p] \ B(p)
      BY <1>5, <1>8, <1>12, <2>1 DEF Added, d
    <3>2. Len(s2.exposed[p]) = c(p) + d(p) /\ c(p) \in Nat /\ d(p) \in Nat
      BY <1>6, <1>7, <1>12, <3>1
    <3>3. ToSet(s2.exposed[p]) = ToPublish(q, p)
      BY <1>6, <1>7, <1>12, <3>1
    <3>4. s2.unpublished[p] = OfImage(q, p) \ ToPublish(q, p)
      BY <1>6, <1>7, <1>12, <3>1
    <3>5. Len(s2.exposed[p]) = Processed(q, p)
      BY <1>6, <3>2
    <3> QED BY <3>1, <3>3, <3>4, <3>5
  <2>2. s2.error = "none" => \A j \in 1 .. Len(bindings) : ~IsRemapped(bindings[j])
    BY <1>8, <1>12 DEF Added
  <2>3. ASSUME s2.error # "none", ~(\E j \in 1 .. Len(bindings) : IsRemapped(bindings[j]))
        PROVE  \E p \in Protos : Processed(q, p) > MaxProcessedPorts
    <3>1. PICK p \in Protos : Len(s1.exposed[p]) + d(p) > MaxProcessedPorts
      BY <1>5, <1>8, <1>12, <2>3 DEF Added, d
    <3>2. c(p) + d(p) > MaxProcessedPorts /\ c(p) \in Nat /\ d(p) \in Nat
      BY <1>6, <1>7, <1>12, <3>1
    <3> QED BY <1>6, <3>2, PayloadAssumption
  <2>4. s2.error = "none" => \A p \in Protos : ~(Processed(q, p) > MaxProcessedPorts)
    <3> SUFFICES ASSUME s2.error = "none", NEW p \in Protos PROVE ~(Processed(q, p) > MaxProcessedPorts)
      OBVIOUS
    <3>1. Processed(q, p) <= MaxProcessedPorts /\ Processed(q, p) \in Nat
      BY <1>6, <2>1
    <3> QED BY <3>1, PayloadAssumption
  <2>5. s2.error = "none" => \A e \in ToSet(bindings) : ~IsRemapped(e)
    BY <1>10, <2>2
  <2>6. (\E j \in 1 .. Len(bindings) : IsRemapped(bindings[j])) => \E e \in ToSet(bindings) : IsRemapped(e)
    BY <1>10
  <2> QED BY <1>8, <1>9, <2>1, <2>3, <2>4, <2>5, <2>6 DEF bindings
<1> QED BY <1>11, <1>12

(* What is published is what is asked for, or the request is refused.      *)
LEMMA PortsMeant ==
    ASSUME NEW q, HasPorts(q)
    PROVE  PortsAsAsked(q, addPublishFirewallRules(q.container, q.image, q.version))
<1> DEFINE a == addPublishFirewallRules(q.container, q.image, q.version)
           s == PortsOf(q.container, q.image)
           v == q.version
           tcp == RulesOfProto(s, "tcp", v)
           udp == RulesOfProto(s, "udp", v)
           size(p) == IF v > 1 THEN Cardinality(MaximalRanges(ToPublish(q, p))) ELSE Processed(q, p)
           wrong == \/ \E e \in ToSet(q.container.bindings) : IsRemapped(e)
                    \/ \E p \in Protos : Processed(q, p) > MaxProcessedPorts
<1>1. /\ s \in PortLists /\ (s.error # "none" <=> wrong)
      /\ s.error = "none" =>
            \A p \in Protos :
               /\ ToSet(s.exposed[p]) = ToPublish(q, p) /\ Len(s.exposed[p]) = Processed(q, p)
               /\ s.unpublished[p] = OfImage(q, p) \ ToPublish(q, p)
  BY PortsOfIs
<1>2. IsWrong(q) <=> wrong \/ \E p \in Protos : MaxExposedPorts < size(p)
  BY DEF IsWrong, IsRemapped
<1>3. ASSUME s.error = "none", NEW p \in Protos
      PROVE  RulesFit(RulesOfProto(s, p, v), ToPublish(q, p), Processed(q, p), p, v)
  <2>1. s.exposed[p] \in Seq(PortNumbers)
    BY <1>1 DEF PortLists
  <2> HIDE DEF s
  <2> QED BY <1>1, <1>3, <2>1, ProtoRules
<1>4. "tcp" \in Protos /\ "udp" \in Protos /\ \A p \in Protos : p = "tcp" \/ p = "udp"
  BY DEF Protos
<1>5. s.error = "none" =>
         /\ RulesFit(tcp, ToPublish(q, "tcp"), Processed(q, "tcp"), "tcp", v)
         /\ RulesFit(udp, ToPublish(q, "udp"), Processed(q, "udp"), "udp", v)
  BY <1>3, <1>4
<1> DEFINE nothing == q.container.publishAll = FALSE /\ q.container.bindings = <<>> /\ q.image.ports = <<>>
<1>6. a = IF nothing THEN Publishing("none", {}, NoPorts)
          ELSE IF s.error # "none" THEN Publishing(s.error, {}, NoPorts)
          ELSE IF tcp.error # "none" THEN Publishing(tcp.error, {}, s)
          ELSE IF udp.error # "none" THEN Publishing(udp.error, {}, s)
          ELSE Publishing("none", tcp.rules \union udp.rules, s)
  <2>1. q.container.publishAll \in BOOLEAN
    BY DEF HasPorts
  <2> QED BY <2>1 DEF addPublishFirewallRules
<1> HIDE DEF a, s, tcp, udp, size, wrong, nothing
<1>7. CASE nothing
  <2>1. \A p \in Protos : /\ Bound(q, p) = {} /\ OfImage(q, p) = {} /\ ToPublish(q, p) = {}
                          /\ Processed(q, p) = 0
    <3>1. ToSet(q.container.bindings) = {} /\ ToSet(q.image.ports) = {} /\ q.container.publishAll = FALSE
      BY <1>7 DEF nothing, ToSet
    <3>2. \A p \in Protos : Bound(q, p) = {} /\ OfImage(q, p) = {}
      BY <3>1 DEF Bound, OfImage, PortsOfProto
    <3> QED BY <3>1, <3>2, FS_EmptySet DEF ToPublish, Processed
  <2>2. a.error = "none" /\ a.rules = {} /\ \A p \in Protos : a.unpublished[p] = {}
    BY <1>6, <1>7 DEF Publishing, NoPorts
  <2>3. MaximalRanges({}) = {}
    BY DEF MaximalRanges
  <2>4. \A p \in Protos : getPublishedPorts({}, p) = {} /\ UNION {ToSet(r.ports) : r \in {r \in {} : r.proto = p}} = {}
    BY DEF getPublishedPorts
  <2>5. ~IsWrong(q)
    <3>1. ToSet(q.container.bindings) = {}
      BY <1>7 DEF nothing, ToSet
    <3>2. \A p \in Protos : size(p) = 0
      BY <2>1, <2>3, FS_EmptySet DEF size
    <3>3. ~(0 > MaxProcessedPorts) /\ ~(MaxExposedPorts < 0)
      BY PayloadAssumption
    <3> QED BY <1>2, <2>1, <3>1, <3>2, <3>3 DEF wrong
  <2> QED BY <2>1, <2>2, <2>3, <2>4, <2>5 DEF PortsAsAsked, a
<1>8. CASE ~nothing /\ s.error # "none"
  <2>1. a.error = s.error
    BY <1>6, <1>8 DEF Publishing
  <2> QED BY <1>1, <1>2, <1>8, <2>1 DEF PortsAsAsked, a
<1>9. CASE ~nothing /\ s.error = "none" /\ (tcp.error # "none" \/ udp.error # "none")
  <2>1. a.error # "none"
    BY <1>6, <1>9 DEF Publishing
  <2>2. \E p \in Protos : MaxExposedPorts < size(p)
    BY <1>4, <1>5, <1>9 DEF RulesFit, size
  <2> QED BY <1>2, <2>1, <2>2 DEF PortsAsAsked, a
<1>10. CASE ~nothing /\ s.error = "none" /\ tcp.error = "none" /\ udp.error = "none"
  <2>1. a.error = "none" /\ a.rules = tcp.rules \union udp.rules /\ a.unpublished = s.unpublished
    BY <1>6, <1>10 DEF Publishing
  <2>2. ~IsWrong(q)
    <3>1. \A p \in Protos : ~(MaxExposedPorts < size(p))
      BY <1>4, <1>5, <1>10 DEF RulesFit, size
    <3> QED BY <1>1, <1>2, <1>10, <3>1
  <2>3. /\ \A r \in tcp.rules : r.proto = "tcp" /\ Len(r.ports) \in 1 .. MaxPortsPerRule
        /\ \A r \in udp.rules : r.proto = "udp" /\ Len(r.ports) \in 1 .. MaxPortsPerRule
    BY <1>5, <1>10 DEF RulesFit
  <2> DEFINE of(p) == {r \in a.rules : r.proto = p}
  <2>4. of("tcp") = tcp.rules /\ of("udp") = udp.rules
    BY <2>1, <2>3
  <2>5. ASSUME NEW p \in Protos
        PROVE  /\ Spans(Entries(of(p))) = ToPublish(q, p)
               /\ v > 1 => Entries(of(p)) = MaximalRanges(ToPublish(q, p))
    <3> HIDE DEF of
    <3> QED BY <1>4, <1>5, <1>10, <2>4 DEF RulesFit
  <2>6. \A p \in Protos : getPublishedPorts(a.rules, p) = Spans(Entries(of(p)))
    <3> SUFFICES ASSUME NEW p \in Protos PROVE getPublishedPorts(a.rules, p) = Spans(Entries(of(p)))
      OBVIOUS
    <3>1. getPublishedPorts(a.rules, p) = UNION {UNION {r.start..r.end : r \in ToSet(rule.ports)} : rule \in of(p)}
      BY DEF getPublishedPorts
    <3> HIDE DEF of
    <3> QED BY <3>1 DEF Spans, Entries
  <2>7. \A p \in Protos : UNION {ToSet(r.ports) : r \in {r \in a.rules : r.proto = p}} = Entries(of(p))
    BY DEF Entries
  <2>8. \A r \in a.rules : Len(r.ports) \in 1 .. MaxPortsPerRule
    BY <2>1, <2>3
  <2> HIDE DEF of
  <2> QED BY <1>1, <1>10, <2>1, <2>2, <2>5, <2>6, <2>7, <2>8 DEF PortsAsAsked, a, v
<1> QED BY <1>7, <1>8, <1>9, <1>10

-----------------------------------------------------------------------------
(* The VM that is shown has what the payload says and what became of it.   *)
LEMMA VmIs ==
    ASSUME NEW q, IsVM(q.now.vm)
    PROVE  LET p == buildVmPayload(q.container, q.image, q.config)
               vm == Over(p.vm, q.now.vm)
               command == commandOf(q.container, q.image)
           IN /\ vm.entrypoint = command.entrypoint /\ vm.cmd = command.cmd /\ vm.env = command.env
              /\ vm.unpublished = addPublishFirewallRules(q.container, q.image, q.config.fwrule_version).unpublished
              /\ vm.tags = vmTagsFromLabels(q.container, q.image).tags
              /\ vm.restartpolicy = restartpolicyOf(q.container.restart)
              /\ vm.filesystems = FilesystemsOf(q.container, mountsOf(q.container, q.image, q.config).filesystems)
              /\ vm.uuid = q.now.vm.uuid /\ vm.alias = q.now.vm.alias /\ vm.package = q.now.vm.package
              /\ vm.state = q.now.vm.state
<1> DEFINE p == buildVmPayload(q.container, q.image, q.config)
           n == q.now.vm
           command == commandOf(q.container, q.image)
           unpublished == addPublishFirewallRules(q.container, q.image, q.config.fwrule_version).unpublished
           tags == vmTagsFromLabels(q.container, q.image).tags
           filesystems == FilesystemsOf(q.container, mountsOf(q.container, q.image, q.config).filesystems)
           log == logConfigOf(q.container).log
           r == [entrypoint |-> command.entrypoint, cmd |-> command.cmd, env |-> command.env,
                 user |-> command.user, unpublished |-> unpublished,
                 publishAll |-> q.container.publishAll, log |-> log, tags |-> tags,
                 restartpolicy |-> restartpolicyOf(q.container.restart), filesystems |-> filesystems]
<1>1. p.vm = r
  BY DEF buildVmPayload
<1> HIDE DEF p, command, unpublished, tags, filesystems, log
<1>2. DOMAIN n = {"uuid", "alias", "package", "state", "exit", "started"}
  BY DEF IsVM
<1> DEFINE vm == Over(r, n)
<1>3. \A k \in DOMAIN r : vm[k] = r[k]
  BY DEF Over
<1>4. \A k \in DOMAIN n : k \notin DOMAIN r => vm[k] = n[k]
  BY DEF Over
<1>5. DOMAIN r = {"entrypoint", "cmd", "env", "user", "unpublished", "publishAll", "log", "tags",
                  "restartpolicy", "filesystems"}
  OBVIOUS
<1>6. /\ vm.entrypoint = r.entrypoint /\ vm.cmd = r.cmd /\ vm.env = r.env
      /\ vm.unpublished = r.unpublished /\ vm.tags = r.tags
      /\ vm.restartpolicy = r.restartpolicy /\ vm.filesystems = r.filesystems
  <2> HIDE DEF vm, r
  <2> QED BY <1>3, <1>5
<1>7. /\ vm.uuid = n.uuid /\ vm.alias = n.alias /\ vm.package = n.package /\ vm.state = n.state
  <2> HIDE DEF vm, r, n
  <2> QED BY <1>2, <1>4, <1>5
<1> HIDE DEF vm
<1>8. /\ vm.entrypoint = command.entrypoint /\ vm.cmd = command.cmd /\ vm.env = command.env
      /\ vm.unpublished = unpublished /\ vm.tags = tags
      /\ vm.restartpolicy = restartpolicyOf(q.container.restart) /\ vm.filesystems = filesystems
  BY <1>6
<1> HIDE DEF r
<1> QED BY <1>1, <1>7, <1>8 DEF p, vm, command, unpublished, tags, filesystems

(* The command that is shown.                                              *)
LEMMA CommandIsShown ==
    ASSUME NEW q, HasCommand(q), NEW vm,
           LET command == commandOf(q.container, q.image)
           IN vm.entrypoint = command.entrypoint /\ vm.cmd = command.cmd /\ vm.env = command.env,
           NEW s, s.inspect.Entrypoint = vm.entrypoint, s.inspect.Cmd = vm.cmd,
           s.inspect.Env = vm.env,
           s.inspect.Path = Head_(vm.entrypoint \o vm.cmd, 1),
           s.inspect.Args = Tail_(vm.entrypoint \o vm.cmd, 1),
           s.ps.Command = vm.entrypoint \o vm.cmd
    PROVE  CommandShown(q, s)
<1> DEFINE command == commandOf(q.container, q.image)
           i == s.inspect
           shown == [entrypoint |-> i.Entrypoint, cmd |-> i.Cmd, env |-> i.Env]
<1>1. CommandAsAsked(q, command)
  BY CommandMeant
<1>2. i.Entrypoint = command.entrypoint /\ i.Cmd = command.cmd /\ i.Env = command.env
  OBVIOUS
<1>3. \E T : command.entrypoint \in Seq(T) /\ command.cmd \in Seq(T)
  <2> DEFINE lists == {q.container.entrypoint, q.container.cmd, q.image.entrypoint, q.image.cmd}
             T == UNION {ToSet(l) : l \in lists}
  <2>1. \A l \in lists : l = Absent \/ l \in Seq(ToSet(l))
    BY DEF HasCommand, MayBeList, IsList
  <2>2. \A l \in lists : ToSet(l) \subseteq T
    OBVIOUS
  <2>3. \A U, V : U \subseteq V => Seq(U) \subseteq Seq(V)
    BY SeqMonotonic
  <2> HIDE DEF T
  <2>4. \A l \in lists : ListOr(l) \in Seq(T)
    <3>1. <<>> \in Seq(T)
      OBVIOUS
    <3> HIDE DEF lists
    <3> QED BY <2>1, <2>2, <2>3, <3>1 DEF ListOr
  <2>5. \E l \in lists : command.entrypoint = ListOr(l)
    BY DEF commandOf, Or
  <2>6. \E l \in lists : command.cmd = ListOr(l)
    BY DEF commandOf, Or
  <2> HIDE DEF lists, command
  <2> QED BY <2>4, <2>5, <2>6
<1> HIDE DEF command
<1>4. CommandAsAsked(q, shown)
  BY <1>1, <1>2 DEF CommandAsAsked
<1>5. PICK T : command.entrypoint \in Seq(T) /\ command.cmd \in Seq(T)
  BY <1>3
<1> DEFINE line == command.entrypoint \o command.cmd
<1>6. line \in Seq(T) /\ Len(line) \in Nat
  <2> DEFINE e == command.entrypoint
             c == command.cmd
  <2>1. e \in Seq(T) /\ c \in Seq(T)
    BY <1>5
  <2> HIDE DEF e, c
  <2>2. e \o c \in Seq(T)
    BY <2>1, ConcatProperties
  <2> DEFINE all == e \o c
  <2> HIDE DEF all
  <2>3. all \in Seq(T) /\ Len(all) \in Nat
    BY <2>2 DEF all
  <2> QED BY <2>3 DEF all, e, c
<1> HIDE DEF line
<1>7. Head_(line, 1) \o Tail_(line, 1) = line
  <2>1. CASE Len(line) = 0
    <3>1. line = <<>>
      BY <1>6, <2>1, NoEntries
    <3> QED BY <3>1 DEF Head_, Tail_
  <2>2. CASE Len(line) # 0
    <3> DEFINE h == Head_(line, 1)
               t == Tail_(line, 1)
    <3>1. 1 \in 0 .. Len(line)
      BY <1>6, <2>2
    <3>2. /\ h \in Seq(T) /\ Len(h) = 1 /\ \A k \in 1 .. 1 : h[k] = line[k]
          /\ t \in Seq(T) /\ Len(t) = Len(line) - 1
          /\ \A k \in 1 .. Len(line) - 1 : t[k] = line[1 + k]
      BY <1>6, <3>1, PartsOf
    <3> HIDE DEF h, t
    <3>3. /\ h \o t \in Seq(T) /\ Len(h \o t) = 1 + Len(t)
          /\ \A k \in 1 .. 1 + Len(t) : (h \o t)[k] = IF k <= 1 THEN h[k] ELSE t[k - 1]
      <4>1. /\ h \o t \in Seq(T) /\ Len(h \o t) = Len(h) + Len(t)
            /\ \A k \in 1 .. Len(h) + Len(t) :
                  (h \o t)[k] = IF k <= Len(h) THEN h[k] ELSE t[k - Len(h)]
        BY <3>2, ConcatProperties
      <4> QED BY <3>2, <4>1
    <3>4. ASSUME NEW k \in 1 .. Len(line) PROVE (h \o t)[k] = line[k]
      <4>1. CASE k = 1
        BY <3>2, <3>3, <4>1
      <4>2. CASE k # 1
        <5>1. k - 1 \in 1 .. Len(line) - 1 /\ 1 + (k - 1) = k /\ ~(k <= 1)
              /\ k \in 1 .. 1 + Len(t)
          BY <1>6, <3>2, <4>2
        <5> QED BY <3>2, <3>3, <5>1
      <4> QED BY <4>1, <4>2
    <3>5. Len(h \o t) = Len(line)
      BY <1>6, <3>2, <3>3
    <3> QED BY <1>6, <3>3, <3>4, <3>5, SeqEqual DEF h, t
  <2> QED BY <2>1, <2>2
<1> QED BY <1>2, <1>4, <1>7 DEF CommandShown, line

(* The restart policy that is shown.                                       *)
LEMMA RestartIsShown ==
    ASSUME NEW q, NEW s,
           q.container.restart = Policy(q.container.restart.Name,
                                        q.container.restart.MaximumRetryCount),
           s.inspect.RestartPolicy = RestartPolicyOf(restartpolicyOf(q.container.restart))
    PROVE  RestartShown(q, s)
<1> DEFINE policy == q.container.restart
           parts == restartpolicyOf(policy)
<1>1. CASE policy.Name = "always"
  <2>1. parts = <<"always">>
    BY <1>1 DEF restartpolicyOf
  <2>2. RestartPolicyOf(parts) = Policy("always", 0)
    BY <2>1 DEF RestartPolicyOf, NoText
  <2> QED BY <1>1, <2>2 DEF RestartShown
<1>2. CASE policy.Name = "on-failure" /\ policy.MaximumRetryCount = 0
  <2>1. parts = <<"on-failure">>
    BY <1>2 DEF restartpolicyOf
  <2>2. RestartPolicyOf(parts) = Policy("on-failure", 0)
    BY <2>1 DEF RestartPolicyOf, NoText
  <2> QED BY <1>2, <2>2 DEF RestartShown
<1>3. CASE policy.Name = "on-failure" /\ policy.MaximumRetryCount # 0
  <2>1. parts = <<"on-failure", policy.MaximumRetryCount>>
    BY <1>3 DEF restartpolicyOf
  <2>2. RestartPolicyOf(parts) = Policy("on-failure", policy.MaximumRetryCount)
    BY <2>1 DEF RestartPolicyOf, NoText
  <2> QED BY <1>3, <2>2 DEF RestartShown
<1>4. CASE policy.Name \notin {"always", "on-failure"}
  <2>1. parts = <<>>
    BY <1>4 DEF restartpolicyOf, NoText
  <2>2. ASSUME NEW p, p = NoText, Len(p) # 1 PROVE RestartPolicyOf(p) = Policy("", 0)
    BY <2>2 DEF RestartPolicyOf
  <2>3. Len(<<>>) # 1
    OBVIOUS
  <2>4. RestartPolicyOf(parts) = Policy("", 0)
    BY <2>1, <2>2, <2>3 DEF NoText
  <2> QED BY <1>4, <2>4 DEF RestartShown
<1> QED BY <1>1, <1>2, <1>3, <1>4

(* The ports that are published, from the rules: those of other users      *)
(* publish none of this container.                                         *)
LEMMA PublishedIs ==
    ASSUME NEW rules, NEW others, NEW vm, NEW uuid, vm.uuid = uuid, NEW p \in Protos,
           getPublishingRules(others, vm) = {}
    PROVE  getPublishedPorts(getPublishingRules(FwRules(rules, uuid) \union others, vm), p)
           = getPublishedPorts(rules, p)
<1> DEFINE fw == FwRules(rules, uuid)
           mine == getPublishingRules(fw \union others, vm)
           Ports_(rule) == UNION {r.start..r.end : r \in ToSet(rule.ports)}
<1>1. \A r \in mine : r \in fw
  BY DEF getPublishingRules, InterestingRules
<1>2. \A rule \in rules :
         LET r == FwRule(rule, uuid)
         IN /\ r.proto = rule.proto /\ r.ports = rule.ports /\ r.parses = TRUE /\ r.any = TRUE
            /\ r.all = FALSE /\ r.action = "allow" /\ uuid \in r.vms
  BY DEF FwRule
<1>3. \A rule \in rules : rule.proto = p =>
         /\ FwRule(rule, uuid) \in mine /\ FwRule(rule, uuid).proto = p
         /\ FwRule(rule, uuid).ports = rule.ports
  BY <1>2 DEF getPublishingRules, InterestingRules, FwRules
<1>4. \A r \in mine : \E rule \in rules : r.proto = rule.proto /\ r.ports = rule.ports
  BY <1>1, <1>2 DEF FwRules
<1> HIDE DEF mine, fw
<1>5. /\ getPublishedPorts(mine, p) = UNION {Ports_(r) : r \in {r \in mine : r.proto = p}}
      /\ getPublishedPorts(rules, p) = UNION {Ports_(r) : r \in {r \in rules : r.proto = p}}
  BY DEF getPublishedPorts
<1>6. \A port : \A r \in mine : port \in Ports_(r) /\ r.proto = p =>
         \E rule \in rules : port \in Ports_(rule) /\ rule.proto = p
  BY <1>4
<1>7. \A port : \A rule \in rules : port \in Ports_(rule) /\ rule.proto = p =>
         \E r \in mine : port \in Ports_(r) /\ r.proto = p
  BY <1>3
<1> HIDE DEF Ports_
<1>8. \A port : port \in getPublishedPorts(mine, p) <=> port \in getPublishedPorts(rules, p)
  BY <1>5, <1>6, <1>7
<1> QED BY <1>8 DEF mine, fw

LEMMA SameInteresting ==
    \A fwrules, vm : getPublishingRules(InterestingRules(fwrules), vm) = getPublishingRules(fwrules, vm)
  BY DEF getPublishingRules, InterestingRules

(* Ports that are published, and those that are only exposed.              *)
IsExposure(published, all, Quiet, quiet, Exposed) ==
    /\ \A port \in all : port[2] \in Protos
    /\ \A p \in Protos : \A x : x \in Quiet[p] <=> x \in all /\ x[2] = p /\ x \notin published
    /\ published \subseteq all
    /\ \A x : x \in quiet <=> \E p \in Protos : x \in Quiet[p]
    /\ Exposed = published \union (IF Quiet["udp"] # {} THEN Quiet["udp"] ELSE Quiet["tcp"])
LEMMA PortSets ==
    ASSUME NEW published, NEW all, NEW Quiet, NEW quiet, NEW Exposed,
           IsExposure(published, all, Quiet, quiet, Exposed)
    PROVE  /\ published \union quiet = all
           /\ quiet \ published = all \ published
           /\ Exposed \subseteq all
           /\ (\A p \in Protos : Quiet[p] # {}) \/ Exposed = all
<1>0. /\ \A port \in all : port[2] \in Protos
      /\ \A p \in Protos : \A x : x \in Quiet[p] <=> x \in all /\ x[2] = p /\ x \notin published
      /\ published \subseteq all
      /\ \A x : x \in quiet <=> \E p \in Protos : x \in Quiet[p]
      /\ Exposed = published \union (IF Quiet["udp"] # {} THEN Quiet["udp"] ELSE Quiet["tcp"])
  BY DEF IsExposure
<1>1. quiet = all \ published
  <2>1. \A x : x \in quiet <=> x \in all \ published
    BY <1>0
  <2> QED BY <2>1
<1>2. Exposed \subseteq all
  BY <1>0 DEF Protos
<1>3. ASSUME \E p \in Protos : Quiet[p] = {} PROVE Exposed = all
  <2>1. Quiet["udp"] = {} \/ Quiet["tcp"] = {}
    BY <1>0, <1>3 DEF Protos
  <2>2. \A x : x \in all \ published => x \in Quiet["udp"] \/ x \in Quiet["tcp"]
    BY <1>0 DEF Protos
  <2>3. \A x : x \in all <=> x \in Exposed
    BY <1>0, <1>2, <2>1, <2>2
  <2> QED BY <1>2, <2>3
<1>4. published \union quiet = all /\ quiet \ published = all \ published
  BY <1>0, <1>1
<1> QED BY <1>2, <1>3, <1>4

(* The ports that are exposed only, and the names of the package of a VM.  *)
PackageNames(vm, packages) == {p.name : p \in {p \in packages : p.uuid = vm.package}}
PackageName(names) == CHOOSE n \in names : TRUE
ShownName(names) == IF names = {} THEN UnknownPackage ELSE PackageName(names)
Quiet_(vm) == UNION {Unpublished(vm, p) : p \in Protos}
ShowsPorts(s, vm, fwrules) ==
    LET published == PublishedPorts(fwrules, vm)
        again == PublishedPorts(InterestingRules(fwrules), vm)
    IN /\ s.inspect.PortBindings = published /\ s.ps.Public = again
       /\ s.inspect.Ports = published \union Quiet_(vm) /\ s.ps.Private = Quiet_(vm) \ again
       /\ s.inspect.ExposedPorts = ExposedPorts(vm, published)
Publishes(q, rules, unpublished) ==
    \A p \in Protos : /\ getPublishedPorts(rules, p) = ToPublish(q, p)
                      /\ unpublished[p] = OfImage(q, p) \ ToPublish(q, p)
LEMMA PortsAreShown ==
    ASSUME NEW q, NEW rules, NEW unpublished, NEW others, NEW vm, NEW s,
           Publishes(q, rules, unpublished), getPublishingRules(others, vm) = {}, vm.unpublished = unpublished,
           ShowsPorts(s, vm, FwRules(rules, vm.uuid) \union others)
    PROVE  PortsShown(q, s)
<1> DEFINE fwrules == FwRules(rules, vm.uuid) \union others
           published == UNION {ToPublish(q, p) \X {p} : p \in Protos}
           all == UNION {(Bound(q, p) \union OfImage(q, p)) \X {p} : p \in Protos}
           Quiet == [p \in Protos |-> Unpublished(vm, p)]
           Exposed == ExposedPorts(vm, published)
           quiet == Quiet_(vm)
           shown == PublishedPorts(fwrules, vm)
           again == PublishedPorts(InterestingRules(fwrules), vm)
<1>0. /\ s.inspect.PortBindings = shown /\ s.ps.Public = again
      /\ s.inspect.Ports = shown \union quiet /\ s.ps.Private = quiet \ again
      /\ s.inspect.ExposedPorts = ExposedPorts(vm, shown)
  BY DEF ShowsPorts
<1>1. ASSUME NEW rs, \A p \in Protos : getPublishedPorts(getPublishingRules(rs, vm), p) = ToPublish(q, p)
      PROVE  PublishedPorts(rs, vm) = published
  <2>1. PublishedPorts(rs, vm) = UNION {{<<port, p>> : port \in ToPublish(q, p)} : p \in Protos}
    BY <1>1 DEF PublishedPorts
  <2>2. \A p \in Protos : {<<port, p>> : port \in ToPublish(q, p)} = ToPublish(q, p) \X {p}
    OBVIOUS
  <2> QED BY <2>1, <2>2
<1>2. \A p \in Protos : getPublishedPorts(getPublishingRules(fwrules, vm), p) = ToPublish(q, p)
  BY PublishedIs DEF Publishes
<1>3. shown = published
  BY <1>1, <1>2
<1>4. again = published
  BY <1>1, <1>2, SameInteresting
<1>5. \A p \in Protos : ToPublish(q, p) \subseteq Bound(q, p) \union OfImage(q, p)
  BY DEF ToPublish
<1> DEFINE All(p) == Bound(q, p) \union OfImage(q, p)
<1>6. /\ \A x : x \in published <=> \E p \in Protos : \E port \in ToPublish(q, p) : x = <<port, p>>
      /\ \A x : x \in all <=> \E p \in Protos : \E port \in All(p) : x = <<port, p>>
  OBVIOUS
<1>7. \A p \in Protos : Quiet[p] = {<<port, p>> : port \in OfImage(q, p) \ ToPublish(q, p)}
  BY DEF Unpublished, Publishes
<1>8. Bound(q, "tcp") \subseteq ToPublish(q, "tcp") /\ \A p : Bound(q, p) \subseteq ToPublish(q, p)
  BY DEF ToPublish
<1> HIDE DEF published, all, Quiet
<1>9. ASSUME NEW p \in Protos
      PROVE  \A x : x \in Quiet[p] <=> x \in all /\ x[2] = p /\ x \notin published
  <2>1. ASSUME NEW x \in Quiet[p] PROVE x \in all /\ x[2] = p /\ x \notin published
    <3>1. PICK port \in OfImage(q, p) \ ToPublish(q, p) : x = <<port, p>>
      BY <1>7, <2>1
    <3>2. \A r, port2 : <<port, p>> = <<port2, r>> => port2 = port /\ r = p
      OBVIOUS
    <3> QED BY <1>6, <3>1, <3>2
  <2>2. ASSUME NEW x \in all, x[2] = p, x \notin published PROVE x \in Quiet[p]
    <3>1. PICK r \in Protos : \E port \in All(r) : x = <<port, r>>
      BY <1>6
    <3>2. PICK port \in All(r) : x = <<port, r>>
      BY <3>1
    <3>3. r = p /\ port \in All(p) /\ x = <<port, p>>
      BY <2>2, <3>2
    <3>4. port \notin ToPublish(q, p)
      BY <1>6, <2>2, <3>3
    <3>5. port \in OfImage(q, p)
      BY <1>8, <3>3, <3>4
    <3> QED BY <1>7, <3>3, <3>4, <3>5
  <2> QED BY <2>1, <2>2
<1>10. published \subseteq all
  <2> HIDE DEF All
  <2>1. \A p \in Protos : ToPublish(q, p) \subseteq All(p)
    BY <1>5 DEF All
  <2> QED BY <1>6, <2>1
<1>11. \A port \in all : port[2] \in Protos
  BY <1>6
<1>12. Exposed = published \union (IF Quiet["udp"] # {} THEN Quiet["udp"] ELSE Quiet["tcp"])
  BY DEF ExposedPorts, Quiet, Protos
<1>13. \A x : x \in quiet <=> \E p \in Protos : x \in Quiet[p]
  BY DEF Quiet, Quiet_
<1> HIDE DEF shown, again, quiet
<1>14. /\ s.inspect.PortBindings = published /\ s.ps.Public = published
       /\ s.inspect.Ports = published \union quiet
       /\ s.ps.Private = quiet \ published
       /\ s.inspect.ExposedPorts = Exposed
  BY <1>0, <1>3, <1>4
<1> HIDE DEF Exposed
<1>15. IsExposure(published, all, Quiet, quiet, Exposed)
  BY <1>9, <1>10, <1>11, <1>12, <1>13 DEF IsExposure
<1>16. /\ published \union quiet = all
       /\ quiet \ published = all \ published
       /\ Exposed \subseteq all
       /\ (\A p \in Protos : Quiet[p] # {}) \/ Exposed = all
  BY <1>15, PortSets
<1>17. ASSUME \A p \in Protos : Quiet[p] # {}
       PROVE  {port[2] : port \in all \ published} = Protos
  <2>1. \A p \in Protos : p \in {port[2] : port \in all \ published}
    BY <1>9, <1>17
  <2>2. \A p \in {port[2] : port \in all \ published} : p \in Protos
    BY <1>11
  <2> QED BY <2>1, <2>2
<1> QED BY <1>14, <1>16, <1>17 DEF PortsShown, published, all

(* The labels that are shown: the last of each key, and the package.       *)
Wanted(q) ==
    LET own == ToSet(q.container.labels)
    IN {l \in own \union {i \in ToSet(q.image.labels) : \A o \in own : o.key # i.key} :
           l.type # "package"}
LEMMA WantedLabels ==
    ASSUME NEW q, HasLabels(q), vmTagsFromLabels(q.container, q.image).error = "none"
    PROVE  /\ vmTagsFromLabels(q.container, q.image).tags = Wanted(q)
           /\ \A l \in Wanted(q) : l.type \in {"plain", "triton"} /\ l.key # PackageLabel
           /\ \A l, m \in Wanted(q) : l.key = m.key => l = m
<1> DEFINE own == ToSet(q.container.labels)
           ofImage == ToSet(q.image.labels)
           a == vmTagsFromLabels(q.container, q.image)
<1>1. TagsAsAsked(q, a)
  BY TagsMeant
<1>2. IsLabels(q.container.labels) /\ IsLabels(q.image.labels)
  BY DEF HasLabels
<1>3. \A labels : IsLabels(labels) =>
         /\ \A l \in ToSet(labels) :
               /\ l.type \in {"plain", "triton", "package", "not a string", "bad triton"}
               /\ ~IsBadLabel(l) => (l.type = "package" <=> l.key = PackageLabel)
         /\ \A l, m \in ToSet(labels) : l.key = m.key => l = m
  <2> SUFFICES ASSUME NEW labels, IsLabels(labels)
               PROVE  \A l, m \in ToSet(labels) : l.key = m.key => l = m
    BY DEF IsLabels
  <2> QED BY DEF IsLabels, ToSet
<1> HIDE DEF a
<1>4. a.error = "none"
  BY DEF a
<1>5. /\ \A l \in own \union ofImage : ~IsBadLabel(l)
      /\ a.tags = Wanted(q)
  BY <1>1, <1>4 DEF TagsAsAsked, Wanted
<1> HIDE DEF own, ofImage
<1>6. \A l \in own \union ofImage :
         /\ l.type \in {"plain", "triton", "package"}
         /\ l.type = "package" <=> l.key = PackageLabel
  <2>1. \A l : ~IsBadLabel(l) => l.type # "not a string" /\ l.type # "bad triton"
    BY DEF IsBadLabel
  <2> QED BY <1>2, <1>3, <1>5, <2>1 DEF own, ofImage
<1>7. \A l \in Wanted(q) : l \in own \union ofImage /\ l.type # "package"
  BY DEF Wanted, own, ofImage
<1>8. ASSUME NEW l \in Wanted(q), NEW m \in Wanted(q), l.key = m.key PROVE l = m
  <2>1. \/ l \in own /\ m \in own
        \/ l \in ofImage /\ m \in ofImage
    BY <1>8 DEF Wanted, own, ofImage
  <2> QED BY <1>2, <1>3, <1>8, <2>1 DEF own, ofImage
<1> QED BY <1>5, <1>6, <1>7, <1>8 DEF a

LEMMA LabelsAre ==
    ASSUME NEW tags, \A l \in tags : l.type \in {"plain", "triton"},
           \A l, m \in tags : l.key = m.key => l = m
    PROVE  /\ DOMAIN dockerLabelsFromVmTags(tags) = {l.key : l \in tags}
           /\ \A l \in tags : dockerLabelsFromVmTags(tags)[l.key] = l.value
<1> DEFINE triton == {t \in tags : t.type = "triton"}
           plain == {t \in tags : t.type = "plain"}
           labels == dockerLabelsFromVmTags(tags)
<1>1. ASSUME NEW S, S \subseteq tags
      PROVE  /\ DOMAIN LabelsOf(S) = {l.key : l \in S}
             /\ \A l \in S : LabelsOf(S)[l.key] = l.value
  <2>1. DOMAIN LabelsOf(S) = {l.key : l \in S}
    BY DEF LabelsOf
  <2>2. ASSUME NEW l \in S PROVE LabelsOf(S)[l.key] = l.value
    <3> DEFINE t == CHOOSE t \in S : t.key = l.key
    <3>1. t \in S /\ t.key = l.key
      OBVIOUS
    <3>2. LabelsOf(S)[l.key] = t.value
      BY DEF LabelsOf
    <3> HIDE DEF t
    <3>3. t = l
      BY <1>1, <3>1
    <3> QED BY <3>2, <3>3
  <2> QED BY <2>1, <2>2
<1> DEFINE L == LabelsOf(triton)
           M == LabelsOf(plain)
<1>2. /\ DOMAIN L = {l.key : l \in triton} /\ \A l \in triton : L[l.key] = l.value
      /\ DOMAIN M = {l.key : l \in plain} /\ \A l \in plain : M[l.key] = l.value
  BY <1>1
<1>3. labels = Over(L, M)
  BY DEF dockerLabelsFromVmTags
<1> HIDE DEF L, M, labels
<1>4. /\ DOMAIN labels = DOMAIN L \union DOMAIN M
      /\ \A k \in DOMAIN L : labels[k] = L[k]
      /\ \A k \in DOMAIN M : k \notin DOMAIN L => labels[k] = M[k]
  BY <1>3 DEF Over
<1>5. \A l \in tags : l \in triton \/ l \in plain
  OBVIOUS
<1>6. DOMAIN labels = {l.key : l \in tags}
  BY <1>2, <1>4, <1>5
<1>7. ASSUME NEW l \in tags PROVE labels[l.key] = l.value
  <2>1. CASE l \in triton
    BY <1>2, <1>4, <2>1
  <2>2. CASE l \in plain /\ l \notin triton
    <3>1. l.key \notin DOMAIN L
      <4> SUFFICES ASSUME l.key \in DOMAIN L PROVE FALSE
        OBVIOUS
      <4>1. PICK m \in triton : m.key = l.key
        BY <1>2
      <4> QED BY <2>2, <4>1
    <3>2. l.key \in DOMAIN M
      BY <1>2, <2>2
    <3> QED BY <1>2, <1>4, <2>2, <3>1, <3>2
  <2> QED BY <1>5, <2>1, <2>2
<1> QED BY <1>6, <1>7 DEF labels

LEMMA LabelsAreShown ==
    ASSUME NEW q, HasLabels(q), NEW tags, NEW s, NEW names,
           vmTagsFromLabels(q.container, q.image).error = "none",
           tags = vmTagsFromLabels(q.container, q.image).tags,
           names = PackageNames(q.now.vm, q.now.packages),
           s.ps.Labels = Over(PackageLabels(ShownName(names)), dockerLabelsFromVmTags(tags)),
           s.inspect.Labels =
              IF ~q.now.modern THEN Absent
              ELSE IF Cardinality(names) = 1
                   THEN Over(PackageLabels(PackageName(names)), dockerLabelsFromVmTags(tags))
                   ELSE dockerLabelsFromVmTags(tags)
    PROVE  LabelsShown(q, s)
<1> DEFINE labels == dockerLabelsFromVmTags(tags)
           name == PackageName(names)
           shown == ShownName(names)
           keys == {l.key : l \in Wanted(q)}
           ps == s.ps.Labels
           inspect == s.inspect.Labels
<1>1. /\ tags = Wanted(q)
      /\ \A l \in Wanted(q) : l.type \in {"plain", "triton"} /\ l.key # PackageLabel
      /\ \A l, m \in Wanted(q) : l.key = m.key => l = m
  BY WantedLabels
<1>2. DOMAIN labels = keys /\ \A l \in Wanted(q) : labels[l.key] = l.value
  BY <1>1, LabelsAre
<1>3. PackageLabel \notin keys
  BY <1>1
<1>4. ASSUME NEW n
      PROVE  LET all == Over(PackageLabels(n), labels)
             IN /\ DOMAIN all = {PackageLabel} \union keys /\ all[PackageLabel] = n
                /\ \A k \in keys : all[k] = labels[k]
  <2> HIDE DEF labels, keys
  <2> QED BY <1>2, <1>3 DEF Over, PackageLabels
<1>5. ps = Over(PackageLabels(shown), labels)
  OBVIOUS
<1>6. inspect = IF ~q.now.modern THEN Absent
                ELSE IF Cardinality(names) = 1 THEN Over(PackageLabels(name), labels) ELSE labels
  OBVIOUS
<1>7. names # {} => shown = name /\ name \in names
  BY DEF ShownName, PackageName
<1>8. Cardinality(names) = 1 => names # {}
  <2>1. Cardinality({}) = 0
    BY FS_EmptySet
  <2> SUFFICES ASSUME names = {} PROVE Cardinality(names) # 1
    OBVIOUS
  <2> HIDE DEF labels, shown, name, keys
  <2> QED BY <2>1
<1> HIDE DEF labels, name, shown, ps, inspect, keys
<1>9. /\ DOMAIN ps = {PackageLabel} \union keys /\ ps[PackageLabel] = shown
      /\ \A k \in keys : ps[k] = labels[k]
  BY <1>4, <1>5
<1>10. \A l \in Wanted(q) : ps[l.key] = l.value
  BY <1>2, <1>9 DEF keys
<1>11. ASSUME q.now.modern
       PROVE  /\ keys \subseteq DOMAIN inspect
              /\ \A k \in DOMAIN inspect : inspect[k] = ps[k]
  <2>1. CASE Cardinality(names) = 1
    <3>1. inspect = Over(PackageLabels(shown), labels)
      BY <1>6, <1>7, <1>8, <1>11, <2>1
    <3> QED BY <1>5, <1>9, <3>1
  <2>2. CASE Cardinality(names) # 1
    <3>1. inspect = labels
      BY <1>6, <1>11, <2>2
    <3> QED BY <1>2, <1>9, <3>1
  <2> QED BY <2>1, <2>2
<1>12. names # {} => ps[PackageLabel] \in names
  BY <1>7, <1>9
<1> QED BY <1>9, <1>10, <1>11, <1>12 DEF LabelsShown, Wanted, PackageNames, ps, inspect, keys

(* The volumes that are shown: those of other containers come first.       *)
LEMMA VolumesAreShown ==
    ASSUME NEW q, HasMounts(q), NEW s,
           mountsOf(q.container, q.image, q.config).error = "none",
           s.inspect.Volumes =
              VolumesOf(FilesystemsOf(q.container,
                                      mountsOf(q.container, q.image, q.config).filesystems))
    PROVE  VolumesShown(q, s)
<1> SUFFICES ASSUME ArePlain(q)
             PROVE  LET c == q.container
                        others == Dirs(c.volumesFrom)
                        own == (Dirs(c.volumes) \union Dirs(q.image.volumes))
                               \ (others \union Dirs(c.binds))
                    IN /\ s.inspect.Volumes.all = others \union own /\ s.inspect.Volumes.own = own
                       /\ s.inspect.Volumes.writable =
                              IF c.readonly THEN own ELSE others \union own
  BY DEF VolumesShown, ArePlain
<1> DEFINE c == q.container
           vf == c.volumesFrom
           b == c.binds
           wanted == Dirs(c.volumes) \union Dirs(q.image.volumes)
           a == mountsOf(c, q.image, q.config)
           own == wanted \ (Dirs(vf) \union Dirs(b))
           D == MountSpace(q)
           P == PathsIn(D)
<1>1. PICK e \in Seq(PlainIn(D)) : /\ a = Mounted(vf, e, b)
                                   /\ Serves(e, vf \o b, wanted, TRUE)
  <2>1. ~IsRefused(q)
    BY MountsAre
  <2>2. \E e \in Seq(PlainIn(D)) :
           /\ a = Mounted(vf, e, b)
           /\ Serves(e, vf \o b, wanted, IF ArePlain(q) THEN TRUE ELSE FALSE)
    BY <2>1, MountsAre
  <2>3. (IF ArePlain(q) THEN TRUE ELSE FALSE) = TRUE
    OBVIOUS
  <2> HIDE DEF c, vf, b, wanted, a, D
  <2> QED BY <2>2, <2>3
<1>2. vf \in Seq(P) /\ b \in Seq(P)
  BY MountsAre
<1>3. Dirs(vf \o b) = Dirs(vf) \union Dirs(b)
  <2> HIDE DEF c, vf, b, P
  <2> QED BY <1>2, TimesOfBoth
<1>4. Dirs(e) = own
  <2> HIDE DEF c, vf, b, wanted
  <2> QED BY <1>1, <1>3 DEF Serves
<1> DEFINE fs == vf \o e
           n == Len(vf)
           m == Len(e)
<1>5. /\ n \in Nat /\ m \in Nat /\ DOMAIN fs = 1 .. (n + m)
      /\ \A i \in 1 .. n : fs[i] = vf[i]
      /\ \A i \in 1 .. m : fs[n + i] = e[i]
      /\ DOMAIN vf = 1 .. n /\ DOMAIN e = 1 .. m
  <2>1. PlainIn(D) \subseteq P
    BY DEF PlainIn, PathsIn
  <2>2. e \in Seq(P)
    <3> HIDE DEF D, P
    <3> QED BY <2>1, SeqMonotonic
  <2> HIDE DEF c, vf, P
  <2> QED BY <1>2, <2>2, JoinedLists
<1>6. a.filesystems = fs
  <2> HIDE DEF a
  <2> QED BY <1>1 DEF Mounted, Mounts
<1> DEFINE volumes == FilesystemsOf(c, fs)
           ro == IF c.readonly THEN TRUE ELSE FALSE
<1>7. /\ DOMAIN volumes = 1 .. (n + m)
      /\ \A i \in 1 .. (n + m) :
            /\ volumes[i].dir = fs[i].dir
            /\ volumes[i].own <=> ~(i <= n)
            /\ volumes[i].readonly <=> i <= n /\ ro
  BY <1>5 DEF FilesystemsOf
<1>8. s.inspect.Volumes = VolumesOf(volumes)
  BY <1>6
<1>9. Dirs(vf) = {vf[i].dir : i \in 1 .. n} /\ Dirs(e) = {e[i].dir : i \in 1 .. m}
  BY <1>5 DEF Dirs
<1> HIDE DEF c, vf, b, wanted, a, own, D, P, fs, n, m, volumes, ro
<1>10. \A k \in 1 .. (n + m) : k \in 1 .. n \/ \E i \in 1 .. m : k = n + i /\ ~(k <= n)
  <2> SUFFICES ASSUME NEW k \in 1 .. (n + m), k \notin 1 .. n
               PROVE  \E i \in 1 .. m : k = n + i /\ ~(k <= n)
    OBVIOUS
  <2>1. k - n \in 1 .. m /\ k = n + (k - n) /\ ~(k <= n)
    BY <1>5
  <2> QED BY <2>1
<1>11. /\ \A i \in 1 .. n : i \in 1 .. (n + m) /\ i <= n
       /\ \A i \in 1 .. m : n + i \in 1 .. (n + m) /\ ~(n + i <= n)
  BY <1>5
<1>12. \A f \in ToSet(volumes) :
          \/ f.dir \in Dirs(vf) /\ ~f.own /\ (f.readonly <=> ro)
          \/ f.dir \in Dirs(e) /\ f.own /\ ~f.readonly
  <2> SUFFICES ASSUME NEW k \in 1 .. (n + m)
               PROVE  LET f == volumes[k]
                      IN \/ f.dir \in Dirs(vf) /\ ~f.own /\ (f.readonly <=> ro)
                         \/ f.dir \in Dirs(e) /\ f.own /\ ~f.readonly
    BY <1>7 DEF ToSet
  <2>1. CASE k \in 1 .. n
    BY <1>5, <1>7, <1>9, <1>11, <2>1
  <2>2. CASE \E i \in 1 .. m : k = n + i /\ ~(k <= n)
    <3>1. PICK i \in 1 .. m : k = n + i /\ ~(k <= n)
      BY <2>2
    <3>2. volumes[k].dir = e[i].dir /\ volumes[k].own /\ ~volumes[k].readonly
      BY <1>5, <1>7, <3>1
    <3>3. e[i].dir \in Dirs(e)
      BY <1>9
    <3> QED BY <3>2, <3>3
  <2> QED BY <1>10, <2>1, <2>2
<1>13. /\ \A d \in Dirs(vf) : \E f \in ToSet(volumes) : f.dir = d /\ ~f.own /\ (f.readonly <=> ro)
       /\ \A d \in Dirs(e) : \E f \in ToSet(volumes) : f.dir = d /\ f.own /\ ~f.readonly
  <2>1. ASSUME NEW k \in 1 .. (n + m) PROVE volumes[k] \in ToSet(volumes)
    BY <1>7 DEF ToSet
  <2>2. ASSUME NEW d \in Dirs(vf)
        PROVE  \E f \in ToSet(volumes) : f.dir = d /\ ~f.own /\ (f.readonly <=> ro)
    <3>1. PICK i \in 1 .. n : d = vf[i].dir
      BY <1>9
    <3>2. /\ volumes[i].dir = d /\ ~volumes[i].own /\ (volumes[i].readonly <=> ro)
          /\ i \in 1 .. (n + m)
      BY <1>5, <1>7, <1>11, <3>1
    <3> QED BY <2>1, <3>2
  <2>3. ASSUME NEW d \in Dirs(e)
        PROVE  \E f \in ToSet(volumes) : f.dir = d /\ f.own /\ ~f.readonly
    <3>1. PICK i \in 1 .. m : d = e[i].dir
      BY <1>9
    <3>2. /\ volumes[n + i].dir = d /\ volumes[n + i].own /\ ~volumes[n + i].readonly
          /\ n + i \in 1 .. (n + m)
      BY <1>5, <1>7, <1>11, <3>1
    <3> QED BY <2>1, <3>2
  <2> QED BY <2>2, <2>3
<1> DEFINE V == VolumesOf(volumes)
           all == ToSet(volumes)
<1>14. /\ V.own = {f.dir : f \in {f \in all : f.own}}
       /\ V.all = {f.dir : f \in all}
       /\ V.writable = {f.dir : f \in {f \in all : ~f.readonly}}
  BY DEF VolumesOf, Targets
<1> HIDE DEF V, all
<1>15. /\ \A d : d \in V.own <=> d \in Dirs(e)
       /\ \A d : d \in V.all <=> d \in Dirs(vf) \union Dirs(e)
       /\ \A d : d \in V.writable <=> d \in Dirs(e) \/ (~ro /\ d \in Dirs(vf))
  <2>1. \A d : d \in V.own <=> d \in Dirs(e)
    BY <1>12, <1>13, <1>14 DEF all
  <2>2. \A d : d \in V.all <=> d \in Dirs(vf) \union Dirs(e)
    BY <1>12, <1>13, <1>14 DEF all
  <2>3. \A d : d \in V.writable <=> d \in Dirs(e) \/ (~ro /\ d \in Dirs(vf))
    BY <1>12, <1>13, <1>14 DEF all
  <2> QED BY <2>1, <2>2, <2>3
<1>16. /\ V.own = own /\ V.all = Dirs(vf) \union own
       /\ V.writable = IF c.readonly THEN own ELSE Dirs(vf) \union own
  <2>1. V.own = own /\ V.all = Dirs(vf) \union own
    BY <1>4, <1>15
  <2>2. CASE c.readonly
    BY <1>4, <1>15, <2>1, <2>2 DEF ro
  <2>3. CASE ~c.readonly
    BY <1>4, <1>15, <2>1, <2>3 DEF ro
  <2> QED BY <2>2, <2>3
<1> QED BY <1>8, <1>16 DEF V, own, wanted, vf, b, c

(* What docker ps and docker inspect show of a VM.                          *)
LEMMA InspectIs ==
    ASSUME NEW vm, NEW fwrules, NEW packages, NEW modern
    PROVE  LET i == vmobjToInspect(vm, fwrules, packages, modern)
               line == vm.entrypoint \o vm.cmd
               published == PublishedPorts(fwrules, vm)
               names == PackageNames(vm, packages)
               labels == dockerLabelsFromVmTags(vm.tags)
           IN /\ i.Entrypoint = vm.entrypoint /\ i.Cmd = vm.cmd /\ i.Env = vm.env
              /\ i.Path = Head_(line, 1) /\ i.Args = Tail_(line, 1)
              /\ i.ExposedPorts = ExposedPorts(vm, published) /\ i.PortBindings = published
              /\ i.Ports = published \union Quiet_(vm)
              /\ i.Volumes = VolumesOf(vm.filesystems)
              /\ i.RestartPolicy = RestartPolicyOf(vm.restartpolicy)
              /\ i.Labels = IF ~modern THEN Absent
                            ELSE IF Cardinality(names) = 1
                                 THEN Over(PackageLabels(PackageName(names)), labels)
                                 ELSE labels
              /\ i.Running <=> vm.state = "running"
<1> DEFINE i == vmobjToInspect(vm, fwrules, packages, modern)
           line == vm.entrypoint \o vm.cmd
           published == PublishedPorts(fwrules, vm)
           names == PackageNames(vm, packages)
           labels == dockerLabelsFromVmTags(vm.tags)
           path == Head_(line, 1)
           args == Tail_(line, 1)
           exposed == ExposedPorts(vm, published)
           ports == published \union Quiet_(vm)
           volumes == VolumesOf(vm.filesystems)
           policy == RestartPolicyOf(vm.restartpolicy)
           log == IF modern THEN vm.log ELSE Absent
           shown == IF ~modern THEN Absent
                    ELSE IF Cardinality(names) = 1
                         THEN Over(PackageLabels(PackageName(names)), labels)
                         ELSE labels
           running == vm.state = "running"
<1>1. i = [Entrypoint |-> vm.entrypoint, Cmd |-> vm.cmd, Env |-> vm.env, User |-> vm.user,
           Path |-> path, Args |-> args, ExposedPorts |-> exposed, PortBindings |-> published,
           Ports |-> ports, PublishAllPorts |-> vm.publishAll, Volumes |-> volumes,
           RestartPolicy |-> policy, LogConfig |-> log, Labels |-> shown, Running |-> running]
  BY Zenon DEF vmobjToInspect, PackageNames, PackageName, Quiet_
<1> HIDE DEF i, line, published, names, labels, path, args, exposed, ports, volumes, policy,
             log, shown
<1>2. /\ i.Entrypoint = vm.entrypoint /\ i.Cmd = vm.cmd /\ i.Env = vm.env
      /\ i.Path = path /\ i.Args = args /\ i.ExposedPorts = exposed
      /\ i.PortBindings = published /\ i.Ports = ports /\ i.Volumes = volumes
      /\ i.RestartPolicy = policy /\ i.Labels = shown /\ (i.Running <=> running)
  BY <1>1
<1> QED BY <1>2 DEF i, line, published, names, labels, path, args, exposed, ports, volumes,
                    policy, shown

ShowsPs(ps, vm, fwrules, packages) ==
    LET again == PublishedPorts(InterestingRules(fwrules), vm)
    IN /\ ps.Command = vm.entrypoint \o vm.cmd /\ ps.Status = containerStatus(vm)
       /\ ps.Public = again /\ ps.Private = Quiet_(vm) \ again
       /\ ps.Labels = Over(PackageLabels(ShownName(PackageNames(vm, packages))),
                           dockerLabelsFromVmTags(vm.tags))
LEMMA PsIs ==
    ASSUME NEW vm, NEW fwrules, NEW links, NEW packages
    PROVE  ShowsPs(containerForVmObj(vm, fwrules, links, packages), vm, fwrules, packages)
<1> DEFINE ps == containerForVmObj(vm, fwrules, links, packages)
           again == PublishedPorts(InterestingRules(fwrules), vm)
           names == PackageNames(vm, packages)
           line == vm.entrypoint \o vm.cmd
           status == containerStatus(vm)
           quiet == Quiet_(vm) \ again
           labels == dockerLabelsFromVmTags(vm.tags)
           Names == {vm.alias} \union {l.name : l \in {l \in links : l.target = vm.uuid}}
           name == ShownName(names)
           shown == vmobjToContainer(vm, InterestingRules(fwrules), links)
           all == Over(PackageLabels(name), labels)
<1>1. shown = [Command |-> line, Status |-> status, Public |-> again, Private |-> quiet,
               Labels |-> labels, Names |-> Names]
  BY Zenon DEF vmobjToContainer, Quiet_
<1>2. ps = [shown EXCEPT !.Labels = Over(PackageLabels(name), @)]
  BY Zenon DEF containerForVmObj, PackageNames, PackageName, ShownName
<1> HIDE DEF ps, again, names, line, status, quiet, labels, Names, name, shown
<1>3. ps.Command = line /\ ps.Status = status /\ ps.Public = again /\ ps.Private = quiet
      /\ ps.Labels = all
  BY <1>1, <1>2
<1> QED BY <1>3 DEF ShowsPs, ps, again, names, line, status, quiet, labels, name

(* A container that was made is shown as it was asked for.                 *)
LEMMA ShownMeant ==
    ASSUME NEW q, IsShown(q)
    PROVE  LET payload == buildVmPayload(q.container, q.image, q.config)
           IN ShownAsAsked(q, [error |-> payload.error,
                               shown |-> IF payload.error = "none"
                                         THEN ShowsOf(payload, q.now) ELSE Absent])
<1> DEFINE c == q.container
           payload == buildVmPayload(c, q.image, q.config)
           mounts == mountsOf(c, q.image, q.config)
           tags == vmTagsFromLabels(c, q.image)
           version == q.config.fwrule_version
           ports == addPublishFirewallRules(c, q.image, version)
           s == ShowsOf(payload, q.now)
           a == [error |-> payload.error, shown |-> IF payload.error = "none" THEN s ELSE Absent]
<1>1. /\ HasPorts(q) /\ HasMounts(q) /\ HasCommand(q) /\ HasLabels(q)
      /\ c.restart = Policy(c.restart.Name, c.restart.MaximumRetryCount)
      /\ IsVM(q.now.vm) /\ getPublishingRules(q.now.others, q.now.vm) = {}
  BY DEF IsShown
<1>2. payload.error # "none" => a.error # "none" /\ a.shown = Absent
  OBVIOUS
<1>3. payload.error = "none" => a.error = "none" /\ a.shown = s
  OBVIOUS
<1> SUFFICES ASSUME payload.error = "none"
             PROVE  /\ PortsShown(q, s) /\ CommandShown(q, s) /\ RestartShown(q, s)
                    /\ LabelsShown(q, s) /\ VolumesShown(q, s)
                    /\ s.inspect.Running <=> s.ps.Status = "Up"
  <2> HIDE DEF a, s
  <2> QED BY <1>2, <1>3 DEF ShownAsAsked, a, s
<1> HIDE DEF a
<1>4. mounts.error = "none" /\ tags.error = "none" /\ ports.error = "none"
  <2> DEFINE errors == <<logConfigOf(c).error, mounts.error, affinitiesFromContainer(c).error,
                         tags.error, ports.error>>
             T == {logConfigOf(c).error, mounts.error, affinitiesFromContainer(c).error,
                   tags.error, ports.error}
  <2>1. FirstError(errors) = "none"
    BY DEF buildVmPayload
  <2>2. errors \in Seq(T) /\ DOMAIN errors = 1 .. 5
    OBVIOUS
  <2>3. errors[2] = mounts.error /\ errors[4] = tags.error /\ errors[5] = ports.error
    OBVIOUS
  <2> HIDE DEF errors, T
  <2>4. \A i \in 1 .. 5 : errors[i] = "none"
    BY <2>1, <2>2, NoError
  <2> QED BY <2>3, <2>4
<1>5. payload.rules = ports.rules
  BY DEF buildVmPayload
<1> DEFINE n == q.now.vm
           vm == Over(payload.vm, n)
           command == commandOf(c, q.image)
<1>6. /\ vm.entrypoint = command.entrypoint /\ vm.cmd = command.cmd /\ vm.env = command.env
      /\ vm.unpublished = ports.unpublished /\ vm.tags = tags.tags
      /\ vm.restartpolicy = restartpolicyOf(c.restart)
      /\ vm.filesystems = FilesystemsOf(c, mounts.filesystems)
      /\ vm.uuid = n.uuid /\ vm.package = n.package /\ vm.state = n.state
  BY <1>1, VmIs
<1> DEFINE fwrules == FwRules(ports.rules, vm.uuid) \union q.now.others
           names == PackageNames(vm, q.now.packages)
           labels == dockerLabelsFromVmTags(vm.tags)
           name == PackageName(names)
           published == PublishedPorts(fwrules, vm)
           again == PublishedPorts(InterestingRules(fwrules), vm)
           line == vm.entrypoint \o vm.cmd
           i == s.inspect
           ps == s.ps
<1> HIDE DEF payload, mounts, tags, ports, vm, command
<1>7. /\ ps = containerForVmObj(vm, fwrules, q.now.links, q.now.packages)
      /\ i = vmobjToInspect(vm, fwrules, q.now.packages, q.now.modern)
  <2> HIDE DEF fwrules
  <2>1. FwRules(payload.rules, vm.uuid) \union q.now.others = fwrules
    BY <1>5 DEF fwrules
  <2>2. s = [ps |-> containerForVmObj(vm, fwrules, q.now.links, q.now.packages),
             inspect |-> vmobjToInspect(vm, fwrules, q.now.packages, q.now.modern)]
    BY <2>1, Zenon DEF ShowsOf, vm
  <2> HIDE DEF s
  <2> QED BY <2>2
<1> HIDE DEF s, fwrules
<1>8. /\ i.Entrypoint = vm.entrypoint /\ i.Cmd = vm.cmd /\ i.Env = vm.env
      /\ i.Path = Head_(line, 1) /\ i.Args = Tail_(line, 1)
      /\ i.ExposedPorts = ExposedPorts(vm, published) /\ i.PortBindings = published
      /\ i.Ports = published \union Quiet_(vm)
      /\ i.Volumes = VolumesOf(vm.filesystems)
      /\ i.RestartPolicy = RestartPolicyOf(vm.restartpolicy)
      /\ i.Labels = IF ~q.now.modern THEN Absent
                    ELSE IF Cardinality(names) = 1 THEN Over(PackageLabels(name), labels) ELSE labels
      /\ i.Running <=> vm.state = "running"
  <2> HIDE DEF i
  <2> QED BY <1>7, InspectIs
<1>9. /\ ps.Command = line /\ ps.Status = containerStatus(vm)
      /\ ps.Public = again /\ ps.Private = Quiet_(vm) \ again
      /\ ps.Labels = Over(PackageLabels(ShownName(names)), labels)
  <2> HIDE DEF ps, i
  <2>1. ShowsPs(ps, vm, fwrules, q.now.packages)
    BY <1>7, PsIs
  <2> QED BY <2>1 DEF ShowsPs
<1> HIDE DEF line, labels, published, again
<1>10. CommandShown(q, s)
  <2> HIDE DEF c
  <2> QED BY <1>1, <1>6, <1>8, <1>9, CommandIsShown DEF command, c, line
<1>11. RestartShown(q, s)
  BY <1>1, <1>6, <1>8, RestartIsShown
<1>12. VolumesShown(q, s)
  BY <1>1, <1>4, <1>6, <1>8, VolumesAreShown DEF mounts
<1>13. LabelsShown(q, s)
  <2>1. names = PackageNames(n, q.now.packages)
    BY <1>6 DEF PackageNames
  <2>2. labels = dockerLabelsFromVmTags(tags.tags)
    BY <1>6 DEF labels
  <2> HIDE DEF names, c, n, name, i, ps
  <2> QED BY <1>1, <1>4, <1>8, <1>9, <2>1, <2>2, LabelsAreShown DEF tags, c, n, name, i, ps
<1>14. PortsShown(q, s)
  <2> DEFINE r == [container |-> c, image |-> q.image, version |-> version]
  <2>1. r.container = c /\ r.image = q.image /\ r.version = version
    OBVIOUS
  <2> HIDE DEF r
  <2>2. HasPorts(r)
    BY <1>1, <2>1 DEF HasPorts
  <2>3. PortsAsAsked(r, ports)
    BY <2>1, <2>2, PortsMeant DEF ports
  <2>4. \A p : Bound(r, p) = Bound(q, p) /\ OfImage(r, p) = OfImage(q, p)
    BY <2>1 DEF Bound, OfImage
  <2>5. \A p : ToPublish(r, p) = ToPublish(q, p)
    BY <2>1, <2>4 DEF ToPublish
  <2>6. \A p \in Protos : /\ getPublishedPorts(ports.rules, p) = ToPublish(q, p)
                          /\ ports.unpublished[p] = OfImage(q, p) \ ToPublish(q, p)
    BY <1>4, <2>3, <2>4, <2>5 DEF PortsAsAsked
  <2>7. getPublishingRules(q.now.others, vm) = {}
    BY <1>1, <1>6 DEF getPublishingRules
  <2>8. ShowsPorts(s, vm, fwrules)
    BY <1>8, <1>9 DEF ShowsPorts, published, again
  <2> DEFINE rules == ports.rules
             unpublished == ports.unpublished
             others == q.now.others
  <2>9. /\ vm.unpublished = unpublished /\ Publishes(q, rules, unpublished)
        /\ getPublishingRules(others, vm) = {}
        /\ ShowsPorts(s, vm, FwRules(rules, vm.uuid) \union others)
    BY <1>6, <2>6, <2>7, <2>8 DEF fwrules, Publishes
  <2> HIDE DEF rules, unpublished, others
  <2> QED BY <2>9, PortsAreShown
<1>15. s.inspect.Running <=> s.ps.Status = "Up"
  <2>1. containerStatus(vm) = "Up" <=> vm.state = "running"
    BY DEF containerStatus
  <2> QED BY <1>8, <1>9, <2>1
<1> QED BY <1>10, <1>11, <1>12, <1>13, <1>14, <1>15

-----------------------------------------------------------------------------
(* Lists of containers, the newest first.                                  *)
HaveTimes(V) == IsFiniteSet(V) /\ \A x, y \in V : /\ x.created \in Nat
                                                  /\ x.created = y.created => x = y
Descends(l) == \A i, j \in DOMAIN l : i < j => l[i].created > l[j].created
Ordered(l, S) == l \in Seq(S) /\ ToSet(l) = S /\ Descends(l)

LEMMA OrderedOnce ==
    ASSUME NEW V, HaveTimes(V), NEW l \in Seq(V), Descends(l)
    PROVE  IsOneToOne(l)
<1> SUFFICES ASSUME NEW i \in DOMAIN l, NEW j \in DOMAIN l, l[i] = l[j] PROVE i = j
  BY DEF IsOneToOne
<1>1. i \in Nat /\ j \in Nat /\ l[i] \in V /\ l[j] \in V
  OBVIOUS
<1>2. l[i].created \in Nat /\ l[j].created \in Nat
  BY <1>1 DEF HaveTimes
<1>3. ~(i < j)
  <2> SUFFICES ASSUME i < j PROVE FALSE
    OBVIOUS
  <2>1. l[i].created > l[j].created
    BY DEF Descends
  <2> QED BY <1>2, <2>1
<1>4. ~(j < i)
  <2> SUFFICES ASSUME j < i PROVE FALSE
    OBVIOUS
  <2>1. l[j].created > l[i].created
    BY DEF Descends
  <2> QED BY <1>2, <2>1
<1> QED BY <1>1, <1>3, <1>4

LEMMA OneOlder ==
    ASSUME NEW V, NEW k \in Seq(V), NEW x \in V, Descends(k),
           \A v \in ToSet(k) : v.created > x.created
    PROVE  Descends(Append(k, x))
<1> DEFINE t == Append(k, x)
<1>1. /\ t \in Seq(V) /\ Len(t) = Len(k) + 1 /\ t[Len(k) + 1] = x
      /\ \A i \in 1 .. Len(k) : t[i] = k[i]
      /\ Len(k) \in Nat
  OBVIOUS
<1>2. DOMAIN t = 1 .. Len(k) + 1 /\ DOMAIN k = 1 .. Len(k)
  BY <1>1
<1> HIDE DEF t
<1> SUFFICES ASSUME NEW i \in DOMAIN t, NEW j \in DOMAIN t, i < j
             PROVE  t[i].created > t[j].created
  BY DEF Descends, t
<1>3. i \in DOMAIN k /\ t[i] = k[i] /\ k[i] \in ToSet(k)
  BY <1>1, <1>2 DEF ToSet
<1>4. CASE j = Len(k) + 1
  BY <1>1, <1>3, <1>4
<1>5. CASE j # Len(k) + 1
  <2>1. j \in DOMAIN k /\ t[j] = k[j]
    BY <1>1, <1>2, <1>5
  <2> QED BY <1>3, <2>1 DEF Descends
<1> QED BY <1>4, <1>5

(* What is kept of such a list is one of the VMs that are in the set.      *)
LEMMA KeptOrdered ==
    ASSUME NEW S, NEW l, Ordered(l, S), NEW set
    PROVE  Ordered(Kept(l, set), S \cap set)
<1> DEFINE n == Len(l)
           Keep(kept, e) == IF e \in set THEN Append(kept, e) ELSE kept
           X == Seq(S \cap set)
           Runs(f) == f = [i \in 0 .. n |-> IF i = 0 THEN <<>> ELSE Keep(f[i - 1], l[i])]
           f0 == CHOOSE f : Runs(f)
           next == [i \in 1 .. n |-> [s \in X |-> Keep(s, l[i])]]
           First(i) == {l[j] : j \in 1 .. i} \cap set
           inv == [i \in 0 .. n |-> {k \in X : ToSet(k) = First(i) /\ Descends(k)}]
<1>1. /\ n \in Nat /\ DOMAIN l = 1 .. n /\ \A i \in 1 .. n : l[i] \in S
      /\ Descends(l) /\ S = {l[j] : j \in 1 .. n}
  BY DEF Ordered, ToSet
<1>2. Kept(l, set) = f0[n]
  BY DEF Kept, Through
<1>3. \A s \in X, i \in 1 .. n : Keep(s, l[i]) \in X
  <2> SUFFICES ASSUME NEW s \in X, NEW i \in 1 .. n PROVE Keep(s, l[i]) \in X
    OBVIOUS
  <2> QED BY <1>1
<1>4. <<>> \in X /\ ToSet(<<>>) = {} /\ Descends(<<>>)
  BY DEF ToSet, Descends
<1> HIDE DEF n, X, Keep
<1>5. next \in Steps(n, X)
  BY <1>3 DEF Steps
<1>6. \A s \in X, i \in 1 .. n : next[i][s] = Keep(s, l[i])
  OBVIOUS
<1> HIDE DEF next
<1>7. PICK f \in [0 .. n -> X] : f[0] = <<>> /\ \A i \in 1 .. n : f[i] = next[i][f[i - 1]]
  <2>1. Loops(n, X, <<>>, next) # {}
    BY <1>1, <1>4, <1>5, LoopRuns
  <2> QED BY <2>1 DEF Loops
<1>8. \A i \in 0 .. n : f[i] = IF i = 0 THEN <<>> ELSE Keep(f[i - 1], l[i])
  <2>1. ASSUME NEW i \in 1 .. n PROVE f[i] = Keep(f[i - 1], l[i])
    <3>1. i - 1 \in 0 .. n
      BY <1>1
    <3>2. f[i - 1] \in X
      BY <1>7, <3>1
    <3> QED BY <1>6, <1>7, <3>2
  <2> QED BY <1>1, <1>7, <2>1
<1>9. Runs(f0)
  <2>1. Runs(f)
    BY <1>7, <1>8
  <2> HIDE DEF Runs
  <2> QED BY <2>1
<1>10. f0[0] = <<>> /\ \A i \in 1 .. n : f0[i] = Keep(f0[i - 1], l[i])
  <2> HIDE DEF f0
  <2> QED BY <1>1, <1>9
<1> HIDE DEF f0
<1>11. f0[0] \in inv[0]
  BY <1>1, <1>4, <1>10
<1>12. ASSUME NEW i \in 1 .. n, f0[i - 1] \in inv[i - 1] PROVE f0[i] \in inv[i]
  <2> DEFINE k == f0[i - 1]
             e == l[i]
  <2>1. i - 1 \in 0 .. n /\ i \in 0 .. n
    BY <1>1
  <2>2. k \in X /\ ToSet(k) = First(i - 1) /\ Descends(k)
    BY <1>12, <2>1
  <2>3. Keep(k, e) \in X /\ f0[i] = Keep(k, e) /\ e \in S
    BY <1>1, <1>3, <1>10, <2>2
  <2>4. {l[j] : j \in 1 .. i} = {l[j] : j \in 1 .. i - 1} \union {e}
    <3>1. \A j \in 1 .. i : j = i \/ j \in 1 .. i - 1
      BY <1>1
    <3>2. i \in 1 .. i /\ \A j \in 1 .. i - 1 : j \in 1 .. i
      BY <1>1
    <3> QED BY <3>1, <3>2
  <2>5. \A v \in ToSet(k) : v.created > e.created
    <3> SUFFICES ASSUME NEW j \in 1 .. i - 1 PROVE l[j].created > e.created
      BY <2>2
    <3>1. j \in DOMAIN l /\ i \in DOMAIN l /\ j < i
      BY <1>1
    <3> QED BY <1>1, <3>1 DEF Descends
  <2>6. CASE e \in set
    <3>1. Keep(k, e) = Append(k, e) /\ e \in S \cap set /\ k \in Seq(S \cap set)
      BY <2>2, <2>3, <2>6 DEF Keep, X
    <3>2. ToSet(Append(k, e)) = ToSet(k) \union {e}
      BY <3>1, OneMore
    <3>3. Descends(Append(k, e))
      <4> HIDE DEF k, e
      <4> QED BY <2>2, <2>5, <3>1, OneOlder
    <3>4. First(i) = First(i - 1) \union {e}
      BY <2>4, <2>6
    <3> QED BY <2>1, <2>2, <2>3, <3>1, <3>2, <3>3, <3>4
  <2>7. CASE e \notin set
    <3>1. Keep(k, e) = k
      BY <2>7 DEF Keep
    <3>2. First(i) = First(i - 1)
      BY <2>4, <2>7
    <3> QED BY <2>1, <2>2, <2>3, <3>1, <3>2
  <2> QED BY <2>6, <2>7
<1>13. f0[n] \in inv[n]
  <2> HIDE DEF inv
  <2> QED BY <1>1, <1>11, <1>12, LoopKeeps
<1>14. f0[n] \in X /\ ToSet(f0[n]) = First(n) /\ Descends(f0[n])
  <2>1. n \in 0 .. n
    BY <1>1
  <2> QED BY <1>13, <2>1
<1>15. First(n) = S \cap set
  BY <1>1
<1> QED BY <1>2, <1>14, <1>15 DEF Ordered, X

(* As many are newer than a VM as stand before it, so all have a place.    *)
LEMMA NewestIs ==
    ASSUME NEW V, HaveTimes(V)
    PROVE  Ordered(NewestFirst(V), V)
<1> DEFINE n == Cardinality(V)
           Newer(x) == {v \in V : v.created > x.created}
           rank == [x \in V |-> Cardinality(Newer(x)) + 1]
           l == NewestFirst(V)
<1>1. IsFiniteSet(V) /\ n \in Nat /\ \A x \in V : x.created \in Nat
  BY FS_CardinalityType DEF HaveTimes
<1>2. ASSUME NEW x \in V PROVE rank[x] \in 1 .. n /\ IsFiniteSet(Newer(x)) /\ Cardinality(Newer(x)) \in Nat
  <2>1. Newer(x) \subseteq V /\ x \notin Newer(x) /\ Newer(x) # V
    BY <1>1
  <2> DEFINE m == Cardinality(Newer(x))
  <2>2. IsFiniteSet(Newer(x)) /\ m <= n /\ m # n /\ m \in Nat
    <3> HIDE DEF Newer
    <3>1. IsFiniteSet(Newer(x)) /\ m <= n /\ m # n
      BY <1>1, <2>1, FS_Subset
    <3> QED BY <3>1, FS_CardinalityType
  <2>3. rank[x] = m + 1
    OBVIOUS
  <2> HIDE DEF m, rank
  <2> QED BY <1>1, <2>2, <2>3 DEF m
<1>3. ASSUME NEW x \in V, NEW y \in V, x.created > y.created PROVE rank[x] < rank[y]
  <2>1. Newer(x) \subseteq Newer(y) /\ x \in Newer(y) /\ x \notin Newer(x)
    BY <1>1, <1>3
  <2>2. IsFiniteSet(Newer(y)) /\ Cardinality(Newer(x)) \in Nat /\ Cardinality(Newer(y)) \in Nat
    BY <1>2
  <2>3. Cardinality(Newer(x)) <= Cardinality(Newer(y)) /\ Cardinality(Newer(x)) # Cardinality(Newer(y))
    <3> HIDE DEF Newer
    <3>1. Newer(x) # Newer(y)
      BY <2>1
    <3> QED BY <2>1, <2>2, <3>1, FS_Subset
  <2>4. rank[x] = Cardinality(Newer(x)) + 1 /\ rank[y] = Cardinality(Newer(y)) + 1
    OBVIOUS
  <2> HIDE DEF Newer, rank
  <2> QED BY <2>2, <2>3, <2>4
<1>4. \A x, y \in V : rank[x] = rank[y] => x = y
  <2> SUFFICES ASSUME NEW x \in V, NEW y \in V, rank[x] = rank[y] PROVE x.created = y.created
    BY DEF HaveTimes
  <2>1. ~(rank[x] < rank[y]) /\ ~(rank[y] < rank[x])
    BY <1>2
  <2> HIDE DEF rank
  <2> QED BY <1>1, <1>3, <2>1
<1>5. \A i \in 1 .. n : \E x \in V : rank[x] = i
  <2> DEFINE R == {rank[x] : x \in V}
  <2>1. rank \in Bijection(V, R)
    BY <1>4 DEF Bijection, Injection, Surjection, IsInjective
  <2>2. IsFiniteSet(R) /\ Cardinality(R) = n
    <3>1. ExistsBijection(V, R)
      BY <2>1 DEF ExistsBijection
    <3> HIDE DEF R
    <3> QED BY <1>1, <3>1, FS_Bijection
  <2>3. R \subseteq 1 .. n
    BY <1>2
  <2>4. IsFiniteSet(1 .. n) /\ Cardinality(1 .. n) = n
    BY <1>1, FS_Interval
  <2>5. R = 1 .. n
    <3> HIDE DEF R
    <3> QED BY <2>2, <2>3, <2>4, FS_Subset
  <2> QED BY <2>5
<1>6. l = [i \in 1 .. n |-> CHOOSE x \in V : Cardinality(Newer(x)) = i - 1]
  BY DEF NewestFirst
<1>7. ASSUME NEW i \in 1 .. n PROVE l[i] \in V /\ rank[l[i]] = i
  <2>1. PICK x \in V : rank[x] = i
    BY <1>5
  <2>2. Cardinality(Newer(x)) = i - 1
    <3>1. rank[x] = Cardinality(Newer(x)) + 1 /\ Cardinality(Newer(x)) \in Nat
      BY <1>2
    <3> HIDE DEF rank, Newer
    <3> QED BY <2>1, <3>1
  <2>3. l[i] \in V /\ Cardinality(Newer(l[i])) = i - 1
    BY <1>6, <2>2
  <2>4. rank[l[i]] = Cardinality(Newer(l[i])) + 1
    BY <2>3
  <2> HIDE DEF rank, Newer, l
  <2> QED BY <2>3, <2>4
<1> HIDE DEF rank, Newer
<1>8. l \in Seq(V) /\ Len(l) = n /\ DOMAIN l = 1 .. n
  <2>1. DOMAIN l = 1 .. n /\ l \in [1 .. n -> V]
    BY <1>6, <1>7
  <2> QED BY <1>1, <2>1
<1> HIDE DEF l
<1>9. ToSet(l) = V
  <2>1. \A x \in V : rank[x] \in 1 .. n /\ l[rank[x]] \in V /\ rank[l[rank[x]]] = rank[x]
    BY <1>2, <1>7
  <2>2. \A x \in V : x = l[rank[x]]
    BY <1>4, <2>1
  <2> QED BY <1>2, <1>7, <1>8, <2>2 DEF ToSet
<1>10. Descends(l)
  <2> SUFFICES ASSUME NEW i \in 1 .. n, NEW j \in 1 .. n, i < j PROVE l[i].created > l[j].created
    BY <1>8 DEF Descends
  <2>1. l[i] \in V /\ l[j] \in V /\ rank[l[i]] = i /\ rank[l[j]] = j
    BY <1>7
  <2>2. ~(l[j].created > l[i].created)
    <3> SUFFICES ASSUME l[j].created > l[i].created PROVE FALSE
      OBVIOUS
    <3>1. j < i
      BY <1>3, <2>1
    <3> QED BY <3>1
  <2>3. l[i].created # l[j].created
    <3>1. l[i] # l[j]
      BY <2>1
    <3> QED BY <2>1, <3>1 DEF HaveTimes
  <2> QED BY <1>1, <2>1, <2>2, <2>3
<1> QED BY <1>8, <1>9, <1>10 DEF Ordered, l

(* What a word finds is meant by it: it is all that is, if no more is.     *)
LEMMA MatchIsMeant ==
    ASSUME NEW word \in Text_, NEW V, \A vm \in V : dockerIdFromVmObj(vm) \in Text_,
           NEW S \in SUBSET V
    PROVE  findContainerIdMatch(word, S) \in SUBSET {vm \in S : vm.alias = word \/ IsPrefix(word, dockerIdFromVmObj(vm))}
<1> DEFINE M == {vm \in S : vm.alias = word \/ IsPrefix(word, dockerIdFromVmObj(vm))}
           full == {vm \in S : IsFullMatch(word, vm)}
           alias == {vm \in S : IsAliasMatch(word, vm)}
           partial == {vm \in S : IsPartialMatch(word, vm)}
<1>1. IsPrefix(word, word)
  BY PrefixIs, TextHasLength
<1>2. full \subseteq M
  BY <1>1 DEF IsFullMatch
<1>3. alias \subseteq M
  BY DEF IsAliasMatch
<1>4. partial \subseteq M
  BY DEF IsPartialMatch
<1>5. findContainerIdMatch(word, S)
        = IF full # {} THEN {CHOOSE vm \in full : TRUE}
          ELSE IF Cardinality(alias) = 1 THEN alias
          ELSE IF Cardinality(partial) = 1 THEN partial ELSE {}
  BY DEF findContainerIdMatch
<1> HIDE DEF full, alias, partial, M
<1>6. full # {} => (CHOOSE vm \in full : TRUE) \in full
  OBVIOUS
<1>7. findContainerIdMatch(word, S) \subseteq M
  BY <1>2, <1>3, <1>4, <1>5, <1>6
<1> QED BY <1>7 DEF M

(* The VMs of such a list that stand before one of them, and after it.     *)
PartsOrdered(l, S, at) ==
    /\ Ordered(SubSeq(l, 1, at - 1), {x \in S : l[at].created < x.created})
    /\ Ordered(SubSeq(l, at + 1, Len(l)), {x \in S : l[at].created > x.created})
LEMMA PartOrdered ==
    ASSUME NEW V, HaveTimes(V), NEW l, NEW S \in SUBSET V, Ordered(l, S), NEW at \in DOMAIN l
    PROVE  PartsOrdered(l, S, at)
<1> DEFINE n == Len(l)
<1>1. /\ l \in Seq(S) /\ n \in Nat /\ DOMAIN l = 1 .. n /\ at \in 1 .. n /\ Descends(l)
      /\ S = {l[i] : i \in 1 .. n} /\ \A i \in 1 .. n : l[i] \in S /\ l[i].created \in Nat
  BY DEF Ordered, ToSet, HaveTimes
<1>2. l \in Seq(S) /\ n \in Nat /\ at \in Nat /\ 1 <= at /\ at <= n
  BY <1>1
<1> HIDE DEF n
<1>3. \A i, j \in 1 .. n : i < j => l[i].created > l[j].created
  BY <1>1 DEF Descends
<1>4. Ordered(SubSeq(l, 1, at - 1), {x \in S : l[at].created < x.created})
  <2> DEFINE p == SubSeq(l, 1, at - 1)
             P == {x \in S : l[at].created < x.created}
  <2>1. /\ p \in Seq(S) /\ Len(p) = at - 1 /\ \A i \in 1 .. at - 1 : p[i] = l[i]
        /\ at - 1 \in Nat
    <3>1. at - 1 \in 0 .. n /\ at - 1 < n /\ at - 1 \in Nat
      BY <1>2
    <3>2. p = Head_(l, at - 1)
      BY <3>1 DEF Head_, n
    <3> HIDE DEF p
    <3> QED BY <1>2, <3>1, <3>2, PartsOf DEF n
  <2> HIDE DEF p
  <2>2. DOMAIN p = 1 .. at - 1 /\ \A i \in 1 .. at - 1 : i \in 1 .. n /\ i < at
    BY <1>1, <2>1
  <2>3. \A i \in 1 .. at - 1 : p[i] \in P
    BY <1>1, <1>3, <2>1, <2>2
  <2>4. \A x \in P : \E i \in 1 .. at - 1 : p[i] = x
    <3> SUFFICES ASSUME NEW x \in P PROVE \E i \in 1 .. at - 1 : p[i] = x
      OBVIOUS
    <3>1. PICK i \in 1 .. n : x = l[i]
      BY <1>1
    <3>2. ~(at < i) /\ at # i
      <4>1. l[at].created \in Nat /\ l[i].created \in Nat /\ l[at].created < l[i].created
        BY <1>1, <3>1
      <4>2. at < i => l[at].created > l[i].created
        BY <1>1, <1>3
      <4> QED BY <4>1, <4>2
    <3>3. i \in 1 .. at - 1
      BY <1>1, <3>2
    <3> QED BY <2>1, <3>1, <3>3
  <2>5. p \in Seq(P) /\ ToSet(p) = P
    <3> HIDE DEF P
    <3>1. p \in Seq(P)
      BY <2>1, <2>2, <2>3
    <3> QED BY <2>2, <2>3, <2>4, <3>1 DEF ToSet
  <2>6. Descends(p)
    BY <1>3, <2>1, <2>2 DEF Descends
  <2> QED BY <2>5, <2>6 DEF Ordered, p
<1>5. Ordered(SubSeq(l, at + 1, n), {x \in S : l[at].created > x.created})
  <2> DEFINE p == SubSeq(l, at + 1, n)
             P == {x \in S : l[at].created > x.created}
  <2>1. /\ p \in Seq(S) /\ Len(p) = n - at /\ \A i \in 1 .. n - at : p[i] = l[at + i]
        /\ n - at \in Nat
    <3>1. at \in 0 .. n /\ n - at \in Nat
      BY <1>2
    <3>2. p = Tail_(l, at)
      BY DEF Tail_, n
    <3> HIDE DEF p
    <3> QED BY <1>2, <3>1, <3>2, PartsOf DEF n
  <2> HIDE DEF p
  <2>2. DOMAIN p = 1 .. n - at /\ \A i \in 1 .. n - at : at + i \in 1 .. n /\ at < at + i
    <3>1. DOMAIN p = 1 .. n - at
      BY <2>1
    <3>2. \A i \in 1 .. n - at : at + i \in 1 .. n /\ at < at + i
      BY <1>2
    <3> QED BY <3>1, <3>2
  <2>3. \A i \in 1 .. n - at : p[i] \in P
    BY <1>1, <1>3, <2>1, <2>2
  <2>4. \A x \in P : \E i \in 1 .. n - at : p[i] = x
    <3> SUFFICES ASSUME NEW x \in P PROVE \E i \in 1 .. n - at : p[i] = x
      OBVIOUS
    <3>1. PICK i \in 1 .. n : x = l[i]
      BY <1>1
    <3>2. ~(i < at) /\ at # i
      <4>1. l[at].created \in Nat /\ l[i].created \in Nat /\ l[at].created > l[i].created
        BY <1>1, <3>1
      <4>2. i < at => l[i].created > l[at].created
        BY <1>1, <1>3
      <4> QED BY <4>1, <4>2
    <3>3. i - at \in 1 .. n - at /\ at + (i - at) = i
      <4>1. i \in Nat /\ i <= n /\ at < i
        BY <1>2, <3>2
      <4> QED BY <1>2, <4>1
    <3> QED BY <2>1, <3>1, <3>3
  <2>5. p \in Seq(P) /\ ToSet(p) = P
    <3> HIDE DEF P
    <3>1. p \in Seq(P)
      BY <2>1, <2>2, <2>3
    <3> QED BY <2>2, <2>3, <2>4, <3>1 DEF ToSet
  <2>6. Descends(p)
    <3> SUFFICES ASSUME NEW i \in 1 .. n - at, NEW j \in 1 .. n - at, i < j
                 PROVE  p[i].created > p[j].created
      BY <2>2 DEF Descends
    <3>1. at + i < at + j
      BY <1>1, <2>1
    <3> QED BY <1>3, <2>1, <2>2, <3>1
  <2> QED BY <2>5, <2>6 DEF Ordered, p
<1> QED BY <1>4, <1>5 DEF n, PartsOrdered

(* A list with an error, and what one that was narrowed is.                *)
UnknownStatus == "Unrecognised filter value for status"
Lists(V) == [vms : Seq(V), error : {"none", NoSuchContainer, UnknownStatus}]
Follows(l, r, V) == r \in Lists(V) /\ (r.error = "none" => l.error = "none")
NarrowsTo(l, r, set) ==
    r.error = "none" => \A S : Ordered(l.vms, S) => Ordered(r.vms, S \cap set)

LEMMA AmongIs ==
    ASSUME NEW V, NEW l \in Lists(V), NEW set
    PROVE  /\ Follows(l, Among(l, set), V) /\ NarrowsTo(l, Among(l, set), set)
           /\ Among(l, set).error = l.error
<1> DEFINE r == Among(l, set)
           kept == Kept(l.vms, set)
<1>1. r = [l EXCEPT !.vms = kept]
  BY DEF Among
<1>2. kept \in Seq(V)
  <2>1. kept \in Seq(V \cap set)
    BY KeptIs DEF Lists
  <2> HIDE DEF kept
  <2> QED BY <2>1
<1> HIDE DEF kept, r
<1>3. r \in Lists(V) /\ r.vms = kept /\ r.error = l.error
  BY <1>1, <1>2 DEF Lists
<1>4. \A S : Ordered(l.vms, S) => Ordered(kept, S \cap set)
  BY KeptOrdered DEF kept
<1> QED BY <1>3, <1>4 DEF Follows, NarrowsTo, r

(* A slice is what is newer, or older, than the VM the word means.         *)
Beside(word, V, newer) ==
    {vm \in V : \E v \in Meant(word, V) :
        IF newer THEN v.created < vm.created ELSE v.created > vm.created}
Names(V) == Standing(V) = V /\ \A vm \in V : dockerIdFromVmObj(vm) \in Text_
LEMMA SliceIs ==
    ASSUME NEW V, HaveTimes(V), Names(V), NEW l \in Lists(V), NEW word \in Text_, NEW newer \in BOOLEAN
    PROVE  LET r == Slice(l, word, newer)
           IN /\ Follows(l, r, V)
              /\ Cardinality(Meant(word, V)) <= 1 => NarrowsTo(l, r, Beside(word, V, newer))
<1> DEFINE s == l.vms
           match == findContainerIdMatch(word, ToSet(s))
           at == CHOOSE i \in DOMAIN s : s[i] \in match
           part == IF newer THEN SubSeq(s, 1, at - 1) ELSE SubSeq(s, at + 1, Len(s))
           r == Slice(l, word, newer)
           named == Meant(word, V)
<1>1. r = IF match = {} THEN [l EXCEPT !.error = NoSuchContainer] ELSE [l EXCEPT !.vms = part]
  BY DEF Slice
<1>2. s \in Seq(V) /\ ToSet(s) \in SUBSET V /\ ToSet(s) = {s[i] : i \in DOMAIN s}
  BY DEF Lists, ToSet
<1>3. match \subseteq ToSet(s) /\ match \subseteq named
  <2>1. match \in SUBSET {vm \in ToSet(s) : vm.alias = word \/ IsPrefix(word, dockerIdFromVmObj(vm))}
    BY <1>2, MatchIsMeant DEF Names
  <2>2. named = {vm \in V : vm.alias = word \/ IsPrefix(word, dockerIdFromVmObj(vm))}
    BY DEF Meant, Names
  <2> HIDE DEF match, named
  <2> QED BY <1>2, <2>1, <2>2
<1> HIDE DEF match
<1>4. match # {} => at \in DOMAIN s /\ s[at] \in match
  BY <1>2, <1>3
<1> HIDE DEF at
<1>5. match # {} => part \in Seq(V)
  <2> SUFFICES ASSUME match # {} PROVE part \in Seq(V)
    OBVIOUS
  <2>1. at \in 1 .. Len(s) /\ Len(s) \in Nat
    BY <1>2, <1>4
  <2>2. SubSeq(s, 1, at - 1) \in Seq(V) /\ SubSeq(s, at + 1, Len(s)) \in Seq(V)
    <3> HIDE DEF s
    <3> QED BY <1>2, <2>1
  <2> QED BY <2>2
<1> HIDE DEF part, r
<1>6. match = {} => r.error # "none" /\ r \in Lists(V)
  BY <1>1 DEF Lists, NoSuchContainer
<1>7. match # {} => r.vms = part /\ r.error = l.error /\ r \in Lists(V)
  BY <1>1, <1>5 DEF Lists
<1>8. Follows(l, r, V)
  BY <1>6, <1>7 DEF Follows
<1>9. ASSUME Cardinality(named) <= 1 PROVE NarrowsTo(l, r, Beside(word, V, newer))
  <2> SUFFICES ASSUME r.error = "none", NEW S, Ordered(s, S)
               PROVE  Ordered(r.vms, S \cap Beside(word, V, newer))
    BY DEF NarrowsTo
  <2>1. match # {} /\ at \in DOMAIN s /\ s[at] \in named
    BY <1>3, <1>4, <1>6
  <2>2. named = {s[at]}
    <3>1. IsFiniteSet(named)
      <4>1. named \subseteq V
        BY DEF Meant, Names
      <4> HIDE DEF named
      <4> QED BY <4>1, FS_Subset DEF HaveTimes
    <3> HIDE DEF named
    <3>2. Cardinality(named) \in Nat /\ Cardinality(named) # 0
      BY <2>1, <3>1, FS_CardinalityType, FS_EmptySet
    <3>3. Cardinality(named) = 1
      BY <1>9, <3>2
    <3> QED BY <2>1, <3>1, <3>3, OneOf
  <2>3. S \in SUBSET V
    BY <1>2 DEF Ordered
  <2>4. S \cap Beside(word, V, newer)
          = IF newer THEN {x \in S : s[at].created < x.created}
            ELSE {x \in S : s[at].created > x.created}
    <3> HIDE DEF s
    <3> QED BY <2>2, <2>3 DEF Beside
  <2>5. /\ Ordered(SubSeq(s, 1, at - 1), {x \in S : s[at].created < x.created})
        /\ Ordered(SubSeq(s, at + 1, Len(s)), {x \in S : s[at].created > x.created})
    <3> HIDE DEF s
    <3>1. PartsOrdered(s, S, at)
      BY <2>1, <2>3, PartOrdered
    <3> QED BY <3>1 DEF PartsOrdered
  <2> QED BY <1>7, <2>1, <2>4, <2>5 DEF part
<1> QED BY <1>8, <1>9 DEF r

(* What comes of narrowing a list to a set: it may fail for what is bad,   *)
(* and the set is the right one if nothing is unclear.                     *)
Outcome(l, r, V, bad, unclear, set) ==
    /\ Follows(l, r, V)
    /\ r.error # "none" => l.error # "none" \/ bad # {}
    /\ unclear = {} => NarrowsTo(l, r, set)

LEMMA OutcomeOfNone ==
    ASSUME NEW V, NEW l \in Lists(V)
    PROVE  Outcome(l, l, V, {}, {}, V)
<1>1. ASSUME NEW S, Ordered(l.vms, S) PROVE Ordered(l.vms, S \cap V)
  <2>1. ToSet(l.vms) \subseteq V
    BY DEF Lists, ToSet
  <2>2. S \cap V = S
    BY <1>1, <2>1 DEF Ordered
  <2> QED BY <1>1, <2>2
<1> QED BY <1>1 DEF Outcome, Follows, NarrowsTo

LEMMA OutcomeOfBoth ==
    ASSUME NEW V, NEW l, NEW k, NEW r, NEW b1, NEW b2, NEW u1, NEW u2, NEW s1, NEW s2,
           Outcome(l, k, V, b1, u1, s1), Outcome(k, r, V, b2, u2, s2)
    PROVE  Outcome(l, r, V, b1 \union b2, u1 \union u2, s1 \cap s2)
<1>1. Follows(l, r, V)
  BY DEF Outcome, Follows
<1>2. r.error # "none" => l.error # "none" \/ b1 \union b2 # {}
  BY DEF Outcome
<1>3. ASSUME u1 \union u2 = {} PROVE NarrowsTo(l, r, s1 \cap s2)
  <2>1. NarrowsTo(l, k, s1) /\ NarrowsTo(k, r, s2) /\ Follows(k, r, V)
    <3>1. u1 = {} /\ u2 = {}
      BY <1>3
    <3> QED BY <3>1 DEF Outcome
  <2> SUFFICES ASSUME r.error = "none", NEW S, Ordered(l.vms, S)
               PROVE  Ordered(r.vms, S \cap (s1 \cap s2))
    BY DEF NarrowsTo
  <2>2. k.error = "none"
    BY <2>1 DEF Follows
  <2>3. Ordered(k.vms, S \cap s1)
    BY <2>1, <2>2 DEF NarrowsTo
  <2>4. Ordered(r.vms, (S \cap s1) \cap s2)
    BY <2>1, <2>3 DEF NarrowsTo
  <2>5. (S \cap s1) \cap s2 = S \cap (s1 \cap s2)
    OBVIOUS
  <2> QED BY <2>4, <2>5
<1> QED BY <1>1, <1>2, <1>3 DEF Outcome

LEMMA OutcomeAlike ==
    ASSUME NEW V, NEW l, NEW r, NEW bad, NEW unclear, NEW set, NEW alike,
           Outcome(l, r, V, bad, unclear, set),
           ToSet(l.vms) \cap set = ToSet(l.vms) \cap alike
    PROVE  Outcome(l, r, V, bad, unclear, alike)
<1>1. ASSUME NarrowsTo(l, r, set) PROVE NarrowsTo(l, r, alike)
  <2> SUFFICES ASSUME r.error = "none", NEW S, Ordered(l.vms, S)
               PROVE  Ordered(r.vms, S \cap alike)
    BY DEF NarrowsTo
  <2>1. Ordered(r.vms, S \cap set)
    BY <1>1 DEF NarrowsTo
  <2>2. S \cap set = S \cap alike
    BY DEF Ordered
  <2> QED BY <2>1, <2>2
<1> QED BY <1>1 DEF Outcome

(* What comes of narrowing a list again and again.                         *)
Joint(V, sets, n) == {vm \in V : \A i \in 1 .. n : vm \in sets[i]}
Of(sets, n) == UNION {sets[i] : i \in 1 .. n}
LEMMA OutcomesOf ==
    ASSUME NEW n \in Nat, NEW V, NEW l \in Lists(V), NEW f, f[0] = l,
           NEW bad, NEW unclear, NEW set,
           \A i \in 1 .. n : f[i - 1] \in Lists(V) =>
                Outcome(f[i - 1], f[i], V, bad[i], unclear[i], set[i])
    PROVE  Outcome(l, f[n], V, Of(bad, n), Of(unclear, n), Joint(V, set, n))
<1> DEFINE inv == [i \in 0 .. n |->
                      {k \in Lists(V) : Outcome(l, k, V, Of(bad, i), Of(unclear, i), Joint(V, set, i))}]
<1>1. f[0] \in inv[0]
  <2>1. Of(bad, 0) = {} /\ Of(unclear, 0) = {} /\ Joint(V, set, 0) = V
    BY DEF Of, Joint
  <2>2. Outcome(l, l, V, {}, {}, V)
    BY OutcomeOfNone
  <2> QED BY <2>1, <2>2
<1>2. ASSUME NEW i \in 1 .. n, f[i - 1] \in inv[i - 1] PROVE f[i] \in inv[i]
  <2> DEFINE k == f[i - 1]
             r == f[i]
  <2>1. i - 1 \in 0 .. n /\ i \in 0 .. n
    OBVIOUS
  <2>2. k \in Lists(V) /\ Outcome(l, k, V, Of(bad, i - 1), Of(unclear, i - 1), Joint(V, set, i - 1))
    BY <1>2, <2>1
  <2>3. Outcome(k, r, V, bad[i], unclear[i], set[i])
    BY <2>2
  <2> HIDE DEF k, r
  <2>4. Outcome(l, r, V, Of(bad, i - 1) \union bad[i], Of(unclear, i - 1) \union unclear[i],
                Joint(V, set, i - 1) \cap set[i])
    BY <2>2, <2>3, OutcomeOfBoth
  <2>5. \A j : j \in 1 .. i <=> j = i \/ j \in 1 .. i - 1
    OBVIOUS
  <2>6. Of(bad, i) = Of(bad, i - 1) \union bad[i] /\ Of(unclear, i) = Of(unclear, i - 1) \union unclear[i]
    BY <2>5 DEF Of
  <2>7. Joint(V, set, i) = Joint(V, set, i - 1) \cap set[i]
    BY <2>5 DEF Joint
  <2>8. r \in Lists(V)
    BY <2>3 DEF Outcome, Follows
  <2> QED BY <2>1, <2>4, <2>6, <2>7, <2>8 DEF r
<1>3. f[n] \in inv[n]
  <2> HIDE DEF inv
  <2> QED BY <1>1, <1>2, LoopKeeps
<1>4. n \in 0 .. n
  OBVIOUS
<1> QED BY <1>3, <1>4

LEMMA AmongOutcome ==
    ASSUME NEW V, NEW l \in Lists(V), NEW P
    PROVE  Outcome(l, Among(l, {vm \in ToSet(l.vms) : vm \in P}), V, {}, {}, P)
<1> DEFINE set == {vm \in ToSet(l.vms) : vm \in P}
<1>1. Outcome(l, Among(l, set), V, {}, {}, set)
  <2> HIDE DEF set
  <2> QED BY AmongIs DEF Outcome
<1>2. ToSet(l.vms) \cap set = ToSet(l.vms) \cap P
  OBVIOUS
<1> HIDE DEF set
<1>3. Outcome(l, Among(l, set), V, {}, {}, P)
  BY <1>1, <1>2, OutcomeAlike
<1> QED BY <1>3 DEF set

(* Statuses: each narrows the list, or is an error.                        *)
InStatus(v, V) == {vm \in V : v \in DOMAIN StatusOf /\ vm.state = StatusOf[v]}
NarrowStatus(l, v) ==
    IF v \in DOMAIN StatusOf
    THEN Among(l, {vm \in ToSet(l.vms) : vm.state = StatusOf[v]})
    ELSE [l EXCEPT !.error = UnknownStatus]

LEMMA StatusNarrows ==
    ASSUME NEW V, NEW l \in Lists(V), NEW v
    PROVE  Outcome(l, NarrowStatus(l, v), V, {v} \ DOMAIN StatusOf, {}, InStatus(v, V))
<1>1. ToSet(l.vms) \subseteq V
  BY DEF Lists, ToSet
<1>2. CASE v \in DOMAIN StatusOf
  <2>1. {vm \in ToSet(l.vms) : vm.state = StatusOf[v]} = {vm \in ToSet(l.vms) : vm \in InStatus(v, V)}
    BY <1>1, <1>2 DEF InStatus
  <2>2. Outcome(l, Among(l, {vm \in ToSet(l.vms) : vm \in InStatus(v, V)}), V, {}, {}, InStatus(v, V))
    BY AmongOutcome
  <2>3. NarrowStatus(l, v) = Among(l, {vm \in ToSet(l.vms) : vm \in InStatus(v, V)})
    BY <1>2, <2>1 DEF NarrowStatus
  <2>4. {v} \ DOMAIN StatusOf = {}
    BY <1>2
  <2> QED BY <2>2, <2>3, <2>4
<1>3. CASE v \notin DOMAIN StatusOf
  <2> DEFINE r == [l EXCEPT !.error = UnknownStatus]
  <2>1. NarrowStatus(l, v) = r
    BY <1>3 DEF NarrowStatus
  <2>2. r \in Lists(V) /\ r.error = UnknownStatus /\ UnknownStatus # "none"
    BY DEF Lists, UnknownStatus
  <2>3. v \in {v} \ DOMAIN StatusOf
    BY <1>3
  <2> HIDE DEF r
  <2> QED BY <2>1, <2>2, <2>3 DEF Outcome, Follows, NarrowsTo
<1> QED BY <1>2, <1>3

LEMMA StatusIs ==
    ASSUME NEW V, NEW l \in Lists(V), NEW T, NEW values \in Seq(T)
    PROVE  Outcome(l, FilterStatus(l, values), V, ToSet(values) \ DOMAIN StatusOf, {},
                   {vm \in V : \A v \in ToSet(values) : vm \in InStatus(v, V)})
<1> DEFINE n == Len(values)
           X == Lists(V)
           Runs(f) == f = [i \in 0 .. n |-> IF i = 0 THEN l ELSE NarrowStatus(f[i - 1], values[i])]
           f0 == CHOOSE f : Runs(f)
           next == [i \in 1 .. n |-> [s \in X |-> NarrowStatus(s, values[i])]]
           bad == [i \in 1 .. n |-> {values[i]} \ DOMAIN StatusOf]
           unclear == [i \in 1 .. n |-> {}]
           set == [i \in 1 .. n |-> InStatus(values[i], V)]
<1>1. n \in Nat /\ ToSet(values) = {values[i] : i \in 1 .. n}
  BY DEF ToSet
<1>2. FilterStatus(l, values) = f0[n]
  BY DEF FilterStatus, Through, NarrowStatus, UnknownStatus
<1> HIDE DEF n
<1>3. \A s \in X, i \in 1 .. n : NarrowStatus(s, values[i]) \in X
  BY StatusNarrows DEF Outcome, Follows
<1>4. next \in Steps(n, X)
  <2> HIDE DEF X
  <2> QED BY <1>3 DEF Steps
<1>5. \A s \in X, i \in 1 .. n : next[i][s] = NarrowStatus(s, values[i])
  OBVIOUS
<1> HIDE DEF next
<1>6. PICK f \in [0 .. n -> X] : f[0] = l /\ \A i \in 1 .. n : f[i] = next[i][f[i - 1]]
  <2> HIDE DEF X
  <2>1. l \in X
    BY DEF X
  <2>2. Loops(n, X, l, next) # {}
    BY <1>1, <1>4, <2>1, LoopRuns
  <2> QED BY <2>2 DEF Loops
<1> HIDE DEF X
<1>7. Runs(f0)
  <2>1. \A i \in 0 .. n : f[i] = IF i = 0 THEN l ELSE NarrowStatus(f[i - 1], values[i])
    <3>1. ASSUME NEW i \in 1 .. n PROVE f[i] = NarrowStatus(f[i - 1], values[i])
      <4>1. i - 1 \in 0 .. n
        BY <1>1
      <4>2. f[i - 1] \in X
        BY <1>6, <4>1
      <4> QED BY <1>5, <1>6, <4>2
    <3> QED BY <1>1, <1>6, <3>1
  <2>2. Runs(f)
    BY <1>6, <2>1
  <2> HIDE DEF Runs
  <2> QED BY <2>2
<1>8. f0[0] = l /\ \A i \in 1 .. n : f0[i] = NarrowStatus(f0[i - 1], values[i])
  <2> HIDE DEF f0
  <2> QED BY <1>1, <1>7
<1> HIDE DEF f0
<1>9. \A i \in 1 .. n : f0[i - 1] \in Lists(V) =>
          Outcome(f0[i - 1], f0[i], V, bad[i], unclear[i], set[i])
  <2> SUFFICES ASSUME NEW i \in 1 .. n, f0[i - 1] \in Lists(V)
               PROVE  Outcome(f0[i - 1], f0[i], V, bad[i], unclear[i], set[i])
    OBVIOUS
  <2>1. bad[i] = {values[i]} \ DOMAIN StatusOf /\ unclear[i] = {} /\ set[i] = InStatus(values[i], V)
    OBVIOUS
  <2> HIDE DEF bad, unclear, set
  <2> QED BY <1>8, <2>1, StatusNarrows
<1>10. /\ Of(bad, n) = ToSet(values) \ DOMAIN StatusOf /\ Of(unclear, n) = {}
       /\ Joint(V, set, n) = {vm \in V : \A v \in ToSet(values) : vm \in InStatus(v, V)}
  <2>1. Of(bad, n) = ToSet(values) \ DOMAIN StatusOf
    BY <1>1 DEF Of
  <2>2. Of(unclear, n) = {}
    BY DEF Of
  <2>3. Joint(V, set, n) = {vm \in V : \A v \in ToSet(values) : vm \in InStatus(v, V)}
    BY <1>1 DEF Joint
  <2> QED BY <2>1, <2>2, <2>3
<1>11. Outcome(l, f0[n], V, Of(bad, n), Of(unclear, n), Joint(V, set, n))
  <2> HIDE DEF bad, unclear, set
  <2> QED BY <1>1, <1>8, <1>9, OutcomesOf
<1> QED BY <1>2, <1>10, <1>11

(* One filter.  What it fails for, on the list it is given: a status that  *)
(* is not known, a container that is not in the list.                      *)
IsFilter(f) == /\ IsList(f.values)
               /\ f.field \in {"since", "before"} => f.values[1] \in Text_
HasReason(l, f) ==
    \/ f.field = "status" /\ \E v \in ToSet(f.values) : v \notin DOMAIN StatusOf
    \/ f.field \in {"since", "before"} /\ findContainerIdMatch(f.values[1], ToSet(l.vms)) = {}
Reasons(l, f) == {x \in {f} : HasReason(l, x)}
Unclear(f, V) == {x \in {f} : ~Clear(x, V)}
Passing(f, V, packages) == {vm \in V : Passes(vm, f, V, packages)}

LEMMA SliceOutcome ==
    ASSUME NEW V, HaveTimes(V), Names(V), NEW l \in Lists(V), NEW f, IsFilter(f),
           NEW newer \in BOOLEAN, f.field \in {"since", "before"}
    PROVE  Outcome(l, Slice(l, f.values[1], newer), V, Reasons(l, f), Unclear(f, V),
                   Beside(f.values[1], V, newer))
<1> DEFINE word == f.values[1]
           r == Slice(l, word, newer)
<1>1. word \in Text_
  BY DEF IsFilter
<1>2. Follows(l, r, V) /\ (Cardinality(Meant(word, V)) <= 1 => NarrowsTo(l, r, Beside(word, V, newer)))
  <2> HIDE DEF word
  <2> QED BY <1>1, SliceIs
<1>3. r.error # "none" => l.error # "none" \/ f \in Reasons(l, f)
  <2>1. findContainerIdMatch(word, ToSet(l.vms)) = {} => f \in Reasons(l, f)
    BY DEF Reasons, HasReason
  <2>2. findContainerIdMatch(word, ToSet(l.vms)) # {} => r.error = l.error
    <3> HIDE DEF word
    <3> QED BY DEF Slice, Lists
  <2> QED BY <2>1, <2>2
<1>4. Unclear(f, V) = {} => Cardinality(Meant(word, V)) <= 1
  BY DEF Unclear, Clear
<1> HIDE DEF word, r
<1>5. Outcome(l, r, V, Reasons(l, f), Unclear(f, V), Beside(word, V, newer))
  BY <1>2, <1>3, <1>4 DEF Outcome
<1> QED BY <1>5 DEF word, r

(* A filter of one status asks for any of its statuses and for all.        *)
LEMMA StatusOutcome ==
    ASSUME NEW V, NEW l \in Lists(V), NEW f, IsFilter(f), f.field = "status", NEW packages
    PROVE  Outcome(l, FilterStatus(l, f.values), V, Reasons(l, f), Unclear(f, V),
                   Passing(f, V, packages))
<1> DEFINE r == FilterStatus(l, f.values)
           All == {vm \in V : \A v \in ToSet(f.values) : vm \in InStatus(v, V)}
           P == Passing(f, V, packages)
<1>1. Outcome(l, r, V, ToSet(f.values) \ DOMAIN StatusOf, {}, All)
  BY StatusIs DEF IsFilter, IsList
<1>2. ToSet(f.values) \ DOMAIN StatusOf # {} => Reasons(l, f) # {}
  BY DEF Reasons, HasReason
<1>3. P = {vm \in V : \E v \in ToSet(f.values) : vm \in InStatus(v, V)}
  BY DEF Passing, Passes, InStatus
<1>4. Unclear(f, V) = {} => All = P
  <2> SUFFICES ASSUME Unclear(f, V) = {} PROVE All = P
    OBVIOUS
  <2>1. Cardinality(ToSet(f.values)) = 1
    BY DEF Unclear, Clear
  <2>2. IsFiniteSet(ToSet(f.values))
    <3> DEFINE values == f.values
    <3>1. values \in Seq(ToSet(values))
      BY DEF IsFilter, IsList
    <3> HIDE DEF values
    <3>2. Len(values) \in Nat /\ ToSet(values) = {values[i] : i \in 1 .. Len(values)}
      BY <3>1 DEF ToSet
    <3> DEFINE g == [i \in 1 .. Len(values) |-> values[i]]
    <3>3. g \in Surjection(1 .. Len(values), ToSet(values))
      <4>1. g \in [1 .. Len(values) -> ToSet(values)]
        BY <3>2
      <4> QED BY <3>2, <4>1 DEF Surjection
    <3> HIDE DEF g
    <3>4. IsFiniteSet(ToSet(values))
      BY <3>2, <3>3, FS_Interval, FS_Surjection
    <3> QED BY <3>4 DEF values
  <2>3. PICK x : ToSet(f.values) = {x}
    BY <2>1, <2>2, OneOf
  <2> QED BY <1>3, <2>3
<1> HIDE DEF r, All, P
<1>5. Outcome(l, r, V, Reasons(l, f), Unclear(f, V), P)
  BY <1>1, <1>2, <1>4 DEF Outcome
<1> QED BY <1>5 DEF r, P

LEMMA FieldIs ==
    ASSUME NEW V, HaveTimes(V), Names(V), NEW l \in Lists(V), NEW f, IsFilter(f), NEW packages
    PROVE  Outcome(l, FilterField(l, f, packages), V, Reasons(l, f), Unclear(f, V),
                   Passing(f, V, packages))
<1> DEFINE P == Passing(f, V, packages)
           r == FilterField(l, f, packages)
           Put(set) == Among(l, set)
<1> SUFFICES Outcome(l, r, V, Reasons(l, f), Unclear(f, V), P)
  OBVIOUS
<1>1. ToSet(l.vms) \subseteq V
  BY DEF Lists, ToSet
<1>2. Outcome(l, Put({vm \in ToSet(l.vms) : vm \in P}), V, {}, {}, P)
  BY AmongOutcome
<1>3. ASSUME Outcome(l, r, V, {}, {}, P), f.field \notin {"since", "before", "status"}
      PROVE  Outcome(l, r, V, Reasons(l, f), Unclear(f, V), P)
  <2>1. Unclear(f, V) = {}
    BY <1>3 DEF Unclear, Clear
  <2> HIDE DEF r, P
  <2> QED BY <1>3, <2>1 DEF Outcome
<1>4. CASE f.field = "status"
  <2>1. r = FilterStatus(l, f.values)
    BY <1>4 DEF FilterField
  <2> QED BY <1>4, <2>1, StatusOutcome
<1>5. CASE f.field = "exited"
  <2>1. r = Put({vm \in ToSet(l.vms) : vm.exit \in ToSet(f.values)})
    BY <1>5 DEF FilterField, FilterExited
  <2>2. {vm \in ToSet(l.vms) : vm \in P} = {vm \in ToSet(l.vms) : vm.exit \in ToSet(f.values)}
    BY <1>1, <1>5 DEF Passing, Passes
  <2> HIDE DEF P
  <2> QED BY <1>2, <1>3, <1>5, <2>1, <2>2
<1>6. CASE f.field = "id"
  <2>1. r = Put({vm \in ToSet(l.vms) : \E v \in ToSet(f.values) : IsWithin(v, dockerIdFromVmObj(vm))})
    BY <1>6 DEF FilterField, FilterId
  <2>2. {vm \in ToSet(l.vms) : vm \in P}
          = {vm \in ToSet(l.vms) : \E v \in ToSet(f.values) : IsWithin(v, dockerIdFromVmObj(vm))}
    BY <1>1, <1>6 DEF Passing, Passes
  <2> HIDE DEF P
  <2> QED BY <1>2, <1>3, <1>6, <2>1, <2>2
<1>7. CASE f.field = "name"
  <2>1. r = Put({vm \in ToSet(l.vms) : \E v \in ToSet(f.values) : IsWithin(v, vm.alias)})
    BY <1>7 DEF FilterField, FilterName
  <2>2. {vm \in ToSet(l.vms) : vm \in P}
          = {vm \in ToSet(l.vms) : \E v \in ToSet(f.values) : IsWithin(v, vm.alias)}
    BY <1>1, <1>7 DEF Passing, Passes
  <2> HIDE DEF P
  <2> QED BY <1>2, <1>3, <1>7, <2>1, <2>2
<1>8. CASE f.field = "label"
  <2>1. r = Put({vm \in ToSet(l.vms) : \A label \in ToSet(f.values) : HasLabel(vm, label, packages)})
    BY <1>8 DEF FilterField, FilterLabel
  <2>2. {vm \in ToSet(l.vms) : vm \in P}
          = {vm \in ToSet(l.vms) : \A label \in ToSet(f.values) : HasLabel(vm, label, packages)}
    BY <1>1, <1>8 DEF Passing, Passes
  <2> HIDE DEF P
  <2> QED BY <1>2, <1>3, <1>8, <2>1, <2>2
<1>9. CASE f.field = "since"
  <2>1. r = Slice(l, f.values[1], TRUE)
    BY <1>9 DEF FilterField
  <2>2. P = Beside(f.values[1], V, TRUE)
    BY <1>9 DEF Passing, Passes, Beside
  <2> HIDE DEF r, P
  <2> QED BY <1>9, <2>1, <2>2, SliceOutcome
<1>10. CASE f.field = "before"
  <2>1. r = Slice(l, f.values[1], FALSE)
    BY <1>10 DEF FilterField
  <2>2. P = Beside(f.values[1], V, FALSE)
    BY <1>10 DEF Passing, Passes, Beside
  <2> HIDE DEF r, P
  <2> QED BY <1>10, <2>1, <2>2, SliceOutcome
<1>11. CASE f.field \notin {"status", "exited", "id", "name", "label", "since", "before"}
  <2>1. r = l
    BY <1>11 DEF FilterField
  <2>2. P = V
    BY <1>11 DEF Passing, Passes
  <2>3. Outcome(l, l, V, {}, {}, V)
    BY OutcomeOfNone
  <2> HIDE DEF r, P
  <2> QED BY <1>3, <1>11, <2>1, <2>2, <2>3
<1> QED BY <1>4, <1>5, <1>6, <1>7, <1>8, <1>9, <1>10, <1>11

(* The place of a VM in such a list, and the first of them.                *)
Place(vm, P) == Cardinality({v \in P : v.created > vm.created}) + 1
LEMMA PlacesAre ==
    ASSUME NEW V, HaveTimes(V), NEW l, NEW P \in SUBSET V, Ordered(l, P)
    PROVE  Len(l) = Cardinality(P) /\ \A i \in DOMAIN l : Place(l[i], P) = i
<1>1. l \in Seq(P) /\ l \in Seq(V) /\ Descends(l) /\ ToSet(l) = P
  BY DEF Ordered
<1>2. Len(l) = Cardinality(P)
  <2>1. IsOneToOne(l)
    BY <1>1, OrderedOnce
  <2> QED BY <1>1, <2>1, LengthIs
<1>3. ASSUME NEW i \in DOMAIN l PROVE Place(l[i], P) = i
  <2> DEFINE p == SubSeq(l, 1, i - 1)
             N == {x \in P : l[i].created < x.created}
  <2>1. PartsOrdered(l, P, i)
    BY PartOrdered
  <2>2. Ordered(p, N)
    BY <2>1 DEF PartsOrdered
  <2>3. i \in 1 .. Len(l) /\ Len(l) \in Nat
    BY <1>1
  <2>4. p \in Seq(P) /\ Len(p) = i - 1
    <3>1. i - 1 \in 0 .. Len(l) /\ i - 1 < Len(l)
      BY <2>3
    <3>2. p = Head_(l, i - 1)
      BY <3>1 DEF Head_
    <3> HIDE DEF p
    <3> QED BY <1>1, <3>1, <3>2, PartsOf
  <2>5. N = {v \in P : v.created > l[i].created}
    <3>1. l[i] \in V /\ l[i].created \in Nat /\ \A v \in P : v.created \in Nat
      BY <1>1, <2>3 DEF HaveTimes
    <3> QED BY <3>1
  <2> HIDE DEF p, N
  <2>6. p \in Seq(N) /\ p \in Seq(V) /\ Descends(p) /\ ToSet(p) = N
    BY <2>2, <2>4 DEF Ordered
  <2>7. Cardinality(N) = i - 1
    <3>1. IsOneToOne(p)
      BY <2>6, OrderedOnce
    <3> QED BY <2>4, <2>6, <3>1, LengthIs
  <2> QED BY <2>3, <2>5, <2>7 DEF Place
<1> QED BY <1>2, <1>3

LEMMA LimitIs ==
    ASSUME NEW V, HaveTimes(V), NEW l, NEW P \in SUBSET V, Ordered(l, P), NEW limit \in Nat
    PROVE  LET r == IF limit = 0 THEN l ELSE Head_(l, limit)
               most == IF limit = 0 THEN Cardinality(P) ELSE limit
           IN /\ ToSet(r) = {vm \in P : Place(vm, P) <= most}
              /\ \A i \in DOMAIN r : Place(r[i], P) = i
<1> DEFINE n == Len(l)
           r == IF limit = 0 THEN l ELSE Head_(l, limit)
           most == IF limit = 0 THEN Cardinality(P) ELSE limit
           m == IF most < n THEN most ELSE n
<1>1. l \in Seq(P) /\ n \in Nat /\ DOMAIN l = 1 .. n /\ P = {l[i] : i \in 1 .. n}
  BY DEF Ordered, ToSet
<1>2. n = Cardinality(P) /\ \A i \in 1 .. n : Place(l[i], P) = i
  <2>1. n = Cardinality(P) /\ \A i \in DOMAIN l : Place(l[i], P) = i
    BY PlacesAre
  <2> HIDE DEF n
  <2> QED BY <1>1, <2>1
<1>3. m \in 0 .. n /\ most \in Nat
  <2>1. n \in Nat
    BY <1>1
  <2>2. most \in Nat
    BY <1>2, <2>1
  <2> HIDE DEF n, most
  <2> QED BY <2>1, <2>2
<1>4. r = Head_(l, m)
  <2>1. CASE limit = 0
    <3>1. r = l /\ m = n
      BY <1>1, <1>2, <2>1
    <3>2. Head_(l, n) = SubSeq(l, 1, n)
      BY <1>1 DEF Head_
    <3>3. SubSeq(l, 1, n) = l
      <4>1. Len(SubSeq(l, 1, n)) = n /\ \A i \in 1 .. n : SubSeq(l, 1, n)[i] = l[i]
        BY <1>1
      <4>2. SubSeq(l, 1, n) \in Seq(P)
        BY <1>1
      <4> QED BY <1>1, <4>1, <4>2, SeqEqual
    <3> QED BY <3>1, <3>2, <3>3
  <2>2. CASE limit # 0
    <3>1. most = limit /\ r = Head_(l, limit)
      BY <2>2
    <3>2. Head_(l, limit) = Head_(l, m)
      BY <1>1, <3>1 DEF Head_
    <3> QED BY <3>1, <3>2
  <2> QED BY <2>1, <2>2
<1> HIDE DEF r, n
<1>5. r \in Seq(P) /\ Len(r) = m /\ DOMAIN r = 1 .. m /\ \A i \in 1 .. m : r[i] = l[i]
  <2> HIDE DEF m
  <2>1. r \in Seq(P) /\ Len(r) = m /\ \A i \in 1 .. m : r[i] = l[i]
    BY <1>1, <1>3, <1>4, PartsOf DEF n
  <2> QED BY <2>1
<1>6. \A i \in 1 .. n : i <= most <=> i \in 1 .. m
  BY <1>1, <1>3
<1> HIDE DEF m, most
<1>7. \A i \in 1 .. m : i \in 1 .. n
  BY <1>1, <1>3
<1>8. ToSet(r) = {vm \in P : Place(vm, P) <= most}
  <2>1. ToSet(r) = {l[i] : i \in 1 .. m}
    BY <1>5 DEF ToSet
  <2>2. \A i \in 1 .. n : Place(l[i], P) <= most <=> i \in 1 .. m
    BY <1>2, <1>6
  <2> QED BY <1>1, <1>7, <2>1, <2>2
<1>9. \A i \in DOMAIN r : Place(r[i], P) = i
  BY <1>2, <1>5, <1>7
<1> QED BY <1>8, <1>9 DEF r, most

(* What passes the first filters, one after another.                       *)
Sieved(l, r, V, L, n, packages) ==
    Outcome(l, r, V, {i \in 1 .. n : MayFail(L, i, V, packages)},
            {i \in 1 .. n : ~Clear(L[i], V)},
            {vm \in V : \A i \in 1 .. n : Passes(vm, L[i], V, packages)})
LEMMA SievedByNone ==
    ASSUME NEW V, NEW l \in Lists(V), NEW L, NEW packages
    PROVE  Sieved(l, l, V, L, 0, packages)
<1>1. /\ {i \in 1 .. 0 : MayFail(L, i, V, packages)} = {} /\ {i \in 1 .. 0 : ~Clear(L[i], V)} = {}
      /\ {vm \in V : \A i \in 1 .. 0 : Passes(vm, L[i], V, packages)} = V
  OBVIOUS
<1> QED BY <1>1, OutcomeOfNone DEF Sieved

(* A container that only one can be meant by is found where it is.         *)
LEMMA LoneIsFound ==
    ASSUME NEW V, Names(V), NEW word \in Text_, word # NoText, NEW P \in SUBSET V,
           NEW v \in P, Meant(word, V) = {v}
    PROVE  findContainerIdMatch(word, P) # {}
<1> DEFINE full == {vm \in P : IsFullMatch(word, vm)}
           alias == {vm \in P : IsAliasMatch(word, vm)}
           partial == {vm \in P : IsPartialMatch(word, vm)}
<1>1. findContainerIdMatch(word, P)
        = IF full # {} THEN {CHOOSE vm \in full : TRUE}
          ELSE IF Cardinality(alias) = 1 THEN alias
          ELSE IF Cardinality(partial) = 1 THEN partial ELSE {}
  BY DEF findContainerIdMatch
<1>2. \A vm \in P : vm.alias = word \/ IsPrefix(word, dockerIdFromVmObj(vm)) <=> vm = v
  <2>1. Meant(word, V) = {vm \in V : vm.alias = word \/ IsPrefix(word, dockerIdFromVmObj(vm))}
    BY DEF Meant, Names
  <2> QED BY <2>1
<1>3. alias \subseteq {v} /\ partial \subseteq {v}
  BY <1>2 DEF IsAliasMatch, IsPartialMatch
<1>4. v \in full \/ v \in alias \/ v \in partial
  BY <1>2 DEF IsFullMatch, IsAliasMatch, IsPartialMatch
<1> HIDE DEF full, alias, partial
<1>5. \A x : Cardinality({x}) = 1
  BY FS_Singleton
<1>6. v \in alias => Cardinality(alias) = 1
  <2>1. v \in alias => alias = {v}
    BY <1>3
  <2> QED BY <1>5, <2>1
<1>7. v \in partial => Cardinality(partial) = 1
  <2>1. v \in partial => partial = {v}
    BY <1>3
  <2> QED BY <1>5, <2>1
<1>8. Cardinality(alias) = 1 => alias # {}
  BY FS_EmptySet
<1> QED BY <1>1, <1>4, <1>6, <1>7, <1>8

(* One filter more.  The containers that its word could mean are looked up *)
(* in what the others left.                                                *)
LEMMA SievedByOne ==
    ASSUME NEW V, HaveTimes(V), Names(V), NEW l, l.error = "none", Ordered(l.vms, V),
           NEW k \in Lists(V), NEW L, NEW n \in Nat, NEW packages,
           Sieved(l, k, V, L, n, packages), IsFilter(L[n + 1])
    PROVE  Sieved(l, FilterField(k, L[n + 1], packages), V, L, n + 1, packages)
<1> DEFINE f == L[n + 1]
           r == FilterField(k, f, packages)
           Bad(m) == {i \in 1 .. m : MayFail(L, i, V, packages)}
           Doubtful(m) == {i \in 1 .. m : ~Clear(L[i], V)}
           All(m) == {vm \in V : \A i \in 1 .. m : Passes(vm, L[i], V, packages)}
<1>1. Outcome(l, k, V, Bad(n), Doubtful(n), All(n))
  BY DEF Sieved
<1>2. Outcome(k, r, V, Reasons(k, f), Unclear(f, V), Passing(f, V, packages))
  <2> HIDE DEF f
  <2> QED BY FieldIs DEF f
<1>3. n + 1 \in Nat /\ \A i : i \in 1 .. n + 1 <=> i \in 1 .. n \/ i = n + 1
  OBVIOUS
<1>4. All(n + 1) = All(n) \cap Passing(f, V, packages)
  BY <1>3 DEF Passing
<1>5. Doubtful(n + 1) = {} => Doubtful(n) \union Unclear(f, V) = {}
  BY <1>3 DEF Unclear
<1>6. ASSUME k.error = "none", Reasons(k, f) # {} PROVE MayFail(L, n + 1, V, packages)
  <2>1. HasReason(k, f)
    BY <1>6 DEF Reasons
  <2>2. CASE f.field = "status" /\ \E v \in ToSet(f.values) : v \notin DOMAIN StatusOf
    BY <2>2 DEF MayFail
  <2>3. CASE f.field \in {"since", "before"} /\ findContainerIdMatch(f.values[1], ToSet(k.vms)) = {}
    <3> DEFINE word == f.values[1]
               named == Meant(word, V)
    <3>1. SUFFICES ASSUME word # NoText, Cardinality(named) = 1,
                          \A j \in 1 .. n : Clear(L[j], V) /\ \A v \in named : Passes(v, L[j], V, packages)
                   PROVE  FALSE
      <4>1. (n + 1) - 1 = n
        OBVIOUS
      <4> QED BY <2>3, <3>1, <4>1 DEF MayFail
    <3>2. word \in Text_
      BY <2>3 DEF IsFilter
    <3>3. IsFiniteSet(named) /\ named \subseteq V
      <4>1. named \subseteq V
        BY DEF Meant, Names
      <4> HIDE DEF named
      <4> QED BY <4>1, FS_Subset DEF HaveTimes
    <3>4. PICK v : named = {v}
      <4> HIDE DEF named
      <4> QED BY <3>1, <3>3, OneOf
    <3>5. NarrowsTo(l, k, All(n))
      <4>1. Doubtful(n) = {}
        BY <3>1
      <4> HIDE DEF Doubtful, All, Bad
      <4> QED BY <1>1, <4>1 DEF Outcome
    <3>6. ToSet(k.vms) = V \cap All(n)
      <4> HIDE DEF All
      <4> QED BY <1>6, <3>5 DEF NarrowsTo, Ordered
    <3>7. v \in V \cap All(n)
      BY <3>1, <3>3, <3>4
    <3>8. findContainerIdMatch(word, ToSet(k.vms)) # {}
      <4> HIDE DEF All, word
      <4> QED BY <3>1, <3>2, <3>4, <3>6, <3>7, LoneIsFound
    <3> QED BY <2>3, <3>8
  <2> HIDE DEF f
  <2> QED BY <2>1, <2>2, <2>3 DEF HasReason
<1> HIDE DEF r, f
<1>7. r.error # "none" => Bad(n + 1) # {}
  <2> SUFFICES ASSUME r.error # "none" PROVE \E i \in 1 .. n + 1 : MayFail(L, i, V, packages)
    OBVIOUS
  <2>1. CASE k.error # "none"
    <3>1. Bad(n) # {}
      <4> HIDE DEF Bad
      <4> QED BY <1>1, <2>1 DEF Outcome
    <3> QED BY <1>3, <3>1
  <2>2. CASE k.error = "none"
    <3>1. Reasons(k, f) # {}
      BY <1>2, <2>2 DEF Outcome
    <3> QED BY <1>3, <1>6, <2>2, <3>1
  <2> QED BY <2>1, <2>2
<1> HIDE DEF Bad, Doubtful, All
<1>8. Outcome(l, r, V, Bad(n) \union Reasons(k, f), Doubtful(n) \union Unclear(f, V),
              All(n) \cap Passing(f, V, packages))
  BY <1>1, <1>2, OutcomeOfBoth
<1>9. Outcome(l, r, V, Bad(n + 1), Doubtful(n + 1), All(n + 1))
  BY <1>4, <1>5, <1>7, <1>8 DEF Outcome
<1> QED BY <1>9 DEF Sieved, Bad, Doubtful, All, r, f

LEMMA FiltersAre ==
    ASSUME NEW V, HaveTimes(V), Names(V), NEW l, l.error = "none", Ordered(l.vms, V),
           NEW L, NEW m \in Nat, NEW packages, NEW k \in Lists(V), Sieved(l, k, V, L, m, packages),
           NEW filters, IsList(filters),
           \A j \in 1 .. Len(filters) : L[m + j] = filters[j] /\ IsFilter(filters[j])
    PROVE  LET Filter(list, x) == FilterField(list, x, packages)
           IN Sieved(l, Through(filters, k, Filter), V, L, m + Len(filters), packages)
<1> DEFINE n == Len(filters)
           X == Lists(V)
           Filter(list, x) == FilterField(list, x, packages)
           Runs(g) == g = [i \in 0 .. n |-> IF i = 0 THEN k ELSE FilterField(g[i - 1], filters[i], packages)]
           f0 == CHOOSE g : Runs(g)
           next == [i \in 1 .. n |-> [s \in X |-> FilterField(s, filters[i], packages)]]
           inv == [i \in 0 .. n |-> {s \in X : Sieved(l, s, V, L, m + i, packages)}]
<1>1. n \in Nat /\ \A i \in 1 .. n : IsFilter(filters[i])
  BY DEF IsList
<1>2. Through(filters, k, Filter) = f0[n]
  BY DEF Through
<1>3. \A i \in 1 .. n : L[m + i] = filters[i]
  OBVIOUS
<1> HIDE DEF n, Filter
<1>4. \A s \in X, i \in 1 .. n : FilterField(s, filters[i], packages) \in X
  BY <1>1, FieldIs DEF Outcome, Follows
<1>5. next \in Steps(n, X)
  <2> HIDE DEF X
  <2> QED BY <1>4 DEF Steps
<1>6. \A s \in X, i \in 1 .. n : next[i][s] = FilterField(s, filters[i], packages)
  OBVIOUS
<1> HIDE DEF next
<1>7. PICK f \in [0 .. n -> X] : f[0] = k /\ \A i \in 1 .. n : f[i] = next[i][f[i - 1]]
  <2> HIDE DEF X
  <2>1. k \in X
    BY DEF X
  <2>2. Loops(n, X, k, next) # {}
    BY <1>1, <1>5, <2>1, LoopRuns
  <2> QED BY <2>2 DEF Loops
<1>8. \A i \in 1 .. n : i - 1 \in 0 .. n /\ f[i - 1] \in X /\ f[i] \in X
                        /\ f[i] = FilterField(f[i - 1], filters[i], packages)
  <2> HIDE DEF X
  <2> SUFFICES ASSUME NEW i \in 1 .. n
               PROVE  /\ i - 1 \in 0 .. n /\ f[i - 1] \in X /\ f[i] \in X
                      /\ f[i] = FilterField(f[i - 1], filters[i], packages)
    OBVIOUS
  <2>1. i - 1 \in 0 .. n /\ i \in 0 .. n
    BY <1>1
  <2>2. f[i - 1] \in X /\ f[i] \in X
    BY <1>7, <2>1
  <2> QED BY <1>6, <1>7, <2>1, <2>2
<1>9. Runs(f0)
  <2> HIDE DEF X
  <2>1. \A i \in 0 .. n : f[i] = IF i = 0 THEN k ELSE FilterField(f[i - 1], filters[i], packages)
    BY <1>1, <1>7, <1>8
  <2>2. Runs(f)
    BY <1>7, <2>1
  <2> HIDE DEF Runs
  <2> QED BY <2>2
<1>10. f0[0] = k /\ \A i \in 1 .. n : f0[i] = FilterField(f0[i - 1], filters[i], packages)
  <2> HIDE DEF f0, inv, X
  <2>1. f0 = [i \in 0 .. n |-> IF i = 0 THEN k ELSE FilterField(f0[i - 1], filters[i], packages)]
    BY <1>9
  <2>2. 0 \in 0 .. n /\ \A i \in 1 .. n : i \in 0 .. n /\ i # 0
    BY <1>1
  <2> HIDE DEF Runs
  <2>3. f0[0] = k
    BY <2>1, <2>2
  <2>4. \A i \in 1 .. n : f0[i] = FilterField(f0[i - 1], filters[i], packages)
    BY <2>1, <2>2
  <2> QED BY <2>3, <2>4
<1> HIDE DEF f0
<1>11. f0[0] \in inv[0]
  <2>1. m + 0 = m /\ 0 \in 0 .. n
    BY <1>1
  <2> QED BY <1>10, <2>1
<1>12. ASSUME NEW i \in 1 .. n, f0[i - 1] \in inv[i - 1] PROVE f0[i] \in inv[i]
  <2> DEFINE h == f0[i - 1]
             r == f0[i]
  <2>1. i - 1 \in 0 .. n /\ i \in 0 .. n /\ m + (i - 1) \in Nat /\ (m + (i - 1)) + 1 = m + i
    BY <1>1
  <2>2. h \in X /\ Sieved(l, h, V, L, m + (i - 1), packages)
    BY <1>12, <2>1
  <2>3. r = FilterField(h, L[m + i], packages) /\ IsFilter(L[m + i])
    BY <1>1, <1>3, <1>10
  <2>4. r \in X
    BY <1>3, <1>4, <2>2, <2>3
  <2> HIDE DEF h, r
  <2> DEFINE at == m + (i - 1)
  <2>5. at \in Nat /\ at + 1 = m + i /\ h \in Lists(V) /\ Sieved(l, h, V, L, at, packages)
    BY <2>1, <2>2
  <2> HIDE DEF at, X
  <2>6. Sieved(l, FilterField(h, L[at + 1], packages), V, L, at + 1, packages)
    BY <2>3, <2>5, SievedByOne
  <2>7. Sieved(l, r, V, L, m + i, packages)
    BY <2>3, <2>5, <2>6
  <2> QED BY <2>1, <2>4, <2>7 DEF r
<1>13. f0[n] \in inv[n]
  <2> HIDE DEF inv
  <2> QED BY <1>1, <1>11, <1>12, LoopKeeps
<1>14. n \in 0 .. n
  BY <1>1
<1>15. Sieved(l, f0[n], V, L, m + n, packages)
  <2> HIDE DEF X
  <2> QED BY <1>13, <1>14
<1> QED BY <1>2, <1>15 DEF n, Filter

(* The filters that the words of since and before are, and their places.   *)
Word(word, field) ==
    IF word = NoText THEN <<>> ELSE <<[field |-> field, values |-> <<word>>]>>
After(word) == IF word = NoText THEN 0 ELSE 1
LEMMA OneWord ==
    ASSUME NEW word \in Text_, NEW field \in {"since", "before"}
    PROVE  /\ Word(word, field) \in Seq({[field |-> field, values |-> <<word>>]})
           /\ Len(Word(word, field)) = After(word)
           /\ \A x \in ToSet(Word(word, field)) : IsFilter(x)
           /\ word # NoText => Word(word, field)[1] = [field |-> field, values |-> <<word>>]
<1>1. CASE word = NoText
  BY <1>1 DEF Word, After, ToSet
<1>2. CASE word # NoText
  <2> DEFINE f == [field |-> field, values |-> <<word>>]
  <2>1. f.field = field /\ f.values = <<word>> /\ f.values[1] = word
    OBVIOUS
  <2>2. <<word>> \in Seq(ToSet(<<word>>))
    BY DEF ToSet
  <2> HIDE DEF f
  <2>3. IsFilter(f)
    BY <2>1, <2>2 DEF IsFilter, IsList
  <2>4. Word(word, field) = <<f>>
    BY <1>2 DEF Word, f
  <2>5. <<f>> \in Seq({f}) /\ Len(<<f>>) = 1 /\ ToSet(<<f>>) = {f} /\ <<f>>[1] = f
    BY DEF ToSet
  <2> QED BY <1>2, <2>3, <2>4, <2>5 DEF After, f
<1> QED BY <1>1, <1>2

LEMMA FiltersOf ==
    ASSUME NEW q, IsListQuestion(q)
    PROVE  LET L == SinceAndBefore(q.query) \o q.query.filters
               s == After(q.query.since)
               b == After(q.query.before)
               n == Len(q.query.filters)
           IN /\ n \in Nat /\ Len(L) = s + b + n /\ L \in Seq(ToSet(L))
              /\ q.query.since # NoText => L[1] = [field |-> "since", values |-> <<q.query.since>>]
              /\ q.query.before # NoText => L[s + 1] = [field |-> "before", values |-> <<q.query.before>>]
              /\ \A i \in 1 .. n : L[s + b + i] = q.query.filters[i]
<1> DEFINE u == Word(q.query.since, "since")
           v == Word(q.query.before, "before")
           f == q.query.filters
           S == {[field |-> "since", values |-> <<q.query.since>>]}
           B == {[field |-> "before", values |-> <<q.query.before>>]}
           T == S \union B \union ToSet(f)
           s == After(q.query.since)
           b == After(q.query.before)
           n == Len(f)
           w == u \o v
           L == w \o f
<1>1. /\ u \in Seq(S) /\ v \in Seq(B) /\ f \in Seq(ToSet(f))
      /\ Len(u) = s /\ Len(v) = b
      /\ q.query.since # NoText => u[1] = [field |-> "since", values |-> <<q.query.since>>]
      /\ q.query.before # NoText => v[1] = [field |-> "before", values |-> <<q.query.before>>]
  <2>1. q.query.since \in Text_ /\ q.query.before \in Text_ /\ f \in Seq(ToSet(f))
    BY DEF IsListQuestion
  <2> HIDE DEF f
  <2> QED BY <2>1, OneWord
<1>2. SinceAndBefore(q.query) = w
  BY DEF SinceAndBefore, Word
<1>3. /\ q.query.since # NoText => s = 1
      /\ q.query.before # NoText => b = 1
      /\ s \in {0, 1} /\ b \in {0, 1}
  BY DEF After
<1> HIDE DEF s, b
<1>4. u \in Seq(T) /\ v \in Seq(T) /\ f \in Seq(T)
  <2> DEFINE F == ToSet(f)
  <2>1. S \subseteq T /\ B \subseteq T /\ F \subseteq T
    OBVIOUS
  <2> HIDE DEF S, B, T, u, v, f, F
  <2> QED BY <1>1, <2>1 DEF F
<1> HIDE DEF u, v, T, S, B
<1>5. /\ w \in Seq(T) /\ Len(w) = s + b
      /\ \A i \in 1 .. s : w[i] = u[i]
      /\ \A i \in 1 .. b : w[s + i] = v[i]
  <2>1. /\ w \in Seq(T) /\ Len(w) = Len(u) + Len(v)
        /\ \A i \in 1 .. Len(u) : w[i] = u[i]
        /\ \A i \in 1 .. Len(v) : w[Len(u) + i] = v[i]
    BY <1>4, JoinedLists
  <2>2. Len(u) = s /\ Len(v) = b
    BY <1>1
  <2> HIDE DEF w
  <2> QED BY <2>1, <2>2
<1> HIDE DEF w, f
<1>6. /\ L \in Seq(T) /\ Len(L) = s + b + n /\ n \in Nat
      /\ \A i \in 1 .. s + b : L[i] = w[i]
      /\ \A i \in 1 .. n : L[s + b + i] = f[i]
  <2>1. w \in Seq(T) /\ f \in Seq(T)
    BY <1>4, <1>5
  <2>2. /\ L \in Seq(T) /\ Len(L) = Len(w) + Len(f) /\ Len(f) \in Nat
        /\ \A i \in 1 .. Len(w) : L[i] = w[i]
        /\ \A i \in 1 .. Len(f) : L[Len(w) + i] = f[i]
    BY <2>1, JoinedLists
  <2> HIDE DEF L
  <2> QED BY <1>5, <2>2
<1> HIDE DEF L, n
<1>7. L \in Seq(ToSet(L))
  <2>1. Len(L) \in Nat /\ DOMAIN L = 1 .. Len(L) /\ L \in [1 .. Len(L) -> ToSet(L)]
    BY <1>6 DEF ToSet
  <2> QED BY <2>1
<1>8. q.query.since # NoText => L[1] = [field |-> "since", values |-> <<q.query.since>>]
  <2> SUFFICES ASSUME q.query.since # NoText PROVE L[1] = u[1]
    BY <1>1
  <2>1. s = 1 /\ 1 \in 1 .. s /\ 1 \in 1 .. s + b
    BY <1>3
  <2> QED BY <1>5, <1>6, <2>1
<1>9. q.query.before # NoText => L[s + 1] = [field |-> "before", values |-> <<q.query.before>>]
  <2> SUFFICES ASSUME q.query.before # NoText PROVE L[s + 1] = v[1]
    BY <1>1
  <2>1. b = 1 /\ 1 \in 1 .. b /\ s + 1 \in 1 .. s + b
    BY <1>3
  <2> QED BY <1>5, <1>6, <2>1
<1> QED BY <1>2, <1>6, <1>7, <1>8, <1>9 DEF L, n, s, b, f

(* The list after the words of since and before.                           *)
LEMMA WordSieves ==
    ASSUME NEW V, HaveTimes(V), Names(V), NEW l, l.error = "none", Ordered(l.vms, V),
           NEW k \in Lists(V), NEW L, NEW n \in Nat, NEW packages, Sieved(l, k, V, L, n, packages),
           NEW word \in Text_, NEW field \in {"since", "before"},
           word # NoText => L[n + 1] = [field |-> field, values |-> <<word>>]
    PROVE  Sieved(l, IF word = NoText THEN k ELSE Slice(k, word, field = "since"), V, L,
                  n + After(word), packages)
<1>1. CASE word = NoText
  <2>1. n + After(word) = n
    BY <1>1 DEF After
  <2> QED BY <1>1, <2>1
<1>2. CASE word # NoText
  <2> DEFINE f == L[n + 1]
  <2>1. f = [field |-> field, values |-> <<word>>] /\ IsFilter(f)
    <3>1. Word(word, field)[1] = f /\ Len(Word(word, field)) = 1
      BY <1>2, OneWord DEF After
    <3>2. f \in ToSet(Word(word, field))
      <4>1. 1 \in DOMAIN Word(word, field)
        BY <1>2 DEF Word
      <4> HIDE DEF f
      <4> QED BY <3>1, <4>1 DEF ToSet
    <3> QED BY <1>2, <3>2, OneWord
  <2>2. f.field = field /\ f.values[1] = word
    BY <2>1
  <2> HIDE DEF f
  <2>3. FilterField(k, f, packages) = Slice(k, word, field = "since")
    <3>1. CASE field = "since"
      BY <2>2, <3>1 DEF FilterField
    <3>2. CASE field = "before"
      BY <2>2, <3>2 DEF FilterField
    <3> QED BY <3>1, <3>2
  <2>4. Sieved(l, FilterField(k, L[n + 1], packages), V, L, n + 1, packages)
    BY <2>1, SievedByOne DEF f
  <2>5. After(word) = 1
    BY <1>2 DEF After
  <2> QED BY <1>2, <2>3, <2>4, <2>5 DEF f
<1> QED BY <1>1, <1>2

(* A list with an error stays so.                                          *)
LEMMA SievedStays ==
    ASSUME NEW V, NEW l, l.error = "none", NEW k, NEW L, NEW n \in Nat, NEW m \in Nat, NEW packages,
           Sieved(l, k, V, L, n, packages), k.error # "none"
    PROVE  /\ Sieved(l, k, V, L, n + m, packages)
           /\ \E i \in 1 .. n : MayFail(L, i, V, packages)
<1> DEFINE Bad(j) == {i \in 1 .. j : MayFail(L, i, V, packages)}
<1>1. Follows(l, k, V) /\ Bad(n) # {}
  <2> DEFINE b == Bad(n)
  <2>1. Follows(l, k, V) /\ b # {}
    <3> HIDE DEF b
    <3> QED BY DEF Sieved, Outcome, b
  <2> QED BY <2>1
<1>2. Bad(n + m) # {}
  <2>1. \A i \in 1 .. n : i \in 1 .. n + m
    OBVIOUS
  <2> QED BY <1>1, <2>1
<1>3. \E i \in 1 .. n : MayFail(L, i, V, packages)
  BY <1>1
<1>4. Sieved(l, k, V, L, n + m, packages)
  <2> DEFINE b == Bad(n + m)
             u == {i \in 1 .. n + m : ~Clear(L[i], V)}
             p == {vm \in V : \A i \in 1 .. n + m : Passes(vm, L[i], V, packages)}
  <2>1. b # {}
    BY <1>2
  <2> HIDE DEF b, u, p
  <2>2. Outcome(l, k, V, b, u, p)
    BY <1>1, <2>1 DEF Outcome, NarrowsTo
  <2> QED BY <2>2 DEF Sieved, b, u, p
<1> QED BY <1>3, <1>4

LEMMA ListMeant ==
    ASSUME NEW q, IsListQuestion(q)
    PROVE  ListAsAsked(q, getContainers(q.query, q.vms, q.packages))
<1> DEFINE V == Listed(q.vms, AsksAll(q.query))
           packages == q.packages
           F == ToSet(q.query.filters)
           L == SinceAndBefore(q.query) \o q.query.filters
           s == After(q.query.since)
           b == After(q.query.before)
           n == Len(q.query.filters)
           N == s + b + n
           a == getContainers(q.query, q.vms, packages)
           newest == List(NewestFirst(V), "none")
           since == IF q.query.since = NoText THEN newest ELSE Slice(newest, q.query.since, TRUE)
           before == IF q.query.before = NoText \/ since.error # "none" THEN since
                     ELSE Slice(since, q.query.before, FALSE)
           Filter(l, x) == FilterField(l, x, packages)
           filtered == Through(q.query.filters, before, Filter)
           limit == q.query.limit
           limited == IF limit = 0 THEN filtered.vms ELSE Head_(filtered.vms, limit)
           P == {vm \in V : \A i \in 1 .. N : Passes(vm, L[i], V, packages)}
           most == IF limit = 0 THEN Cardinality(P) ELSE limit
           IsBad == \E f \in F : IsBadPackageFilter(f)
           Fails == \E i \in 1 .. N : MayFail(L, i, V, packages)
           AllClear == \A i \in 1 .. N : Clear(L[i], V)
<1> SUFFICES ListAsAsked(q, a)
  OBVIOUS
<1>1. /\ V \subseteq q.vms /\ HaveTimes(V) /\ Names(V) /\ limit \in Nat
      /\ q.query.since \in Text_ /\ q.query.before \in Text_
      /\ IsList(q.query.filters) /\ \A f \in F : IsFilter(f)
  <2>1. V \subseteq q.vms /\ Standing(V) = V
    BY DEF Listed, Standing
  <2>2. IsFiniteSet(q.vms) /\ \A x, y \in q.vms : x.created \in Nat /\ (x.created = y.created => x = y)
    BY DEF IsListQuestion
  <2>3. \A vm \in q.vms : dockerIdFromVmObj(vm) \in Text_
    BY DEF IsListQuestion
  <2>4. /\ q.query.since \in Text_ /\ q.query.before \in Text_ /\ limit \in Nat
        /\ IsList(q.query.filters) /\ \A f \in F : IsFilter(f)
    BY DEF IsListQuestion, IsList, IsFilter
  <2> HIDE DEF V, F
  <2>5. IsFiniteSet(V)
    BY <2>1, <2>2, FS_Subset
  <2>6. HaveTimes(V) /\ Names(V)
    BY <2>1, <2>2, <2>3, <2>5 DEF HaveTimes, Names
  <2> QED BY <2>1, <2>4, <2>6
<1>2. a = CASE V = {} -> newest
            [] V # {} /\ before.error # "none" -> List(<<>>, before.error)
            [] V # {} /\ before.error = "none" /\ IsBad ->
                  List(<<>>, "invalid value for the package label")
            [] V # {} /\ before.error = "none" /\ packages = <<>>
                  /\ \A f \in F : ~IsBadPackageFilter(f) ->
                  List(<<>>, "no packages available to this user")
            [] OTHER -> IF filtered.error # "none" THEN List(<<>>, filtered.error)
                        ELSE List(limited, "none")
  <2>1. listDockerVms(q.vms, AsksAll(q.query), NoText) = V
    BY DEF listDockerVms
  <2> QED BY <2>1 DEF getContainers
<1>3. /\ n \in Nat /\ s \in Nat /\ b \in Nat /\ Len(L) = N /\ L \in Seq(ToSet(L))
      /\ q.query.since # NoText => L[0 + 1] = [field |-> "since", values |-> <<q.query.since>>]
      /\ q.query.before # NoText => L[s + 1] = [field |-> "before", values |-> <<q.query.before>>]
      /\ \A i \in 1 .. n : L[s + b + i] = q.query.filters[i]
      /\ F = {q.query.filters[i] : i \in 1 .. n}
  <2>1. s \in Nat /\ b \in Nat /\ 0 + 1 = 1
    BY DEF After
  <2>2. F = {q.query.filters[i] : i \in 1 .. n}
    BY <1>1 DEF IsList, ToSet
  <2> HIDE DEF L, s, b, n
  <2> QED BY <2>1, <2>2, FiltersOf DEF L, s, b, n
<1> HIDE DEF L, s, b, n
<1>4. DOMAIN L = 1 .. N /\ ToSet(L) = {L[i] : i \in 1 .. N}
  BY <1>3 DEF ToSet
<1> HIDE DEF N
<1>5. /\ a.error = "none" /\ AllClear =>
            /\ ToSet(a.vms) = {vm \in P : Place(vm, P) <= most}
            /\ \A i \in DOMAIN a.vms : Place(a.vms[i], P) = i
      /\ a.error # "none" => V # {} /\ (packages = <<>> \/ Fails)
      => ListAsAsked(q, a)
  <2>1. P = {vm \in V : \A f \in ToSet(L) : Passes(vm, f, V, packages)}
    BY <1>4
  <2>2. AllClear <=> \A f \in ToSet(L) : Clear(f, V)
    BY <1>4
  <2>3. Fails <=> \E i \in DOMAIN L : MayFail(L, i, V, packages)
    BY <1>4
  <2> HIDE DEF a, AllClear, Fails, P
  <2> QED BY <2>1, <2>2, <2>3 DEF ListAsAsked, Place, L
<1> HIDE DEF V, packages, a, Filter
<1>6. newest \in Lists(V) /\ Ordered(newest.vms, V) /\ newest.error = "none"
  <2>1. Ordered(NewestFirst(V), V)
    BY <1>1, NewestIs
  <2> QED BY <2>1 DEF List, Lists, Ordered
<1> HIDE DEF newest
<1>7. Sieved(newest, since, V, L, s, packages) /\ since \in Lists(V)
  <2>1. Sieved(newest, newest, V, L, 0, packages)
    BY <1>6, SievedByNone
  <2>2. Sieved(newest, IF q.query.since = NoText THEN newest
                       ELSE Slice(newest, q.query.since, "since" = "since"), V, L,
               0 + After(q.query.since), packages)
    BY <1>1, <1>3, <1>6, <2>1, WordSieves
  <2>3. 0 + After(q.query.since) = s
    BY <1>3 DEF s
  <2>4. Sieved(newest, since, V, L, s, packages)
    BY <2>2, <2>3
  <2> HIDE DEF since
  <2> QED BY <2>4 DEF Sieved, Outcome, Follows
<1> HIDE DEF since
<1>8. Sieved(newest, before, V, L, s + b, packages) /\ before \in Lists(V)
  <2>1. CASE since.error # "none"
    <3>1. before = since
      BY <2>1
    <3>2. Sieved(newest, since, V, L, s + b, packages)
      BY <1>3, <1>6, <1>7, <2>1, SievedStays
    <3> HIDE DEF before
    <3> QED BY <1>7, <3>1, <3>2
  <2>2. CASE since.error = "none"
    <3>1. Sieved(newest, IF q.query.before = NoText THEN since
                         ELSE Slice(since, q.query.before, "before" = "since"), V, L,
                 s + After(q.query.before), packages)
      BY <1>1, <1>3, <1>6, <1>7, WordSieves
    <3>2. ("before" = "since") = FALSE
      OBVIOUS
    <3>3. Sieved(newest, before, V, L, s + b, packages)
      BY <2>2, <3>1, <3>2 DEF b
    <3> HIDE DEF before
    <3> QED BY <3>3 DEF Sieved, Outcome, Follows
  <2> QED BY <2>1, <2>2
<1> HIDE DEF before
<1>9. Sieved(newest, filtered, V, L, N, packages)
  <2> DEFINE m == s + b
             filters == q.query.filters
  <2>1. m \in Nat /\ Sieved(newest, before, V, L, m, packages)
    BY <1>3, <1>8
  <2>2. \A j \in 1 .. Len(filters) : L[m + j] = filters[j] /\ IsFilter(filters[j])
    BY <1>1, <1>3 DEF n
  <2>3. IsList(filters) /\ m + Len(filters) = N
    BY <1>1 DEF n, N
  <2> HIDE DEF m
  <2>4. Sieved(newest, Through(filters, before, Filter), V, L, m + Len(filters), packages)
    <3> HIDE DEF filters
    <3> QED BY <1>1, <1>6, <1>8, <2>1, <2>2, <2>3, FiltersAre DEF Filter
  <2> QED BY <2>3, <2>4
<1> HIDE DEF filtered, F
<1>10. CASE V = {}
  <2>1. a = newest
    BY <1>2, <1>10
  <2>2. ToSet(a.vms) = {} /\ DOMAIN a.vms = {}
    <3>1. Ordered(a.vms, {})
      BY <1>6, <1>10, <2>1
    <3> QED BY <3>1 DEF Ordered, ToSet
  <2>3. P = {}
    BY <1>10
  <2> QED BY <1>5, <1>6, <2>1, <2>2, <2>3
<1>11. CASE V # {} /\ before.error # "none"
  <2>1. a = List(<<>>, before.error)
    BY <1>2, <1>11
  <2>2. Fails
    <3> DEFINE m == s + b
    <3>1. m \in Nat /\ Sieved(newest, before, V, L, m, packages) /\ \A i \in 1 .. m : i \in 1 .. N
      BY <1>3, <1>8 DEF N
    <3> HIDE DEF m
    <3>2. PICK i \in 1 .. m : MayFail(L, i, V, packages)
      BY <1>6, <1>11, <3>1, SievedStays
    <3> QED BY <3>1, <3>2
  <2>3. a.error # "none"
    BY <1>11, <2>1 DEF List
  <2> HIDE DEF P, Fails
  <2> QED BY <1>5, <1>11, <2>2, <2>3
<1>12. CASE V # {} /\ before.error = "none" /\ IsBad
  <2>1. a = List(<<>>, "invalid value for the package label")
    BY <1>2, <1>12
  <2>2. Fails
    <3>1. PICK i \in 1 .. n : IsBadPackageFilter(q.query.filters[i])
      BY <1>3, <1>12
    <3>2. s + b + i \in 1 .. N
      BY <1>3 DEF N
    <3>3. MayFail(L, s + b + i, V, packages)
      BY <1>3, <3>1 DEF MayFail
    <3> QED BY <3>2, <3>3
  <2>3. a.error # "none"
    BY <2>1 DEF List
  <2> HIDE DEF P, Fails
  <2> QED BY <1>5, <1>12, <2>2, <2>3
<1>13. CASE V # {} /\ before.error = "none" /\ ~IsBad /\ packages = <<>>
  <2>1. a = List(<<>>, "no packages available to this user")
    BY <1>2, <1>13
  <2>2. a.error # "none"
    BY <2>1 DEF List
  <2> HIDE DEF P, Fails
  <2> QED BY <1>5, <1>13, <2>2
<1>14. CASE V # {} /\ before.error = "none" /\ ~IsBad /\ packages # <<>>
  <2>1. a = IF filtered.error # "none" THEN List(<<>>, filtered.error) ELSE List(limited, "none")
    BY <1>2, <1>14
  <2>2. CASE filtered.error # "none"
    <3>1. N \in Nat
      BY <1>3 DEF N
    <3>2. Fails
      BY <1>6, <1>9, <2>2, <3>1, SievedStays
    <3>3. a.error # "none"
      BY <2>1, <2>2 DEF List
    <3> HIDE DEF P, Fails
    <3> QED BY <1>5, <1>14, <3>2, <3>3
  <2>3. CASE filtered.error = "none"
    <3>1. a.error = "none" /\ a.vms = limited
      BY <2>1, <2>3 DEF List
    <3>2. ASSUME AllClear
          PROVE  /\ ToSet(limited) = {vm \in P : Place(vm, P) <= most}
                 /\ \A i \in DOMAIN limited : Place(limited[i], P) = i
      <4> DEFINE u == {i \in 1 .. N : ~Clear(L[i], V)}
      <4>1. u = {}
        BY <3>2
      <4>2. P \in SUBSET V /\ V \cap P = P
        OBVIOUS
      <4>3. NarrowsTo(newest, filtered, P)
        <5>1. u = {} => NarrowsTo(newest, filtered, P)
          <6> HIDE DEF u, P
          <6> QED BY <1>9 DEF Sieved, Outcome, u, P
        <5> QED BY <4>1, <5>1
      <4> HIDE DEF P
      <4>4. Ordered(filtered.vms, P)
        BY <1>6, <2>3, <4>2, <4>3 DEF NarrowsTo
      <4> QED BY <1>1, <4>2, <4>4, LimitIs
    <3> HIDE DEF P, Fails, AllClear
    <3> QED BY <1>5, <3>1, <3>2
  <2> QED BY <2>2, <2>3
<1> HIDE DEF P, IsBad
<1> QED BY <1>10, <1>11, <1>12, <1>13, <1>14

-----------------------------------------------------------------------------
(* What is asked stays, and what is answered compares well with it.        *)
AsksRightly ==
    /\ about = "command" => asked \in CommandQuestions
    /\ about = "tags" => asked \in TagQuestions
    /\ about = "version" => asked \in VersionQuestions
    /\ about = "affinity" => asked \in AffinityQuestions
    /\ about = "package" => asked \in PackageQuestions
    /\ about = "ports" => asked \in PortQuestions
    /\ about = "mounts" => asked \in MountQuestions
    /\ about = "shown" => asked \in ShownQuestions
    /\ about = "checked" => asked \in CheckQuestions
    /\ about = "container" => asked \in ContainerQuestions
    /\ about = "list" => asked \in ListQuestions
    /\ about = "network" => asked \in NetworkQuestions
    /\ about = "nics" => asked \in NicQuestions
    /\ about = "networks" => asked \in NetworkListQuestions
AnswersInv == AsksRightly /\ AnswersAsAsked /\ PayloadAsAsked

LEMMA AnswersInit == Init => AnswersInv
<1> SUFFICES ASSUME Init PROVE AnswersInv
  OBVIOUS
<1>1. answer = <<>>
  BY DEF Init
<1>2. AsksRightly
  BY DEF Init, Ask, AsksRightly
<1> QED BY <1>1, <1>2 DEF AnswersInv, AnswersAsAsked, RequestsAsAsked, LookupsAsAsked,
                          PayloadAsAsked, Says

(* An answer about one thing says nothing about another.                   *)
LEMMA AnswerSays ==
    ASSUME NEW what, NEW value, Answer(what, value), AsksRightly,
           what = "command" => CommandAsAsked(asked, value),
           what = "tags" => TagsAsAsked(asked, value),
           what = "version" => VersionAsAsked(asked, value),
           what = "affinity" => AffinityAsAsked(asked, value),
           what = "package" => PackageAsAsked(asked, value),
           what = "ports" => PortsAsAsked(asked, value),
           what = "mounts" => MountsAsAsked(asked, value),
           what = "shown" => ShownAsAsked(asked, value),
           what = "checked" => CheckedAsAsked(asked, value),
           what = "container" => ContainerAsAsked(asked, value),
           what = "list" => ListAsAsked(asked, value),
           what = "network" => NetworkAsAsked(asked, value),
           what = "nics" => NicsAsAsked(asked, value),
           what = "networks" => NetworksAsAsked(asked, value)
    PROVE  AnswersInv'
<1>1. about = what /\ answer' = <<value>> /\ about' = about /\ asked' = asked
  BY DEF Answer
<1>2. answer'[1] = value
  BY <1>1
<1>3. AsksRightly'
  BY <1>1 DEF AsksRightly
<1>4. RequestsAsAsked'
  BY <1>1, <1>2 DEF Says, RequestsAsAsked
<1>5. LookupsAsAsked'
  BY <1>1, <1>2 DEF Says, LookupsAsAsked
<1>6. PayloadAsAsked'
  BY <1>1, <1>2 DEF Says, PayloadAsAsked
<1> QED BY <1>3, <1>4, <1>5, <1>6 DEF AnswersInv, AnswersAsAsked

LEMMA AnswersStep == AnswersInv /\ [Next]_vars => AnswersInv'
<1> SUFFICES ASSUME AnswersInv, [Next]_vars PROVE AnswersInv'
  OBVIOUS
<1>1. AsksRightly
  BY DEF AnswersInv
<1>2. CASE Ports
  <2> DEFINE value == addPublishFirewallRules(asked.container, asked.image, asked.version)
  <2>1. Answer("ports", value)
    BY <1>2 DEF Ports
  <2>2. asked \in PortQuestions
    BY <1>1, <2>1 DEF AsksRightly, Answer
  <2>3. PortsAsAsked(asked, value)
    BY <2>2, RequestAssumption, PortsMeant
  <2> HIDE DEF value
  <2> QED BY <1>1, <2>1, <2>3, AnswerSays
<1>3. CASE Mounting
  <2> DEFINE value == mountsOf(asked.container, asked.image, asked.config)
  <2>1. Answer("mounts", value)
    BY <1>3 DEF Mounting
  <2>2. asked \in MountQuestions
    BY <1>1, <2>1 DEF AsksRightly, Answer
  <2>3. MountsAsAsked(asked, value)
    BY <2>2, RequestAssumption, MountsMeant
  <2> HIDE DEF value
  <2> QED BY <1>1, <2>1, <2>3, AnswerSays
<1>4. CASE Affinity
  <2> DEFINE value == affinitiesFromContainer(asked.container)
  <2>1. Answer("affinity", value)
    BY <1>4 DEF Affinity
  <2>2. asked \in AffinityQuestions
    BY <1>1, <2>1 DEF AsksRightly, Answer
  <2>3. AffinityAsAsked(asked, value)
    BY <2>2, AffinityMeant
  <2> HIDE DEF value
  <2> QED BY <1>1, <2>1, <2>3, AnswerSays
<1>5. CASE Package
  <2> DEFINE value == getPackage(asked.container, asked.papi, asked.config)
  <2>1. Answer("package", value)
    BY <1>5 DEF Package
  <2>2. asked \in PackageQuestions
    BY <1>1, <2>1 DEF AsksRightly, Answer
  <2>3. PackageAsAsked(asked, value)
    BY <2>2, PackageMeant
  <2> HIDE DEF value
  <2> QED BY <1>1, <2>1, <2>3, AnswerSays
<1>6. CASE ListContainers
  <2> DEFINE value == getContainers(asked.query, asked.vms, asked.packages)
  <2>1. Answer("list", value)
    BY <1>6 DEF ListContainers
  <2>2. asked \in ListQuestions
    BY <1>1, <2>1 DEF AsksRightly, Answer
  <2>3. ListAsAsked(asked, value)
    BY <2>2, LookupAssumption, ListMeant
  <2> HIDE DEF value
  <2> QED BY <1>1, <2>1, <2>3, AnswerSays
<1>7. CASE Shown
  <2> DEFINE payload == buildVmPayload(asked.container, asked.image, asked.config)
             value == [error |-> payload.error,
                       shown |-> IF payload.error = "none" THEN ShowsOf(payload, asked.now)
                                 ELSE Absent]
  <2>1. Answer("shown", value)
    BY <1>7 DEF Shown
  <2>2. asked \in ShownQuestions
    BY <1>1, <2>1 DEF AsksRightly, Answer
  <2>3. ShownAsAsked(asked, value)
    BY <2>2, RequestAssumption, ShownMeant
  <2> HIDE DEF value
  <2> QED BY <1>1, <2>1, <2>3, AnswerSays
<1>8. CASE Command
  <2> DEFINE value == commandOf(asked.container, asked.image)
  <2>1. Answer("command", value)
    BY <1>8 DEF Command
  <2>2. asked \in CommandQuestions
    BY <1>1, <2>1 DEF AsksRightly, Answer
  <2>3. CommandAsAsked(asked, value)
    BY <2>2, RequestAssumption, CommandMeant
  <2> HIDE DEF value
  <2> QED BY <1>1, <2>1, <2>3, AnswerSays
<1>9. CASE Tagging
  <2> DEFINE value == vmTagsFromLabels(asked.container, asked.image)
  <2>1. Answer("tags", value)
    BY <1>9 DEF Tagging
  <2>2. asked \in TagQuestions
    BY <1>1, <2>1 DEF AsksRightly, Answer
  <2>3. TagsAsAsked(asked, value)
    BY <2>2, RequestAssumption, TagsMeant
  <2> HIDE DEF value
  <2> QED BY <1>1, <2>1, <2>3, AnswerSays
<1>10. CASE Version
  <2> DEFINE value == reqClientApiVersion(asked)
  <2>1. Answer("version", value)
    BY <1>10 DEF Version
  <2>2. asked \in VersionQuestions
    BY <1>1, <2>1 DEF AsksRightly, Answer
  <2>3. VersionAsAsked(asked, value)
    BY <2>2, VersionMeant
  <2> HIDE DEF value
  <2> QED BY <1>1, <2>1, <2>3, AnswerSays
<1>11. CASE Checked
  <2> DEFINE value == [error |-> validateCreateContainer(asked.container, asked.config),
                       log |-> logConfigOf(asked.container),
                       binds |-> [i \in DOMAIN asked.container.binds |->
                                     getVolumeInfoFromBindString(asked.container.binds[i])]]
  <2>1. Answer("checked", value)
    BY <1>11 DEF Checked
  <2>2. asked \in CheckQuestions
    BY <1>1, <2>1 DEF AsksRightly, Answer
  <2>3. CheckedAsAsked(asked, value)
    BY <2>2, CheckedMeant
  <2> HIDE DEF value
  <2> QED BY <1>1, <2>1, <2>3, AnswerSays
<1>12. CASE Container
  <2> DEFINE value == getVmById(asked.id, asked.vms)
  <2>1. Answer("container", value)
    BY <1>12 DEF Container
  <2>2. asked \in ContainerQuestions
    BY <1>1, <2>1 DEF AsksRightly, Answer
  <2>3. ContainerAsAsked(asked, value)
    BY <2>2, ContainerFound
  <2> HIDE DEF value
  <2> QED BY <1>1, <2>1, <2>3, AnswerSays
<1>13. CASE Network
  <2> DEFINE value == findNetworkOrPoolByNameOrId(asked.name, asked.napi, asked.account)
  <2>1. Answer("network", value)
    BY <1>13 DEF Network
  <2>2. asked \in NetworkQuestions
    BY <1>1, <2>1 DEF AsksRightly, Answer
  <2>3. NetworkAsAsked(asked, value)
    BY <2>2, NetworkFound
  <2> HIDE DEF value
  <2> QED BY <1>1, <2>1, <2>3, AnswerSays
<1>14. CASE Nics
  <2> DEFINE value == addNetworksToContainerPayload(
                          asked.container, asked.config, asked.napi, asked.account)
  <2>1. Answer("nics", value)
    BY <1>14 DEF Nics
  <2>2. asked \in NicQuestions
    BY <1>1, <2>1 DEF AsksRightly, Answer
  <2>3. NicsAsAsked(asked, value)
    BY <2>2, NicsFound
  <2> HIDE DEF value
  <2> QED BY <1>1, <2>1, <2>3, AnswerSays
<1>15. CASE ListNetworks
  <2> DEFINE value == listNetworksForAccount(asked.napi, asked.account)
  <2>1. Answer("networks", value)
    BY <1>15 DEF ListNetworks
  <2>2. asked \in NetworkListQuestions
    BY <1>1, <2>1 DEF AsksRightly, Answer
  <2>3. NetworksAsAsked(asked, value)
    BY <2>2, NetworksListed
  <2> HIDE DEF value
  <2> QED BY <1>1, <2>1, <2>3, AnswerSays
<1>16. CASE UNCHANGED vars
  <2>1. about' = about /\ asked' = asked /\ answer' = answer
    BY <1>16 DEF vars
  <2>2. AsksRightly'
    BY <1>1, <2>1 DEF AsksRightly
  <2>3. AnswersAsAsked'
    BY <2>1 DEF AnswersInv, AnswersAsAsked, RequestsAsAsked, LookupsAsAsked, Says
  <2>4. PayloadAsAsked'
    BY <2>1 DEF AnswersInv, PayloadAsAsked, Says
  <2> QED BY <2>2, <2>3, <2>4 DEF AnswersInv
<1> QED BY <1>2, <1>3, <1>4, <1>5, <1>6, <1>7, <1>8, <1>9, <1>10, <1>11, <1>12, <1>13,
           <1>14, <1>15, <1>16 DEF Next

(***************************************************************************)
(* A request is taken as it was written or refused: the command, the tags, *)
(* the affinity hints and the package (addImageData, vmTagsFromLabels,     *)
(* affinitiesFromContainer, getPackage), a version whose minor has two     *)
(* digits (reqClientApiVersion), and what the checks let through           *)
(* (validateCreateContainer).  A container or a network that is found is   *)
(* the one the word means, and none is guessed (getVmById,                 *)
(* findNetworkOrPoolByNameOrId); a container gets the networks of its      *)
(* account, one of them primary (addNetworksToContainerPayload); the       *)
(* networks that are listed are those it may use, and each is found again  *)
(* by its id (listNetworksForAccount).                                     *)
(***************************************************************************)
THEOREM AnswersAreAsAsked == Spec => []AnswersAsAsked
<1>1. Init => AnswersInv
  BY AnswersInit
<1>2. AnswersInv /\ [Next]_vars => AnswersInv'
  BY AnswersStep
<1>3. AnswersInv => AnswersAsAsked
  BY DEF AnswersInv
<1> QED BY <1>1, <1>2, <1>3, PTL DEF Spec

(***************************************************************************)
(* Whatever is asked for, the ports that are published are those of the    *)
(* firewall rules, in the fewest ranges and in rules of bounded size       *)
(* (addPublishFirewallRules, compressPorts); every directory is mounted,   *)
(* once (handleVolumesFrom, handleSharedVolumes, handleVolumes,            *)
(* addImageData); docker ps and docker inspect show what was asked         *)
(* (buildVmPayload, containerForVmObj, vmobjToInspect).  A list holds just *)
(* the containers that pass its filters, the newest first, when each       *)
(* filter asks for one status or one container, and fails only for a       *)
(* reason that the request or what its earlier filters left gives it       *)
(* (getContainers).                                                        *)
(***************************************************************************)
THEOREM PayloadIsAsAsked == Spec => []PayloadAsAsked
<1>1. Init => AnswersInv
  BY AnswersInit
<1>2. AnswersInv /\ [Next]_vars => AnswersInv'
  BY AnswersStep
<1>3. AnswersInv => PayloadAsAsked
  BY DEF AnswersInv
<1> QED BY <1>1, <1>2, <1>3, PTL DEF Spec
=============================================================================
