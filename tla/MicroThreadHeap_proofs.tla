----------------------- MODULE MicroThreadHeap_proofs -----------------------
(***************************************************************************)
(* Proofs about the heap that keeps the sleeping micro threads, for any    *)
(* number of threads and any HeapValue: HeapPush and HeapDelete lose no    *)
(* entry and every entry knows its place; HeapPush keeps the order, and    *)
(* HeapDelete does where the entry it moves is not smaller than its new    *)
(* parent.                                                                 *)
(***************************************************************************)
EXTENDS MicroThread, FiniteSetTheorems, SequenceTheorems, NaturalsInduction,
        WellFoundedInduction, TLAPS

-----------------------------------------------------------------------------
(***************************************************************************)
(* Loops.                                                                  *)
(***************************************************************************)
\* A set of numbers has a least element.
LEMMA LeastNat == ASSUME NEW S \in SUBSET Nat, S # {} PROVE \E i \in S : \A j \in S : i <= j
<1> DEFINE R == OpToRel(<, Nat)
<1>1. IsWellFoundedOn(R, Nat)  BY NatLessThanWellFounded
<1>2. PICK i \in S : \A j \in S : ~(<<j, i>> \in R)  BY <1>1, WFMin, Zenon
<1>3. ASSUME NEW j \in S PROVE i <= j
  <2>1. j < i => <<j, i>> \in R  BY DEF OpToRel
  <2>2. ~(j < i)  BY <1>2, <2>1
  <2> QED  BY <2>2
<1> QED  BY <1>3

\* The first n rounds of a loop.
Rounds(round, s, n, f) == f = [k \in 0 .. n |-> IF k = 0 THEN s ELSE round[f[k - 1]]]

\* They exist ...
LEMMA RoundsExist ==
    ASSUME NEW round, NEW s, NEW n \in Nat PROVE \E f : Rounds(round, s, n, f)
<1> DEFINE S == {m \in Nat : ~ \E f : Rounds(round, s, m, f)}
<1> SUFFICES ASSUME S # {} PROVE FALSE  OBVIOUS
<1>1. PICK m \in S : \A j \in S : m <= j  BY LeastNat
<1>2. CASE m = 0
  <2> DEFINE f == [k \in 0 .. 0 |-> s]
  <2>1. f = [k \in 0 .. 0 |-> IF k = 0 THEN s ELSE round[f[k - 1]]]  OBVIOUS
  <2> QED  BY <1>1, <1>2, <2>1 DEF Rounds
<1>3. CASE m # 0
  <2>1. m \in Nat /\ m - 1 \in Nat /\ ~(m <= m - 1)  BY <1>1, <1>3
  <2>2. m - 1 \notin S  BY <1>1, <2>1
  <2>3. PICK f : Rounds(round, s, m - 1, f)  BY <2>1, <2>2
  <2> DEFINE g == [k \in 0 .. m |-> IF k = m THEN round[f[m - 1]] ELSE f[k]]
  <2>4. ASSUME NEW k \in 0 .. m PROVE g[k] = IF k = 0 THEN s ELSE round[g[k - 1]]
    <3>1. CASE k = m
      <4>1. g[k] = round[f[m - 1]] /\ m - 1 \in 0 .. m /\ m - 1 # m /\ k # 0  BY <1>3, <2>1, <3>1
      <4> QED  BY <3>1, <4>1
    <3>2. CASE k # m
      <4>1. k \in 0 .. m - 1 /\ g[k] = f[k]  BY <2>1, <3>2
      <4>2. f[k] = IF k = 0 THEN s ELSE round[f[k - 1]]  BY <2>3, <4>1 DEF Rounds
      <4>3. k # 0 => k - 1 \in 0 .. m /\ k - 1 # m  BY <2>1, <4>1
      <4> QED  BY <4>1, <4>2, <4>3
    <3> QED  BY <3>1, <3>2
  <2>5. g = [k \in 0 .. m |-> IF k = 0 THEN s ELSE round[g[k - 1]]]
    <3>1. g = [k \in 0 .. m |-> g[k]]  OBVIOUS
    <3> HIDE DEF g
    <3> QED  BY <2>4, <3>1
  <2> QED  BY <1>1, <2>5 DEF Rounds
<1> QED  BY <1>2, <1>3

\* ... and longer runs agree with shorter ones.
LEMMA RoundsAgree ==
    ASSUME NEW round, NEW s, NEW m \in Nat, NEW n \in Nat, m <= n, NEW f, NEW g,
           Rounds(round, s, m, f), Rounds(round, s, n, g)
    PROVE  \A k \in 0 .. m : f[k] = g[k]
<1> DEFINE S == {k \in 0 .. m : f[k] # g[k]}
<1> SUFFICES ASSUME S # {} PROVE FALSE  OBVIOUS
<1>1. PICK k \in S : \A j \in S : k <= j
  <2>1. S \in SUBSET Nat  OBVIOUS
  <2> HIDE DEF S
  <2> QED  BY <2>1, LeastNat
<1>2. k \in 0 .. m /\ k \in 0 .. n /\ f[k] # g[k]  BY <1>1
<1>3. /\ f[k] = IF k = 0 THEN s ELSE round[f[k - 1]]
      /\ g[k] = IF k = 0 THEN s ELSE round[g[k - 1]]
  BY <1>2 DEF Rounds
<1>4. k # 0 /\ k - 1 \in 0 .. m /\ ~(k <= k - 1)  BY <1>2, <1>3
<1>5. k - 1 \notin S  BY <1>1, <1>4
<1> QED  BY <1>2, <1>3, <1>4, <1>5

\* The loop is what its rounds say.
LEMMA IterateIs ==
    ASSUME NEW round, NEW s, NEW n \in Nat
    PROVE  \E g : /\ \A k \in Nat : g[k] = IF k = 0 THEN s ELSE round[g[k - 1]]
                 /\ Iterate(round, s, n) = g[n]
<1> DEFINE F(f) == f = [k \in Nat |-> IF k = 0 THEN s ELSE round[f[k - 1]]]
<1>1. PICK R : \A k \in Nat : Rounds(round, s, k, R[k])
  <2> DEFINE Q == [k \in Nat |-> CHOOSE f : Rounds(round, s, k, f)]
  <2>1. \A k \in Nat : Rounds(round, s, k, Q[k])  BY RoundsExist
  <2> QED  BY <2>1
<1> DEFINE h == [k \in Nat |-> R[k][k]]
<1>2. F(h)
  <2>1. ASSUME NEW k \in Nat PROVE h[k] = IF k = 0 THEN s ELSE round[h[k - 1]]
    <3>1. R[k][k] = IF k = 0 THEN s ELSE round[R[k][k - 1]]
      <4>1. Rounds(round, s, k, R[k]) /\ k \in 0 .. k  BY <1>1
      <4>2. PICK f : f = R[k]  OBVIOUS
      <4>3. Rounds(round, s, k, f)  BY <4>1, <4>2
      <4>4. f[k] = IF k = 0 THEN s ELSE round[f[k - 1]]  BY <4>1, <4>3 DEF Rounds
      <4> QED  BY <4>2, <4>4
    <3>2. CASE k = 0  BY <3>1, <3>2
    <3>3. CASE k # 0
      <4>1. k - 1 \in Nat /\ k - 1 <= k /\ k - 1 \in 0 .. k - 1  BY <3>3
      <4>2. R[k - 1][k - 1] = R[k][k - 1]
        <5>1. Rounds(round, s, k - 1, R[k - 1]) /\ Rounds(round, s, k, R[k])  BY <1>1, <4>1
        <5>2. PICK f, g : f = R[k - 1] /\ g = R[k]  OBVIOUS
        <5>3. Rounds(round, s, k - 1, f) /\ Rounds(round, s, k, g)  BY <5>1, <5>2
        <5>4. f[k - 1] = g[k - 1]  BY <4>1, <5>3, RoundsAgree
        <5> QED  BY <5>2, <5>4
      <4>3. h[k - 1] = R[k - 1][k - 1]  BY <4>1
      <4> QED  BY <3>1, <3>3, <4>2, <4>3
    <3> QED  BY <3>2, <3>3
  <2>2. h = [k \in Nat |-> h[k]]  OBVIOUS
  <2> HIDE DEF h
  <2> QED  BY <2>1, <2>2
<1>3. PICK g : F(g) /\ Iterate(round, s, n) = g[n]
  <2>1. F(CHOOSE f : F(f))  BY <1>2
  <2> QED  BY <2>1 DEF Iterate
<1>4. \A k \in Nat : g[k] = IF k = 0 THEN s ELSE round[g[k - 1]]  BY <1>3
<1> QED  BY <1>3, <1>4

\* What every round takes from S[k] to S[k + 1] holds when the loop ends.
LEMMA IterateReaches ==
    ASSUME NEW round, NEW S, NEW s \in S[0], \A k \in Nat : \A x \in S[k] : round[x] \in S[k + 1],
           NEW n \in Nat
    PROVE  Iterate(round, s, n) \in S[n]
<1>1. PICK g : /\ \A k \in Nat : g[k] = IF k = 0 THEN s ELSE round[g[k - 1]]
               /\ Iterate(round, s, n) = g[n]
  BY IterateIs
<1> DEFINE B == {k \in Nat : g[k] \notin S[k]}
<1>2. ASSUME B # {} PROVE FALSE
  <2>1. PICK k \in B : \A j \in B : k <= j
    <3>1. B \in SUBSET Nat  OBVIOUS
    <3> HIDE DEF B
    <3> QED  BY <1>2, <3>1, LeastNat
  <2>2. k \in Nat /\ k # 0 /\ g[k] \notin S[k]  BY <1>1, <2>1
  <2>3. k - 1 \in Nat /\ ~(k <= k - 1) /\ (k - 1) + 1 = k  BY <2>2
  <2>4. g[k - 1] \in S[k - 1]  BY <2>1, <2>3
  <2>5. round[g[k - 1]] \in S[(k - 1) + 1]  BY <2>3, <2>4
  <2>6. g[k] = round[g[k - 1]]  BY <1>1, <2>2
  <2> QED  BY <2>2, <2>3, <2>5, <2>6
<1> QED  BY <1>1, <1>2

\* A set that a round does not leave holds what the loop comes to.
LEMMA IterateStays ==
    ASSUME NEW round, NEW S, NEW s \in S, \A x \in S : round[x] \in S, NEW n \in Nat
    PROVE  Iterate(round, s, n) \in S
<1>1. PICK T : T = [k \in Nat |-> S]  OBVIOUS
<1>2. \A k \in Nat : T[k] = S /\ T[k + 1] = S  BY <1>1
<1>3. s \in T[0] /\ \A k \in Nat : \A x \in T[k] : round[x] \in T[k + 1]  BY <1>2
<1>4. Iterate(round, s, n) \in T[n]  BY <1>3, IterateReaches
<1> QED  BY <1>2, <1>4

-----------------------------------------------------------------------------
(***************************************************************************)
(* The heap.  An entry of D has been taken out of the array and still has  *)
(* its old index; every other one has the index of its place, or 0.        *)
(***************************************************************************)
HeapOK(h, D) ==
    /\ h \in Heaps
    /\ \A i \in 1 .. Len(h.list) : h.list[i] \notin D /\ h.index[h.list[i]] = i
    /\ \A e \in Threads \ D : h.index[e] # 0 =>
           h.index[e] \in 1 .. Len(h.list) /\ h.list[h.index[e]] = e

\* g has the entries of h
SameEntries(g, h) ==
    Len(g.list) = Len(h.list) /\ \A e \in Threads : g.index[e] # 0 <=> h.index[e] # 0

\* The members of a heap.
LEMMA HeapMembers ==
    ASSUME NEW h, HeapOK(h, {})
    PROVE  /\ IsInjective(h.list)
           /\ ToSet(h.list) = {e \in Threads : h.index[e] # 0}
<1>0. /\ h.list \in Seq(Threads) /\ Len(h.list) \in Nat /\ DOMAIN h.list = 1 .. Len(h.list)
      /\ \A i \in 1 .. Len(h.list) : h.list[i] \in Threads
  BY DEF HeapOK, Heaps
<1>1. IsInjective(h.list)  BY <1>0 DEF HeapOK, IsInjective
<1>2. ASSUME NEW e \in ToSet(h.list) PROVE e \in Threads /\ h.index[e] # 0
  <2>1. PICK i \in 1 .. Len(h.list) : h.list[i] = e  BY <1>0 DEF ToSet
  <2> QED  BY <1>0, <2>1 DEF HeapOK
<1>3. ASSUME NEW e \in Threads, h.index[e] # 0 PROVE e \in ToSet(h.list)
  BY <1>0, <1>3 DEF HeapOK, ToSet
<1> QED  BY <1>1, <1>2, <1>3

\* Exchanging two entries keeps every index right.
LEMMA SwapOK ==
    ASSUME NEW h, NEW D, HeapOK(h, D), NEW i \in 1 .. Len(h.list), NEW j \in 1 .. Len(h.list)
    PROVE  HeapOK(Swap(h, i, j), D) /\ SameEntries(Swap(h, i, j), h)
<1> DEFINE x == h.list[i]
           y == h.list[j]
           list == [h.list EXCEPT ![i] = y, ![j] = x]
           index == [h.index EXCEPT ![x] = j, ![y] = i]
           n == Len(h.list)
<1>0. /\ h.list \in Seq(Threads) /\ h.index \in [Threads -> Nat] /\ n \in Nat
      /\ DOMAIN h.list = 1 .. n /\ \A k \in 1 .. n : h.list[k] \in Threads
      /\ x \in Threads /\ y \in Threads /\ h.index[x] = i /\ h.index[y] = j
      /\ \A k \in 1 .. n : h.list[k] \notin D /\ h.index[h.list[k]] = k
  BY DEF HeapOK, Heaps
<1>1. Swap(h, i, j) = [list |-> list, index |-> index]  BY DEF Swap
<1>2. /\ list \in Seq(Threads) /\ Len(list) = n
      /\ \A k \in 1 .. n : list[k] = IF k = j THEN x ELSE IF k = i THEN y ELSE h.list[k]
  BY <1>0, SMTT(60)
<1>3. /\ index \in [Threads -> Nat]
      /\ \A e \in Threads : index[e] = IF e = y THEN i ELSE IF e = x THEN j ELSE h.index[e]
  BY <1>0
<1> HIDE DEF list, index, x, y
<1>4. ASSUME NEW k \in 1 .. n PROVE list[k] \notin D /\ index[list[k]] = k
  <2>1. CASE k = j  BY <1>0, <1>2, <1>3, <2>1 DEF x, y
  <2>2. CASE k # j /\ k = i  BY <1>0, <1>2, <1>3, <2>2 DEF x, y
  <2>3. CASE k # j /\ k # i
    <3>1. list[k] = h.list[k] /\ h.list[k] # x /\ h.list[k] # y  BY <1>0, <1>2, <2>3
    <3> QED  BY <1>0, <1>3, <3>1
  <2> QED  BY <2>1, <2>2, <2>3
<1>5. ASSUME NEW e \in Threads PROVE index[e] # 0 <=> h.index[e] # 0
  BY <1>0, <1>3, SMTT(60)
<1>6. ASSUME NEW e \in Threads \ D, index[e] # 0 PROVE index[e] \in 1 .. n /\ list[index[e]] = e
  <2>1. CASE e = y  BY <1>0, <1>2, <1>3, <2>1 DEF x, y
  <2>2. CASE e # y /\ e = x  BY <1>0, <1>2, <1>3, <2>2 DEF x, y
  <2>3. CASE e # y /\ e # x
    <3>1. index[e] = h.index[e] /\ h.index[e] \in 1 .. n /\ h.list[h.index[e]] = e
      BY <1>3, <1>6, <2>3 DEF HeapOK
    <3>2. h.index[e] # i /\ h.index[e] # j  BY <2>3, <3>1 DEF x, y
    <3> QED  BY <1>2, <3>1, <3>2
  <2> QED  BY <2>1, <2>2, <2>3
<1>7. [list |-> list, index |-> index] \in Heaps  BY <1>2, <1>3 DEF Heaps
<1> QED  BY <1>1, <1>2, <1>4, <1>5, <1>6, <1>7 DEF HeapOK, SameEntries

\* Where HeapUp and HeapDown can be on their way through h.
OnWay(h, D, max) ==
    {s \in Positions :
        s.pos \in 1 .. max /\ HeapOK(s.heap, D) /\ SameEntries(s.heap, h)}

\* A way goes on after an exchange.
LEMMA WayGoesOn ==
    ASSUME NEW h, NEW D, NEW max, NEW s \in OnWay(h, D, max), s.pos \in 1 .. Len(s.heap.list),
           NEW p \in 1 .. Len(s.heap.list), p \in 1 .. max
    PROVE  [pos |-> p, heap |-> Swap(s.heap, s.pos, p)] \in OnWay(h, D, max)
<1>1. HeapOK(s.heap, D) /\ SameEntries(s.heap, h)  BY DEF OnWay
<1>2. HeapOK(Swap(s.heap, s.pos, p), D) /\ SameEntries(Swap(s.heap, s.pos, p), s.heap)
  BY <1>1, SwapOK
<1>3. SameEntries(Swap(s.heap, s.pos, p), h)  BY <1>1, <1>2 DEF SameEntries
<1>4. [pos |-> p, heap |-> Swap(s.heap, s.pos, p)] \in Positions
  <2>1. Swap(s.heap, s.pos, p) \in Heaps /\ p \in Nat  BY <1>2 DEF HeapOK
  <2> QED  BY <2>1 DEF Positions
<1> QED  BY <1>2, <1>3, <1>4 DEF OnWay

\* HeapUp only moves entries.
LEMMA HeapUpOK ==
    ASSUME NEW h, NEW D, HeapOK(h, D), Len(h.list) # 0, NEW V
    PROVE  HeapOK(HeapUp(h, V), D) /\ SameEntries(HeapUp(h, V), h)
<1> DEFINE n == Len(h.list)
           S == OnWay(h, D, n)
           start == [pos |-> n, heap |-> h]
<1>0. n \in Nat /\ n \in 1 .. n /\ h \in Heaps  BY DEF HeapOK, Heaps
<1>1. start \in S  BY <1>0 DEF OnWay, Positions, SameEntries
<1>2. ASSUME NEW s \in S PROVE UpRound(V)[s] \in S
  <2>1. s \in Positions /\ s.pos \in 1 .. n /\ Len(s.heap.list) = n  BY DEF OnWay, SameEntries
  <2>2. CASE s.pos \div 2 < 1 \/ V[s.heap.list[s.pos]] >= V[s.heap.list[s.pos \div 2]]
    BY <2>1, <2>2 DEF UpRound
  <2>3. CASE ~(s.pos \div 2 < 1 \/ V[s.heap.list[s.pos]] >= V[s.heap.list[s.pos \div 2]])
    <3>1. UpRound(V)[s] = [pos |-> s.pos \div 2, heap |-> Swap(s.heap, s.pos, s.pos \div 2)]
      BY <2>1, <2>3 DEF UpRound
    <3>2. s.pos \div 2 \in 1 .. n  BY <1>0, <2>1, <2>3
    <3> HIDE DEF n
    <3> QED  BY <2>1, <3>1, <3>2, WayGoesOn
  <2> QED  BY <2>2, <2>3
<1>3. Iterate(UpRound(V), start, n) \in S
  <2> HIDE DEF S, n, start
  <2> QED  BY <1>0, <1>1, <1>2, IterateStays
<1>4. HeapUp(h, V) = Iterate(UpRound(V), start, n).heap  BY DEF HeapUp
<1> QED  BY <1>3, <1>4 DEF OnWay

\* HeapDown only moves entries.
LEMMA HeapDownOK ==
    ASSUME NEW h, NEW D, HeapOK(h, D), NEW p \in 1 .. Len(h.list) + 1, NEW V
    PROVE  HeapOK(HeapDown(h, p, V), D) /\ SameEntries(HeapDown(h, p, V), h)
<1> DEFINE n == Len(h.list)
           S == OnWay(h, D, n + 1)
           start == [pos |-> p, heap |-> h]
<1>0. n \in Nat /\ h \in Heaps  BY DEF HeapOK, Heaps
<1>1. start \in S  BY <1>0 DEF OnWay, Positions, SameEntries
<1>2. ASSUME NEW s \in S PROVE DownRound(V)[s] \in S
  <2> DEFINE son == MinSon(s.heap.list, s.pos, V)
             Stop == 2 * s.pos > n \/ V[s.heap.list[s.pos]] <= V[s.heap.list[son]]
  <2>1. s \in Positions /\ s.pos \in 1 .. n + 1 /\ Len(s.heap.list) = n  BY DEF OnWay, SameEntries
  <2>2. CASE Stop  BY <2>1, <2>2 DEF DownRound
  <2>3. CASE ~Stop
    <3>1. DownRound(V)[s] = [pos |-> son, heap |-> Swap(s.heap, s.pos, son)]
      BY <2>1, <2>3 DEF DownRound
    <3>2. son \in 1 .. n /\ son \in 1 .. n + 1 /\ s.pos \in 1 .. n
      <4>1. 2 * s.pos <= n  BY <1>0, <2>1, <2>3
      <4>2. son = 2 * s.pos \/ (2 * s.pos < n /\ son = 2 * s.pos + 1)  BY <2>1 DEF MinSon
      <4> HIDE DEF son, n
      <4> QED  BY <1>0, <2>1, <4>1, <4>2
    <3> HIDE DEF n, son
    <3> QED  BY <2>1, <3>1, <3>2, WayGoesOn
  <2> QED  BY <2>2, <2>3
<1>3. Iterate(DownRound(V), start, n) \in S
  <2> HIDE DEF S, n, start
  <2> QED  BY <1>0, <1>1, <1>2, IterateStays
<1>4. HeapDown(h, p, V) = Iterate(DownRound(V), start, n).heap  BY DEF HeapDown
<1> QED  BY <1>3, <1>4 DEF OnWay

\* The heap has a place for every thread: HeapPush never finds it full.
LEMMA NeverFull == ASSUME NEW h, HeapOK(h, {}) PROVE ~HeapFull(h)
<1>0. h.list \in Seq(Threads) /\ Len(h.list) \in Nat /\ h.list \in [1 .. Len(h.list) -> Threads]
  BY DEF HeapOK, Heaps
<1>1. IsFiniteSet(Threads) /\ Cardinality(Threads) = Cardinality(Pool) + 1 /\ Cardinality(Pool) \in Nat
  <2>1. Cardinality(Pool) \in Nat  BY ThreadAssumption, FS_CardinalityType
  <2> QED  BY <2>1, ThreadAssumption, FS_AddElement DEF Threads
<1>2. h.list \in Injection(1 .. Len(h.list), Threads)
  BY <1>0 DEF HeapOK, Injection, IsInjective
<1>3. Cardinality(1 .. Len(h.list)) <= Cardinality(Threads)  BY <1>1, <1>2, FS_Injection
<1>4. Cardinality(1 .. Len(h.list)) = Len(h.list)  BY <1>0, FS_Interval
<1> QED  BY <1>0, <1>1, <1>3, <1>4 DEF HeapFull, MaxNum

\* Where HeapPush begins: the entry is last.
Pushed(h, e) ==
    [list |-> Append(h.list, e), index |-> [h.index EXCEPT ![e] = Len(h.list) + 1]]

\* There every index is right, and no entry is lost.
LEMMA PushedOK ==
    ASSUME NEW h, HeapOK(h, {}), NEW e \in Threads, h.index[e] = 0
    PROVE  LET g == Pushed(h, e)
           IN  /\ HeapOK(g, {}) /\ Len(g.list) = Len(h.list) + 1
               /\ \A k \in 1 .. Len(h.list) : g.list[k] = h.list[k]
               /\ \A x \in Threads : g.index[x] # 0 <=> h.index[x] # 0 \/ x = e
<1> DEFINE n == Len(h.list)
           list == Append(h.list, e)
           index == [h.index EXCEPT ![e] = n + 1]
           g == [list |-> list, index |-> index]
<1>0. /\ h.list \in Seq(Threads) /\ h.index \in [Threads -> Nat] /\ n \in Nat
      /\ \A k \in 1 .. n : h.list[k] \in Threads /\ h.index[h.list[k]] = k
  BY DEF HeapOK, Heaps
<1>1. g = Pushed(h, e)  BY DEF Pushed
<1>2. /\ list \in Seq(Threads) /\ Len(list) = n + 1 /\ list[n + 1] = e
      /\ \A k \in 1 .. n : list[k] = h.list[k]
  BY <1>0
<1>3. /\ index \in [Threads -> Nat] /\ index[e] = n + 1
      /\ \A x \in Threads : x # e => index[x] = h.index[x]
  BY <1>0
<1> HIDE DEF list, index
<1>4. ASSUME NEW k \in 1 .. n + 1 PROVE index[list[k]] = k
  <2>1. CASE k = n + 1  BY <1>2, <1>3, <2>1
  <2>2. CASE k # n + 1
    <3>1. k \in 1 .. n /\ k # 0  BY <1>0, <2>2
    <3>2. h.list[k] # e  BY <1>0, <3>1
    <3> QED  BY <1>0, <1>2, <1>3, <3>1, <3>2, SMTT(60)
  <2> QED  BY <2>1, <2>2
<1>5. ASSUME NEW x \in Threads, index[x] # 0 PROVE index[x] \in 1 .. n + 1 /\ list[index[x]] = x
  <2>1. CASE x = e  BY <1>0, <1>2, <1>3, <2>1
  <2>2. CASE x # e
    <3>1. index[x] = h.index[x] /\ h.index[x] \in 1 .. n /\ h.list[h.index[x]] = x
      BY <1>3, <1>5, <2>2 DEF HeapOK
    <3> QED  BY <1>0, <1>2, <3>1, SMTT(60)
  <2> QED  BY <2>1, <2>2
<1>6. g \in Heaps  BY <1>2, <1>3 DEF Heaps
<1>7. HeapOK(g, {})  BY <1>0, <1>2, <1>4, <1>5, <1>6 DEF HeapOK
<1>8. \A x \in Threads : g.index[x] # 0 <=> h.index[x] # 0 \/ x = e  BY <1>0, <1>3
<1> QED  BY <1>1, <1>2, <1>7, <1>8

\* HeapPush adds its entry and loses none.
LEMMA HeapPushOK ==
    ASSUME NEW h, HeapOK(h, {}), NEW e \in Threads, h.index[e] = 0, NEW V
    PROVE  /\ HeapOK(HeapPush(h, e, V), {})
           /\ \A x \in Threads : HeapPush(h, e, V).index[x] # 0 <=> h.index[x] # 0 \/ x = e
<1>1. PICK g : g = Pushed(h, e)  OBVIOUS
<1>2. HeapPush(h, e, V) = HeapUp(g, V)  BY <1>1, NeverFull DEF HeapPush, Pushed
<1>3. /\ HeapOK(g, {}) /\ Len(g.list) = Len(h.list) + 1
      /\ \A x \in Threads : g.index[x] # 0 <=> h.index[x] # 0 \/ x = e
  BY <1>1, PushedOK
<1>4. Len(g.list) # 0
  <2>1. Len(h.list) \in Nat  BY DEF HeapOK, Heaps
  <2> QED  BY <1>3, <2>1
<1>5. HeapOK(HeapUp(g, V), {}) /\ SameEntries(HeapUp(g, V), g)  BY <1>3, <1>4, HeapUpOK
<1> QED  BY <1>2, <1>3, <1>5 DEF SameEntries

\* Where HeapDelete begins to sink: the last entry is in the place of the deleted one.
Moved(h, e) ==
    LET n == Len(h.list)
    IN  [list  |-> SubSeq([h.list EXCEPT ![h.index[e]] = h.list[n]], 1, n - 1),
         index |-> [h.index EXCEPT ![h.list[n]] = h.index[e]]]

\* There every index is right but that of the deleted entry.
LEMMA MovedOK ==
    ASSUME NEW h, HeapOK(h, {}), NEW e \in Threads, h.index[e] # 0
    PROVE  LET n == Len(h.list)
               p == h.index[e]
               g == Moved(h, e)
           IN  /\ HeapOK(g, {e}) /\ Len(g.list) = n - 1 /\ p \in 1 .. n
               /\ \A k \in 1 .. n - 1 : g.list[k] = IF k = p THEN h.list[n] ELSE h.list[k]
               /\ \A x \in Threads : x # e => (g.index[x] # 0 <=> h.index[x] # 0)
<1> DEFINE n == Len(h.list)
           p == h.index[e]
           last == h.list[n]
           moved == [h.list EXCEPT ![p] = last]
           list == SubSeq(moved, 1, n - 1)
           index == [h.index EXCEPT ![last] = p]
           g == [list |-> list, index |-> index]
<1>0. /\ h.list \in Seq(Threads) /\ h.index \in [Threads -> Nat] /\ n \in Nat
      /\ \A k \in 1 .. n : h.list[k] \in Threads /\ h.index[h.list[k]] = k
      /\ p \in 1 .. n /\ h.list[p] = e /\ last \in Threads /\ h.index[last] = n
  <2>1. /\ h.list \in Seq(Threads) /\ h.index \in [Threads -> Nat] /\ n \in Nat
        /\ \A k \in 1 .. n : h.list[k] \in Threads /\ h.index[h.list[k]] = k
        /\ p \in 1 .. n /\ h.list[p] = e
    BY DEF HeapOK, Heaps
  <2>2. n \in 1 .. n  BY <2>1
  <2> QED  BY <2>1, <2>2
<1>1. g = Moved(h, e)  BY DEF Moved
<1>2. /\ moved \in Seq(Threads) /\ Len(moved) = n
      /\ \A k \in 1 .. n : moved[k] = IF k = p THEN last ELSE h.list[k]
  BY <1>0
<1>3. /\ list \in Seq(Threads) /\ Len(list) = n - 1
      /\ \A k \in 1 .. n - 1 : list[k] = IF k = p THEN last ELSE h.list[k]
  <2> HIDE DEF moved
  <2>1. n - 1 \in Nat /\ n - 1 <= n  BY <1>0
  <2>2. list \in Seq(Threads) /\ Len(list) = n - 1 /\ \A k \in 1 .. n - 1 : list[k] = moved[k]
    BY <1>0, <1>2, <2>1
  <2> QED  BY <1>0, <1>2, <2>2
<1>4. /\ index \in [Threads -> Nat] /\ index[last] = p
      /\ \A x \in Threads : x # last => index[x] = h.index[x]
  BY <1>0
<1> HIDE DEF list, index, last, p
<1>5. ASSUME NEW k \in 1 .. n - 1 PROVE list[k] # e /\ index[list[k]] = k
  <2>0. k \in 1 .. n /\ k # n
    <3> HIDE DEF n
    <3> QED  BY <1>0
  <2>1. CASE k = p
    <3>1. list[k] = last /\ h.index[last] = n  BY <1>0, <1>3, <2>1
    <3>2. h.index[e] = k  BY <2>1 DEF p
    <3> QED  BY <1>4, <2>0, <2>1, <3>1, <3>2
  <2>2. CASE k # p
    <3>1. k \in 1 .. n /\ k # n /\ list[k] = h.list[k] /\ h.index[h.list[k]] = k
      BY <1>0, <1>3, <2>0, <2>2
    <3>2. h.list[k] # last /\ h.list[k] # e  BY <1>0, <2>2, <3>1 DEF p
    <3> QED  BY <1>0, <1>4, <3>1, <3>2
  <2> QED  BY <2>1, <2>2
<1>6. ASSUME NEW x \in Threads \ {e}, index[x] # 0
      PROVE  index[x] \in 1 .. n - 1 /\ list[index[x]] = x
  <2>1. CASE x = last
    <3>1. p # n /\ index[x] = p  BY <1>0, <1>4, <1>6, <2>1 DEF last
    <3>2. p \in 1 .. n - 1  BY <1>0, <3>1
    <3> QED  BY <1>3, <2>1, <3>1, <3>2
  <2>2. CASE x # last
    <3>1. index[x] = h.index[x] /\ h.index[x] \in 1 .. n /\ h.list[h.index[x]] = x
      BY <1>4, <1>6, <2>2 DEF HeapOK
    <3>2. h.index[x] # n /\ h.index[x] # p  BY <1>0, <1>6, <2>2, <3>1 DEF last
    <3>3. h.index[x] \in 1 .. n - 1  BY <1>0, <3>1, <3>2
    <3> QED  BY <1>3, <3>1, <3>2, <3>3
  <2> QED  BY <2>1, <2>2
<1>7. g \in Heaps  BY <1>3, <1>4 DEF Heaps
<1>8. HeapOK(g, {e})  BY <1>3, <1>5, <1>6, <1>7 DEF HeapOK
<1>9. \A x \in Threads : x # e => (g.index[x] # 0 <=> h.index[x] # 0)
  BY <1>0, <1>4
<1> QED  BY <1>0, <1>1, <1>3, <1>8, <1>9 DEF p, last

\* HeapDelete takes its entry out and loses no other.
LEMMA HeapDeleteOK ==
    ASSUME NEW h, HeapOK(h, {}), NEW e \in Threads, h.index[e] # 0, NEW V
    PROVE  /\ HeapOK(HeapDelete(h, e, V), {})
           /\ \A x \in Threads : HeapDelete(h, e, V).index[x] # 0 <=> h.index[x] # 0 /\ x # e
           /\ HeapDelete(h, e, V).list = HeapDown(Moved(h, e), h.index[e], V).list
<1> DEFINE n == Len(h.list)
           p == h.index[e]
<1>0. PICK g : g = Moved(h, e)  OBVIOUS
<1> DEFINE r == HeapDown(g, p, V)
           q == [r EXCEPT !.index[e] = 0]
<1>1. /\ HeapOK(g, {e}) /\ Len(g.list) = n - 1 /\ p \in 1 .. n /\ n \in Nat
      /\ \A x \in Threads : x # e => (g.index[x] # 0 <=> h.index[x] # 0)
  <2>1. n \in Nat  BY DEF HeapOK, Heaps
  <2> QED  BY <1>0, <2>1, MovedOK
<1>2. HeapDelete(h, e, V) = q  BY <1>0, <1>1 DEF HeapDelete, Moved
<1>3. HeapOK(r, {e}) /\ SameEntries(r, g)
  <2>1. p \in 1 .. Len(g.list) + 1  BY <1>1
  <2> HIDE DEF p
  <2> QED  BY <1>1, <2>1, HeapDownOK
<1> HIDE DEF r
<1>4. \A x \in Threads : x # e => (r.index[x] # 0 <=> h.index[x] # 0)
  BY <1>1, <1>3 DEF SameEntries
<1>5. /\ q \in Heaps /\ q.list = r.list /\ q.index[e] = 0
      /\ \A x \in Threads : x # e => q.index[x] = r.index[x]
  BY <1>3 DEF HeapOK, Heaps
<1>6. \A i \in 1 .. Len(r.list) : r.list[i] \in Threads  BY <1>3 DEF HeapOK, Heaps
<1> HIDE DEF q
<1>7. HeapOK(q, {})  BY <1>3, <1>5, <1>6 DEF HeapOK
<1>8. q.list = HeapDown(Moved(h, e), h.index[e], V).list  BY <1>0, <1>5 DEF r
<1> QED  BY <1>2, <1>4, <1>5, <1>7, <1>8

-----------------------------------------------------------------------------
(***************************************************************************)
(* The order of the heap.  HeapUp restores it after a push; HeapDown does  *)
(* so after a delete only where the entry that takes the free place is not *)
(* smaller than its new parent.                                            *)
(***************************************************************************)
Ordered(h, V) == \A i \in 2 .. Len(h.list) : V[h.list[i \div 2]] <= V[h.list[i]]

\* Everywhere in w but between p and its parent.
UpTo(w, n, p) ==
    /\ \A i \in 2 .. n : i # p => w[i \div 2] <= w[i]
    /\ \A i \in 2 .. n : i \div 2 = p /\ p \div 2 >= 1 => w[p \div 2] <= w[i]

\* Everywhere in w but between p and its sons.
DownTo(w, n, p) ==
    /\ \A i \in 2 .. n : i \div 2 # p => w[i \div 2] <= w[i]
    /\ \A i \in 2 .. n : i \div 2 = p /\ p \div 2 >= 1 => w[p \div 2] <= w[i]

\* The place of a parent.
LEMMA Half ==
    ASSUME NEW i \in Nat
    PROVE  /\ i \div 2 \in Nat /\ 2 * (i \div 2) <= i /\ i <= 2 * (i \div 2) + 1
           /\ i >= 2 => i \div 2 >= 1 /\ i \div 2 < i
OBVIOUS

\* x is w with the values at p and q exchanged.
Exchanged(w, x, n, p, q) ==
    /\ n \in Nat /\ p \in 1 .. n /\ q \in 1 .. n /\ w \in [1 .. n -> Int] /\ x \in [1 .. n -> Int]
    /\ x[p] = w[q] /\ x[q] = w[p] /\ \A i \in 1 .. n : i # p /\ i # q => x[i] = w[i]

\* A round of HeapUp moves the gap in the order up.
LEMMA UpSwap ==
    ASSUME NEW n, NEW w, NEW x, NEW p, NEW q, Exchanged(w, x, n, p, q),
           q = p \div 2, w[p] < w[q], UpTo(w, n, p)
    PROVE  UpTo(x, n, q)
<1> USE DEF Exchanged
<1>0. p \in Nat /\ q \in Nat /\ 1 <= q /\ q < p /\ p >= 2
  BY Half
<1>1. \A i \in 2 .. n : i \div 2 \in 1 .. n /\ i \div 2 < i /\ i \in 1 .. n  BY Half
<1>2. \A i \in 1 .. n : w[i] \in Int /\ x[i] \in Int  OBVIOUS
<1>3. ASSUME NEW i \in 2 .. n, i # q PROVE x[i \div 2] <= x[i]
  <2> DEFINE j == i \div 2
  <2>0. i \in 1 .. n /\ j \in 1 .. n /\ j < i  BY <1>1
  <2>1. CASE i = p  BY <1>2, <2>0, <2>1
  <2>2. CASE i # p /\ j = p
    <3>1. w[q] <= w[i]  BY <1>0, <2>2 DEF UpTo
    <3> QED  BY <1>3, <2>0, <2>2, <3>1
  <2>3. CASE i # p /\ j = q
    <3>1. w[q] <= w[i]  BY <2>3 DEF UpTo
    <3>2. x[i] = w[i] /\ x[j] = w[p]  BY <1>3, <2>0, <2>3
    <3> QED  BY <1>2, <2>0, <3>1, <3>2
  <2>4. CASE i # p /\ j # p /\ j # q
    <3>1. w[j] <= w[i]  BY <2>4 DEF UpTo
    <3>2. x[i] = w[i] /\ x[j] = w[j]  BY <1>3, <2>0, <2>4
    <3> QED  BY <3>1, <3>2
  <2> QED  BY <2>1, <2>2, <2>3, <2>4
<1>4. ASSUME NEW i \in 2 .. n, i \div 2 = q, q \div 2 >= 1 PROVE x[q \div 2] <= x[i]
  <2> DEFINE r == q \div 2
  <2>0. i \in 1 .. n /\ q < i  BY <1>1, <1>4
  <2>1. r \in 1 .. n /\ r < q /\ q \in 2 .. n  BY <1>0, <1>4, Half
  <2>2. w[r] <= w[q] /\ x[r] = w[r]  BY <1>0, <2>1 DEF UpTo
  <2>3. CASE i = p  BY <2>2, <2>3
  <2>4. CASE i # p
    <3>1. w[i \div 2] <= w[i]  BY <2>4 DEF UpTo
    <3>2. x[i] = w[i]  BY <1>0, <2>0, <2>4
    <3>3. w[r] <= w[q] /\ w[q] <= w[i]  BY <1>4, <2>2, <3>1
    <3>4. w[r] \in Int /\ w[q] \in Int /\ w[i] \in Int  BY <1>2, <2>0, <2>1
    <3>5. w[r] <= w[i]
      <4> HIDE DEF r
      <4> QED  BY <3>3, <3>4
    <3> QED  BY <2>2, <3>2, <3>5
  <2> QED  BY <2>3, <2>4
<1> QED  BY <1>3, <1>4 DEF UpTo

\* A round of HeapDown moves it down.
LEMMA DownSwap ==
    ASSUME NEW n, NEW w, NEW x, NEW p, NEW q, Exchanged(w, x, n, p, q),
           p = q \div 2, w[q] < w[p], DownTo(w, n, p),
           \A i \in 2 .. n : i \div 2 = p => w[q] <= w[i]
    PROVE  DownTo(x, n, q)
<1> USE DEF Exchanged
<1>0. p \in Nat /\ q \in Nat /\ 1 <= p /\ p < q /\ q \in 2 .. n
  BY Half
<1>1. \A i \in 2 .. n : i \div 2 \in 1 .. n /\ i \div 2 < i /\ i \in 1 .. n  BY Half
<1>2. \A i \in 1 .. n : w[i] \in Int /\ x[i] \in Int  OBVIOUS
<1>3. ASSUME NEW i \in 2 .. n, i \div 2 # q PROVE x[i \div 2] <= x[i]
  <2> DEFINE j == i \div 2
  <2>0. i \in 1 .. n /\ j \in 1 .. n /\ j < i  BY <1>1
  <2>1. CASE i = q  BY <1>2, <2>0, <2>1
  <2>2. CASE i # q /\ j = p
    <3>1. w[q] <= w[i] /\ x[i] = w[i] /\ x[j] = w[q]  BY <2>0, <2>2
    <3> QED  BY <3>1
  <2>3. CASE i = p
    <3>1. w[j] <= w[q]  BY <1>0, <2>0, <2>3 DEF DownTo
    <3>2. x[j] = w[j] /\ x[i] = w[q]  BY <1>0, <2>0, <2>3
    <3> QED  BY <3>1, <3>2
  <2>4. CASE i # q /\ i # p /\ j # p
    <3>1. w[j] <= w[i]  BY <2>4 DEF DownTo
    <3>2. x[i] = w[i] /\ x[j] = w[j]  BY <1>3, <2>0, <2>4
    <3> QED  BY <3>1, <3>2
  <2> QED  BY <2>1, <2>2, <2>3, <2>4
<1>4. ASSUME NEW i \in 2 .. n, i \div 2 = q, q \div 2 >= 1 PROVE x[q \div 2] <= x[i]
  <2>1. i \in 1 .. n /\ i # p /\ i # q  BY <1>0, <1>1, <1>4
  <2>2. w[q] <= w[i]  BY <1>0, <1>4 DEF DownTo
  <2> QED  BY <2>1, <2>2
<1> QED  BY <1>3, <1>4 DEF DownTo

\* The values of a heap, by place.
Values(h, V) == [i \in 1 .. Len(h.list) |-> V[h.list[i]]]

\* An exchange of entries exchanges their values.
LEMMA SwapValues ==
    ASSUME NEW h, NEW D, HeapOK(h, D), NEW V \in [Threads -> Int],
           NEW i \in 1 .. Len(h.list), NEW j \in 1 .. Len(h.list), i # j
    PROVE  Exchanged(Values(h, V), Values(Swap(h, i, j), V), Len(h.list), i, j)
<1> DEFINE n == Len(h.list)
           list == [h.list EXCEPT ![i] = h.list[j], ![j] = h.list[i]]
<1>1. h.list \in Seq(Threads) /\ n \in Nat /\ \A k \in 1 .. n : h.list[k] \in Threads
  BY DEF HeapOK, Heaps
<1>2. /\ list \in Seq(Threads) /\ Len(list) = n /\ list[i] = h.list[j] /\ list[j] = h.list[i]
      /\ \A k \in 1 .. n : list[k] \in Threads /\ (k # i /\ k # j => list[k] = h.list[k])
  BY <1>1
<1>3. Swap(h, i, j).list = list  BY DEF Swap
<1> HIDE DEF list, n
<1>4. /\ Values(h, V) = [k \in 1 .. n |-> V[h.list[k]]]
      /\ Values(Swap(h, i, j), V) = [k \in 1 .. n |-> V[list[k]]]
  BY <1>2, <1>3 DEF Values, n
<1>5. i \in 1 .. n /\ j \in 1 .. n  BY DEF n
<1>6. Exchanged(Values(h, V), Values(Swap(h, i, j), V), n, i, j)
  BY <1>1, <1>2, <1>4, <1>5 DEF Exchanged
<1> QED  BY <1>6 DEF n

\* The order of a heap is that of its values.
LEMMA OrderedIs ==
    ASSUME NEW h, NEW D, HeapOK(h, D), NEW V \in [Threads -> Int]
    PROVE  LET n == Len(h.list)
               w == Values(h, V)
           IN  /\ n \in Nat /\ w \in [1 .. n -> Int] /\ \A i \in 1 .. n : w[i] = V[h.list[i]]
               /\ Ordered(h, V) <=> \A i \in 2 .. n : w[i \div 2] <= w[i]
<1> DEFINE n == Len(h.list)
           w == Values(h, V)
<1>1. h.list \in Seq(Threads) /\ n \in Nat /\ \A k \in 1 .. n : h.list[k] \in Threads
  BY DEF HeapOK, Heaps
<1>2. w \in [1 .. n -> Int] /\ \A i \in 1 .. n : w[i] = V[h.list[i]]  BY <1>1 DEF Values
<1>3. \A i \in 2 .. n : i \in 1 .. n /\ i \div 2 \in 1 .. n  BY <1>1, Half
<1> HIDE DEF w
<1>4. Ordered(h, V) <=> \A i \in 2 .. n : w[i \div 2] <= w[i]  BY <1>2, <1>3 DEF Ordered
<1> QED  BY <1>1, <1>2, <1>4 DEF w

\* HeapUp, of a heap in order up to its last entry.
LEMMA HeapUpOrder ==
    ASSUME NEW h, HeapOK(h, {}), NEW V \in [Threads -> Int], Len(h.list) # 0,
           UpTo(Values(h, V), Len(h.list), Len(h.list))
    PROVE  Ordered(HeapUp(h, V), V)
<1> DEFINE n == Len(h.list)
           At(s) == UpTo(Values(s.heap, V), n, s.pos)
           T == [k \in Nat |-> {s \in OnWay(h, {}, n) : At(s) /\ (s.pos <= n - k \/ Ordered(s.heap, V))}]
           start == [pos |-> n, heap |-> h]
<1>0. n \in Nat /\ n \in 1 .. n /\ h \in Heaps  BY DEF HeapOK, Heaps
<1>1. start \in T[0]
  <2>1. start \in OnWay(h, {}, n)  BY <1>0 DEF OnWay, Positions, SameEntries
  <2>2. At(start) /\ start.pos <= n - 0  BY <1>0
  <2> QED  BY <2>1, <2>2
<1>2. ASSUME NEW k \in Nat, NEW s \in T[k] PROVE UpRound(V)[s] \in T[k + 1]
  <2> DEFINE p == s.pos
             q == p \div 2
             w == Values(s.heap, V)
  <2>1. /\ s \in OnWay(h, {}, n) /\ s \in Positions /\ p \in 1 .. n /\ HeapOK(s.heap, {})
        /\ Len(s.heap.list) = n /\ UpTo(w, n, p) /\ (p <= n - k \/ Ordered(s.heap, V))
    BY DEF OnWay, SameEntries
  <2>2. /\ w \in [1 .. n -> Int] /\ \A i \in 1 .. n : w[i] = V[s.heap.list[i]]
        /\ Ordered(s.heap, V) <=> \A i \in 2 .. n : w[i \div 2] <= w[i]
    <3> HIDE DEF n, w
    <3> QED  BY <2>1, OrderedIs DEF w
  <2>3. p \in Nat /\ q \in Nat /\ q <= p /\ (p >= 2 => q >= 1 /\ q < p)  BY <2>1, Half
  <2>4. CASE q < 1 \/ w[p] >= w[q]
    <3>1. q < 1 \/ V[s.heap.list[p]] >= V[s.heap.list[q]]
      <4>1. CASE q < 1  BY <4>1
      <4>2. CASE ~(q < 1)
        <5>1. q \in 1 .. n  BY <1>0, <2>1, <2>3, <4>2
        <5> QED  BY <2>1, <2>2, <2>4, <4>2, <5>1
      <4> QED  BY <4>1, <4>2
    <3>2. UpRound(V)[s] = s  BY <2>1, <3>1 DEF UpRound
    <3>3. \A i \in 2 .. n : w[i \div 2] <= w[i]
      <4> SUFFICES ASSUME NEW i \in 2 .. n PROVE w[i \div 2] <= w[i]  OBVIOUS
      <4>1. CASE i # p  BY <2>1, <4>1 DEF UpTo
      <4>2. CASE i = p
        <5>1. ~(q < 1) /\ q \in 1 .. n  BY <1>0, <2>1, <2>3, <4>2
        <5>2. w[q] \in Int /\ w[p] \in Int  BY <2>1, <2>2, <5>1
        <5> QED  BY <2>4, <4>2, <5>1, <5>2
      <4> QED  BY <4>1, <4>2
    <3>4. Ordered(s.heap, V)  BY <2>2, <3>3
    <3> QED  BY <2>1, <3>2, <3>4
  <2>5. CASE ~(q < 1 \/ w[p] >= w[q])
    <3> DEFINE r == [pos |-> q, heap |-> Swap(s.heap, p, q)]
    <3>1. q \in 1 .. n /\ q # p  BY <1>0, <2>1, <2>3, <2>5
    <3>2. w[q] \in Int /\ w[p] \in Int /\ w[p] < w[q]  BY <2>1, <2>2, <2>5, <3>1
    <3>3. ~(q < 1 \/ V[s.heap.list[p]] >= V[s.heap.list[q]])  BY <2>1, <2>2, <2>5, <3>1
    <3>4. UpRound(V)[s] = r  BY <2>1, <3>3 DEF UpRound
    <3>5. r \in OnWay(h, {}, n)  BY <2>1, <3>1, WayGoesOn
    <3>6. PICK x : x = Values(Swap(s.heap, p, q), V)  OBVIOUS
    <3>7. Exchanged(w, x, n, p, q)
      <4> HIDE DEF p, q
      <4> QED  BY <2>1, <3>1, <3>6, SwapValues
    <3>8. UpTo(x, n, q)
      <4>1. q = p \div 2  OBVIOUS
      <4> HIDE DEF n, w, p, q
      <4> QED  BY <2>1, <3>2, <3>7, <4>1, UpSwap
    <3>9. q <= n - (k + 1) \/ Ordered(r.heap, V)
      <4>1. ~Ordered(s.heap, V)
        <5>1. p \in 2 .. n  BY <1>0, <2>1, <2>3, <2>5
        <5>2. ~(w[p \div 2] <= w[p])  BY <3>2
        <5> QED  BY <2>2, <5>1, <5>2
      <4>2. p <= n - k /\ q < p  BY <2>1, <2>3, <3>1, <4>1
      <4> QED  BY <1>0, <2>3, <4>2
    <3>10. At(r)  BY <3>6, <3>8
    <3>11. r.pos = q  OBVIOUS
    <3>12. k + 1 \in Nat  OBVIOUS
    <3>13. r \in T[k + 1]
      <4> HIDE DEF r
      <4>1. r.pos <= n - (k + 1) \/ Ordered(r.heap, V)  BY <3>9, <3>11
      <4> QED  BY <3>5, <3>10, <3>12, <4>1
    <3> QED  BY <3>4, <3>13
  <2> QED  BY <2>4, <2>5
<1>3. Iterate(UpRound(V), start, n) \in T[n]
  <2> HIDE DEF T, n, start
  <2> QED  BY <1>0, <1>1, <1>2, IterateReaches
<1>4. HeapUp(h, V) = Iterate(UpRound(V), start, n).heap  BY DEF HeapUp
<1>5. PICK s : s = Iterate(UpRound(V), start, n)  OBVIOUS
<1>6. s.pos \in 1 .. n /\ (s.pos <= n - n \/ Ordered(s.heap, V))  BY <1>0, <1>3, <1>5 DEF OnWay
<1> QED  BY <1>0, <1>4, <1>5, <1>6

\* No son of p is smaller than the one at q.
LeastSon(w, n, p, q) ==
    q \in 2 .. n /\ q \div 2 = p /\ \A i \in 2 .. n : i \div 2 = p => w[q] <= w[i]

\* The son that HeapDown compares is the smallest.
LEMMA MinSonIs ==
    ASSUME NEW list, NEW V, NEW w, NEW n \in Nat, Len(list) = n, w \in [1 .. n -> Int],
           \A i \in 1 .. n : w[i] = V[list[i]], NEW p \in Nat, p >= 1, 2 * p <= n
    PROVE  LeastSon(w, n, p, MinSon(list, p, V))
<1> DEFINE q == MinSon(list, p, V)
<1>1. ASSUME NEW i \in 2 .. n, i \div 2 = p PROVE i = 2 * p \/ (i = 2 * p + 1 /\ 2 * p < n)
  <2>1. i \in Nat /\ i <= n  OBVIOUS
  <2>2. 2 * p <= i /\ i <= 2 * p + 1  BY <1>1, <2>1, Half
  <2> QED  BY <2>1, <2>2, SMTT(60)
<1>2. 2 * p \in 2 .. n /\ 2 * p \in 1 .. n /\ (2 * p) \div 2 = p /\ (2 * p + 1) \div 2 = p
  OBVIOUS
<1>3. CASE 2 * p < n
  <2>1. 2 * p + 1 \in 2 .. n /\ 2 * p + 1 \in 1 .. n  BY <1>2, <1>3
  <2>2. /\ V[list[2 * p]] = w[2 * p] /\ V[list[2 * p + 1]] = w[2 * p + 1]
        /\ w[2 * p] \in Int /\ w[2 * p + 1] \in Int
    BY <1>2, <2>1
  <2>3. q = IF w[2 * p + 1] < w[2 * p] THEN 2 * p + 1 ELSE 2 * p
    BY <1>3, <2>2 DEF MinSon
  <2>4. CASE w[2 * p + 1] < w[2 * p]
    <3>1. q = 2 * p + 1  BY <2>3, <2>4
    <3>2. w[q] <= w[2 * p] /\ w[q] <= w[2 * p + 1]  BY <2>2, <2>4, <3>1
    <3> HIDE DEF q
    <3> QED  BY <1>1, <1>2, <2>1, <3>1, <3>2 DEF q, LeastSon
  <2>5. CASE ~(w[2 * p + 1] < w[2 * p])
    <3>1. q = 2 * p  BY <2>3, <2>5
    <3>2. w[q] <= w[2 * p] /\ w[q] <= w[2 * p + 1]  BY <2>2, <2>5, <3>1
    <3> HIDE DEF q
    <3> QED  BY <1>1, <1>2, <3>1, <3>2 DEF q, LeastSon
  <2> QED  BY <2>4, <2>5
<1>4. CASE ~(2 * p < n)
  <2>1. q = 2 * p  BY <1>4 DEF MinSon
  <2>2. w[2 * p] \in Int  BY <1>2
  <2>3. \A i \in 2 .. n : i \div 2 = p => w[q] <= w[i]  BY <1>1, <1>4, <2>1, <2>2
  <2> QED  BY <1>2, <2>1, <2>3 DEF LeastSon
<1> QED  BY <1>3, <1>4

\* HeapDown, of a heap in order but for what is below p.
LEMMA HeapDownOrder ==
    ASSUME NEW h, NEW D, HeapOK(h, D), NEW V \in [Threads -> Int], NEW at \in 1 .. Len(h.list) + 1,
           DownTo(Values(h, V), Len(h.list), at)
    PROVE  Ordered(HeapDown(h, at, V), V)
<1> DEFINE n == Len(h.list)
           At(s) == DownTo(Values(s.heap, V), n, s.pos)
           T == [k \in Nat |-> {s \in OnWay(h, D, n + 1) : At(s) /\ (s.pos > k \/ Ordered(s.heap, V))}]
           start == [pos |-> at, heap |-> h]
<1>0. n \in Nat /\ h \in Heaps /\ at \in 1 .. n + 1 /\ at \in Nat /\ at > 0  BY DEF HeapOK, Heaps
<1>1. start \in T[0]
  <2>1. start \in OnWay(h, D, n + 1)  BY <1>0 DEF OnWay, Positions, SameEntries
  <2>2. At(start) /\ start.pos > 0  BY <1>0
  <2> QED  BY <2>1, <2>2
<1>2. ASSUME NEW k \in Nat, NEW s \in T[k] PROVE DownRound(V)[s] \in T[k + 1]
  <2> DEFINE p == s.pos
             q == MinSon(s.heap.list, p, V)
             w == Values(s.heap, V)
  <2>1. /\ s \in OnWay(h, D, n + 1) /\ s \in Positions /\ p \in 1 .. n + 1 /\ HeapOK(s.heap, D)
        /\ Len(s.heap.list) = n /\ DownTo(w, n, p) /\ (p > k \/ Ordered(s.heap, V))
    BY DEF OnWay, SameEntries
  <2>2. /\ w \in [1 .. n -> Int] /\ \A i \in 1 .. n : w[i] = V[s.heap.list[i]]
        /\ Ordered(s.heap, V) <=> \A i \in 2 .. n : w[i \div 2] <= w[i]
    <3> HIDE DEF n, w
    <3> QED  BY <2>1, OrderedIs DEF w
  <2>3. p \in Nat /\ p >= 1 /\ \A i \in 1 .. n : w[i] \in Int
    <3>1. p \in Nat /\ p >= 1  BY <1>0, <2>1
    <3> HIDE DEF w, n
    <3> QED  BY <2>2, <3>1
  <2>4. 2 * p <= n => /\ q \in 2 .. n /\ q \div 2 = p /\ p \in 1 .. n
                      /\ \A i \in 2 .. n : i \div 2 = p => w[q] <= w[i]
    <3> SUFFICES ASSUME 2 * p <= n
                 PROVE  /\ q \in 2 .. n /\ q \div 2 = p /\ p \in 1 .. n
                        /\ \A i \in 2 .. n : i \div 2 = p => w[q] <= w[i]
      OBVIOUS
    <3>1. p \in 1 .. n  BY <1>0, <2>3
    <3>2. PICK list : list = s.heap.list  OBVIOUS
    <3>3. Len(list) = n /\ \A i \in 1 .. n : w[i] = V[list[i]]  BY <2>1, <2>2, <3>2
    <3> HIDE DEF n, w, p
    <3>4. n \in Nat /\ w \in [1 .. n -> Int] /\ p \in Nat /\ p >= 1 /\ 2 * p <= n
      BY <1>0, <2>2, <2>3
    <3>5. LeastSon(w, n, p, MinSon(list, p, V))  BY <3>3, <3>4, MinSonIs
    <3> QED  BY <3>1, <3>2, <3>5 DEF LeastSon
  <2>5. CASE 2 * p > n \/ w[p] <= w[q]
    <3>1. 2 * p > n \/ V[s.heap.list[p]] <= V[s.heap.list[q]]
      <4>1. CASE 2 * p > n  BY <4>1
      <4>2. CASE ~(2 * p > n)
        <5>1. q \in 1 .. n /\ p \in 1 .. n  BY <1>0, <2>3, <2>4, <4>2
        <5> HIDE DEF q
        <5> QED  BY <2>2, <2>5, <4>2, <5>1
      <4> QED  BY <4>1, <4>2
    <3>2. DownRound(V)[s] = s  BY <2>1, <3>1 DEF DownRound
    <3>3. \A i \in 2 .. n : w[i \div 2] <= w[i]
      <4> SUFFICES ASSUME NEW i \in 2 .. n PROVE w[i \div 2] <= w[i]  OBVIOUS
      <4>1. CASE i \div 2 # p  BY <2>1, <4>1 DEF DownTo
      <4>2. CASE i \div 2 = p
        <5>1. i \in Nat /\ i <= n /\ 2 * p <= i  BY <1>0, <4>2, Half
        <5>2. 2 * p <= n /\ ~(2 * p > n)  BY <1>0, <2>3, <5>1
        <5>3. q \in 1 .. n /\ p \in 1 .. n /\ w[q] <= w[i]  BY <1>0, <2>4, <4>2, <5>2
        <5>4. w[q] \in Int /\ w[p] \in Int /\ w[i] \in Int
          <6>1. i \in 1 .. n  OBVIOUS
          <6> HIDE DEF w, q, p, n
          <6> QED  BY <2>3, <5>3, <6>1
        <5>5. w[p] <= w[q]  BY <2>5, <5>2
        <5>6. w[p] <= w[i]
          <6> HIDE DEF w, q, p
          <6> QED  BY <5>3, <5>4, <5>5
        <5> QED  BY <4>2, <5>6
      <4> QED  BY <4>1, <4>2
    <3>4. Ordered(s.heap, V)  BY <2>2, <3>3
    <3> QED  BY <2>1, <3>2, <3>4
  <2>6. CASE ~(2 * p > n \/ w[p] <= w[q])
    <3> DEFINE r == [pos |-> q, heap |-> Swap(s.heap, p, q)]
    <3>1. 2 * p <= n /\ ~(w[p] <= w[q])  BY <1>0, <2>3, <2>6
    <3>2. /\ q \in 2 .. n /\ q \in 1 .. n /\ q \in 1 .. n + 1 /\ p = q \div 2 /\ p \in 1 .. n /\ p < q
      <4>1. q \in 2 .. n /\ q \div 2 = p /\ p \in 1 .. n  BY <2>4, <3>1
      <4> HIDE DEF q, n
      <4> QED  BY <1>0, <4>1, Half
    <3>3. w[q] \in Int /\ w[p] \in Int /\ w[q] < w[p]
      <4> HIDE DEF q, w, p
      <4> QED  BY <2>3, <3>1, <3>2
    <3>4. ~(2 * p > n \/ V[s.heap.list[p]] <= V[s.heap.list[q]])
      <4> HIDE DEF q
      <4> QED  BY <2>2, <2>6, <3>2
    <3>5. DownRound(V)[s] = r  BY <2>1, <3>4 DEF DownRound
    <3>6. r \in OnWay(h, D, n + 1)
      <4> HIDE DEF q, n
      <4> QED  BY <2>1, <3>2, WayGoesOn
    <3>7. PICK x : x = Values(Swap(s.heap, p, q), V)  OBVIOUS
    <3>8. Exchanged(w, x, n, p, q)
      <4>1. p # q
        <5> HIDE DEF p, q
        <5> QED  BY <2>3, <3>2
      <4> HIDE DEF p, q
      <4> QED  BY <2>1, <3>2, <3>7, <4>1, SwapValues
    <3>9. DownTo(x, n, q)
      <4>1. \A i \in 2 .. n : i \div 2 = p => w[q] <= w[i]  BY <2>4, <3>1
      <4> HIDE DEF n, w, p, q
      <4> QED  BY <2>1, <3>2, <3>3, <3>8, <4>1, DownSwap
    <3>10. q > k + 1 \/ Ordered(r.heap, V)
      <4>1. ~Ordered(s.heap, V)
        <5> HIDE DEF q, w
        <5> QED  BY <2>2, <3>1, <3>2
      <4>2. p > k  BY <2>1, <4>1
      <4> HIDE DEF p, q
      <4> QED  BY <1>0, <2>3, <3>2, <4>2
    <3>11. At(r)  BY <3>7, <3>9
    <3>12. r.pos = q /\ k + 1 \in Nat  OBVIOUS
    <3>13. r \in T[k + 1]
      <4> HIDE DEF r
      <4>1. r.pos > k + 1 \/ Ordered(r.heap, V)  BY <3>10, <3>12
      <4> QED  BY <3>6, <3>11, <3>12, <4>1
    <3> QED  BY <3>5, <3>13
  <2> QED  BY <2>5, <2>6
<1>3. Iterate(DownRound(V), start, n) \in T[n]
  <2> HIDE DEF T, n, start
  <2> QED  BY <1>0, <1>1, <1>2, IterateReaches
<1>4. HeapDown(h, at, V) = Iterate(DownRound(V), start, n).heap  BY DEF HeapDown
<1>5. PICK s : s = Iterate(DownRound(V), start, n)  OBVIOUS
<1>6. s \in OnWay(h, D, n + 1) /\ At(s) /\ (s.pos > n \/ Ordered(s.heap, V))  BY <1>0, <1>3, <1>5
<1>7. ASSUME s.pos > n PROVE Ordered(s.heap, V)
  <2>1. s.pos \in Nat /\ HeapOK(s.heap, D) /\ Len(s.heap.list) = n
    BY <1>0, <1>6 DEF OnWay, SameEntries
  <2>2. PICK w : w = Values(s.heap, V)  OBVIOUS
  <2>3. Ordered(s.heap, V) <=> \A i \in 2 .. n : w[i \div 2] <= w[i]
    <3> HIDE DEF n
    <3> QED  BY <2>1, <2>2, OrderedIs
  <2>4. ASSUME NEW i \in 2 .. n PROVE i \div 2 # s.pos
    <3>1. i \in Nat /\ i <= n /\ i \div 2 <= n  BY <1>0, Half
    <3> QED  BY <1>0, <1>7, <2>1, <3>1
  <2> QED  BY <1>6, <2>2, <2>3, <2>4 DEF DownTo
<1> QED  BY <1>4, <1>5, <1>6, <1>7

\* HeapTop of a heap in order is the least of its entries: WakeupTimeout, which
\* stops at the first thread that is not due, leaves none behind.
THEOREM TopLeast ==
    ASSUME NEW h, HeapOK(h, {}), NEW V \in [Threads -> Int], Ordered(h, V)
    PROVE  \A e \in ToSet(h.list) : V[HeapTop(h)] <= V[e]
<1>0. PICK n, w : n = Len(h.list) /\ w = Values(h, V)  OBVIOUS
<1>1. /\ n \in Nat /\ w \in [1 .. n -> Int] /\ \A i \in 1 .. n : w[i] = V[h.list[i]]
      /\ \A i \in 2 .. n : w[i \div 2] <= w[i]
  BY <1>0, OrderedIs
<1> DEFINE S == {i \in 1 .. n : ~(w[1] <= w[i])}
<1>2. ASSUME S # {} PROVE FALSE
  <2>1. PICK i \in S : \A j \in S : i <= j
    <3>1. S \in SUBSET Nat  BY <1>1
    <3> HIDE DEF S
    <3> QED  BY <1>2, <3>1, LeastNat
  <2>2. i \in 1 .. n /\ i # 1 /\ i \in 2 .. n /\ 1 \in 1 .. n  BY <1>1, <2>1
  <2>3. PICK j : j = i \div 2  OBVIOUS
  <2>4. j \in 1 .. n /\ ~(i <= j)  BY <1>1, <2>2, <2>3, Half
  <2>5. w[1] <= w[j] /\ w[j] <= w[i]  BY <1>1, <2>1, <2>2, <2>3, <2>4
  <2>6. w[1] \in Int /\ w[j] \in Int /\ w[i] \in Int  BY <1>1, <2>2, <2>4
  <2> QED  BY <2>1, <2>5, <2>6
<1>3. ASSUME NEW e \in ToSet(h.list) PROVE V[HeapTop(h)] <= V[e]
  <2>1. h.list \in Seq(Threads)  BY DEF HeapOK, Heaps
  <2>2. PICK i \in 1 .. n : h.list[i] = e  BY <1>0, <2>1 DEF ToSet
  <2>3. i \notin S /\ 1 \in 1 .. n  BY <1>1, <1>2
  <2> QED  BY <1>1, <2>2, <2>3 DEF HeapTop
<1> QED  BY <1>3

\* HeapPush keeps the order.
THEOREM PushKeepsOrder ==
    ASSUME NEW h, HeapOK(h, {}), NEW V \in [Threads -> Int], Ordered(h, V),
           NEW e \in Threads, h.index[e] = 0
    PROVE  Ordered(HeapPush(h, e, V), V)
<1> DEFINE n == Len(h.list)
<1>0. PICK g : g = Pushed(h, e)  OBVIOUS
<1>1. HeapPush(h, e, V) = HeapUp(g, V)  BY <1>0, NeverFull DEF HeapPush, Pushed
<1>2. HeapOK(g, {}) /\ Len(g.list) = n + 1 /\ \A i \in 1 .. n : g.list[i] = h.list[i]
  BY <1>0, PushedOK
<1>3. n \in Nat  BY DEF HeapOK, Heaps
<1>5. PICK w, x : w = Values(h, V) /\ x = Values(g, V)  OBVIOUS
<1>6. /\ w \in [1 .. n -> Int] /\ \A i \in 1 .. n : w[i] = V[h.list[i]]
      /\ \A i \in 2 .. n : w[i \div 2] <= w[i]
  BY <1>5, OrderedIs
<1>7. x \in [1 .. n + 1 -> Int] /\ \A i \in 1 .. n + 1 : x[i] = V[g.list[i]]
  BY <1>2, <1>5, OrderedIs
<1> HIDE DEF n
<1>8. UpTo(x, n + 1, n + 1)
  <2>1. ASSUME NEW i \in 2 .. n + 1
        PROVE  i \div 2 # n + 1 /\ i \div 2 \in 1 .. n /\ (i # n + 1 => i \in 2 .. n /\ i \in 1 .. n)
    BY <1>3, Half
  <2>2. ASSUME NEW i \in 1 .. n PROVE x[i] = w[i]
    <3>1. i \in 1 .. n + 1  BY <1>3
    <3>2. x[i] = V[g.list[i]] /\ g.list[i] = h.list[i]  BY <1>2, <1>7, <3>1
    <3> QED  BY <1>6, <3>2
  <2> QED  BY <1>6, <2>1, <2>2 DEF UpTo
<1>9. UpTo(Values(g, V), Len(g.list), Len(g.list)) /\ Len(g.list) # 0  BY <1>2, <1>3, <1>5, <1>8
<1> QED  BY <1>1, <1>2, <1>9, HeapUpOrder

\* HeapDelete keeps it where the last entry, which takes the place of the deleted
\* one and only sinks, is not smaller than its new parent.
THEOREM DeleteKeepsOrder ==
    ASSUME NEW h, HeapOK(h, {}), NEW V \in [Threads -> Int], Ordered(h, V),
           NEW e \in Threads, h.index[e] # 0,
           \/ h.index[e] = 1
           \/ V[h.list[h.index[e] \div 2]] <= V[h.list[Len(h.list)]]
    PROVE  Ordered(HeapDelete(h, e, V), V)
<1> DEFINE n == Len(h.list)
           p == h.index[e]
<1>0. PICK g : g = Moved(h, e)  OBVIOUS
<1>1. /\ HeapOK(g, {e}) /\ Len(g.list) = n - 1 /\ p \in 1 .. n /\ n \in Nat /\ n - 1 \in Nat
      /\ \A k \in 1 .. n - 1 : g.list[k] = IF k = p THEN h.list[n] ELSE h.list[k]
  <2>1. n \in Nat  BY DEF HeapOK, Heaps
  <2>2. /\ HeapOK(g, {e}) /\ Len(g.list) = n - 1 /\ p \in 1 .. n
        /\ \A k \in 1 .. n - 1 : g.list[k] = IF k = p THEN h.list[n] ELSE h.list[k]
    BY <1>0, MovedOK
  <2> QED  BY <2>1, <2>2
<1>2. PICK w, x : w = Values(h, V) /\ x = Values(g, V)  OBVIOUS
<1>3. /\ w \in [1 .. n -> Int] /\ \A i \in 1 .. n : w[i] = V[h.list[i]]
      /\ \A i \in 2 .. n : w[i \div 2] <= w[i]
  BY <1>2, OrderedIs
<1>4. x \in [1 .. n - 1 -> Int] /\ \A i \in 1 .. n - 1 : x[i] = V[g.list[i]]
  BY <1>1, <1>2, OrderedIs
<1>5. \A i \in 1 .. n - 1 : i \in 1 .. n /\ x[i] = IF i = p THEN w[n] ELSE w[i]
  <2>1. n \in 1 .. n /\ \A i \in 1 .. n - 1 : i \in 1 .. n  BY <1>1
  <2> HIDE DEF n, p
  <2>2. ASSUME NEW i \in 1 .. n - 1 PROVE x[i] = IF i = p THEN w[n] ELSE w[i]
    <3>1. x[i] = V[g.list[i]] /\ g.list[i] = IF i = p THEN h.list[n] ELSE h.list[i]
      BY <1>1, <1>4
    <3>2. w[n] = V[h.list[n]] /\ w[i] = V[h.list[i]]  BY <1>3, <2>1
    <3>3. CASE i = p  BY <3>1, <3>2, <3>3
    <3>4. CASE i # p  BY <3>1, <3>2, <3>4
    <3> QED  BY <3>3, <3>4
  <2> QED  BY <2>1, <2>2
<1>6. p = 1 \/ w[p \div 2] <= w[n]
  <2>1. CASE p # 1
    <3>1. p \div 2 \in 1 .. n /\ n \in 1 .. n  BY <1>1, <2>1, Half
    <3> QED  BY <1>3, <2>1, <3>1
  <2> QED  BY <2>1
<1>7. DownTo(x, n - 1, p)
  <2> HIDE DEF n, p
  <2>1. ASSUME NEW i \in 2 .. n - 1
        PROVE  i \in 2 .. n /\ i \in 1 .. n - 1 /\ i \div 2 \in 1 .. n - 1 /\ i \div 2 < i
    BY <1>1, Half
  <2>2. ASSUME NEW i \in 2 .. n - 1, i \div 2 # p PROVE x[i \div 2] <= x[i]
    <3>1. x[i \div 2] = w[i \div 2] /\ w[i \div 2] <= w[i]  BY <1>3, <1>5, <2>1, <2>2
    <3>2. CASE i # p  BY <1>5, <2>1, <3>1, <3>2
    <3>3. CASE i = p
      <4>1. p # 1 /\ x[i] = w[n]  BY <1>5, <2>1, <3>3
      <4> QED  BY <1>6, <3>1, <3>3, <4>1
    <3> QED  BY <3>2, <3>3
  <2>3. ASSUME NEW i \in 2 .. n - 1, i \div 2 = p, p \div 2 >= 1 PROVE x[p \div 2] <= x[i]
    <3>1. PICK j : j = p \div 2  OBVIOUS
    <3>2. p \in 2 .. n /\ p \in 1 .. n - 1 /\ j \in 1 .. n - 1 /\ j # p /\ j \in 1 .. n
      BY <1>1, <2>1, <2>3, <3>1, Half
    <3>3. i # p /\ i \in 1 .. n  BY <1>1, <2>1, <2>3
    <3>4. x[j] = w[j] /\ x[i] = w[i]  BY <1>5, <2>1, <3>2, <3>3
    <3>5. w[j] <= w[p] /\ w[p] <= w[i]  BY <1>3, <2>1, <2>3, <3>1, <3>2
    <3>6. w[j] \in Int /\ w[p] \in Int /\ w[i] \in Int  BY <1>1, <1>3, <3>2, <3>3
    <3>7. w[j] <= w[i]  BY <3>5, <3>6
    <3> QED  BY <3>1, <3>4, <3>7
  <2> QED  BY <2>2, <2>3 DEF DownTo
<1>8. p \in 1 .. Len(g.list) + 1 /\ DownTo(Values(g, V), Len(g.list), p)  BY <1>1, <1>2, <1>7
<1>9. Ordered(HeapDown(g, p, V), V)
  <2> HIDE DEF p
  <2> QED  BY <1>1, <1>8, HeapDownOrder
<1>10. HeapDelete(h, e, V).list = HeapDown(g, p, V).list  BY <1>0, HeapDeleteOK
<1> QED  BY <1>9, <1>10 DEF Ordered

\* So it does in any heap of at most five entries, whichever is deleted: the parent of
\* its place is then above the last entry.
THEOREM SmallHeapsKeepOrder ==
    ASSUME NEW h, HeapOK(h, {}), NEW V \in [Threads -> Int], Ordered(h, V),
           NEW e \in Threads, h.index[e] # 0, Len(h.list) <= 5
    PROVE  Ordered(HeapDelete(h, e, V), V)
<1>0. PICK n, p, w : n = Len(h.list) /\ p = h.index[e] /\ w = Values(h, V)  OBVIOUS
<1>1. /\ n \in Nat /\ w \in [1 .. n -> Int] /\ \A i \in 1 .. n : w[i] = V[h.list[i]]
      /\ \A i \in 2 .. n : w[i \div 2] <= w[i]
  BY <1>0, OrderedIs
<1>2. p \in 1 .. n /\ n <= 5 /\ n \in 1 .. n
  <2>1. p \in 1 .. n  BY <1>0, MovedOK
  <2> QED  BY <1>0, <1>1, <2>1
<1>3. \A i \in 1 .. n : w[i] \in Int  BY <1>1
<1>4. p = 1 \/ w[p \div 2] <= w[n]
  <2>1. CASE n = 2
    <3>1. p = 1 \/ p = 2  BY <1>2, <2>1
    <3>2. w[1] <= w[2]
      <4>1. w[2 \div 2] <= w[2]  BY <1>1, <2>1
      <4> QED  BY <4>1
    <3> QED  BY <2>1, <3>1, <3>2
  <2>2. CASE n = 3
    <3>1. p = 1 \/ p = 2 \/ p = 3  BY <1>2, <2>2
    <3>2. w[1] <= w[3]
      <4>1. w[3 \div 2] <= w[3]  BY <1>1, <2>2
      <4> QED  BY <4>1
    <3>3. p # 1 => p \div 2 = 1  BY <3>1
    <3> QED  BY <2>2, <3>2, <3>3
  <2>3. CASE n = 4 \/ n = 5
    <3>1. p = 1 \/ p = 2 \/ p = 3 \/ p = 4 \/ p = 5  BY <1>2, <2>3
    <3>2. p # 1 => p \div 2 = 1 \/ p \div 2 = 2  BY <3>1
    <3>3. w[1] <= w[2] /\ w[2] <= w[n]
      <4>1. w[2 \div 2] <= w[2] /\ w[n \div 2] <= w[n]  BY <1>1, <2>3
      <4>2. n \div 2 = 2 /\ 2 \div 2 = 1  BY <2>3
      <4> QED  BY <4>1, <4>2
    <3>4. w[1] \in Int /\ w[2] \in Int /\ w[n] \in Int  BY <1>2, <1>3, <2>3
    <3>5. w[1] <= w[n]  BY <3>3, <3>4
    <3> QED  BY <3>2, <3>3, <3>5
  <2>4. CASE n = 1  BY <1>2, <2>4
  <2> QED  BY <1>1, <1>2, <2>1, <2>2, <2>3, <2>4
<1>5. p = 1 \/ V[h.list[p \div 2]] <= V[h.list[n]]
  <2>1. CASE p # 1
    <3>1. p \div 2 \in 1 .. n  BY <1>1, <1>2, <2>1, Half
    <3> QED  BY <1>1, <1>2, <1>4, <2>1, <3>1
  <2> QED  BY <2>1
<1> QED  BY <1>0, <1>5, DeleteKeepsOrder
=============================================================================
