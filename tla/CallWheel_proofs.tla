-------------------------- MODULE CallWheel_proofs --------------------------
(* Proofs about CallWheel for any callouts, delays, wheel size and lag. *)
EXTENDS CallWheel, SequenceTheorems, TLAPS

TickSet == 0 .. TickMod - 1

(***************************************************************************)
(* The inductive invariant: WalkStaysOnWheel, with what the control state  *)
(* says of the running handler and of softclock's curticks, and a sharper  *)
(* form of NothingMissed.  A pending callout is due within MaxDelay ticks  *)
(* of ticks, or in the tick that is walked now.  The bound Lag + MaxDelay  *)
(* in place of Reach is what tells a time that has passed from one that is *)
(* still to come, on counters that wrap.                                   *)
(***************************************************************************)
OnWheel ==
    /\ \A b \in Buckets : IsInjective(wheel[b])
    /\ \A b \in Buckets, x \in Callouts :
           x \in ToSet(wheel[b]) <=> x \in pending /\ b = callout_get_bucket(time[x])

ControlInv ==
    /\ pc # "handler" => curr[1] = NULL
    /\ pc = "handler" => c # NULL
    /\ pc \in {"walk", "handler"} => softticks = (curticks + 1) % TickMod

Due(x) ==
    \/ Ahead(time[x], softticks) <= Lag + MaxDelay
    \/ x \in InWalk /\ time[x] = curticks
DueInv == \A x \in pending : Due(x)

Inv == TypeOK /\ WalkStaysOnWheel /\ ControlInv /\ DueInv

-----------------------------------------------------------------------------
(***************************************************************************)
(* Ticks.                                                                  *)
(***************************************************************************)
\* What the assumptions say of the numbers.
LEMMA Constants ==
    /\ TickMod \in Nat /\ MaxLag \in Nat /\ MaxDelay \in Nat /\ MaxDelay >= 1
    /\ MaxLag + MaxDelay + 1 < TickMod
    /\ \A n \in ToTicks : (IF n <= 0 THEN 1 ELSE n) \in Delays
    /\ \A n \in Delays : n \in Int /\ 1 <= n /\ n <= MaxDelay
<1>1. \A n \in Delays : n \in Int /\ 1 <= n  BY TickAssumption DEF Delays
<1>2. MaxDelay \in Delays /\ \A n \in Delays : n <= MaxDelay  BY TickAssumption DEF MaxDelay
<1>3. \A n \in ToTicks : (IF n <= 0 THEN 1 ELSE n) \in Delays  BY DEF Delays
<1> QED  BY <1>1, <1>2, <1>3, TickAssumption DEF Reach

\* The remainder of a number below the modulus.
LEMMA ModSmall == ASSUME NEW m \in Nat \ {0}, NEW x \in 0 .. m - 1 PROVE x % m = x
OBVIOUS
\* The remainder of a number that has wrapped once.
LEMMA ModOver == ASSUME NEW m \in Nat \ {0}, NEW x \in m .. 2 * m - 1 PROVE x % m = x - m
OBVIOUS
\* The remainder of a difference of two ticks that is negative.
LEMMA ModUnder == ASSUME NEW m \in Nat \ {0}, NEW x \in -m .. -1 PROVE x % m = x + m
OBVIOUS

\* A bucket for every tick.
LEMMA BucketType == \A t \in TickSet : callout_get_bucket(t) \in Buckets
BY SizeAssumption, Constants DEF callout_get_bucket, Buckets, TickSet

\* The distance of two ticks without the remainder.
LEMMA AheadIs ==
    ASSUME NEW t \in TickSet, NEW s \in TickSet
    PROVE  /\ t >= s => Ahead(t, s) = t - s
           /\ t < s => Ahead(t, s) = t - s + TickMod
<1>1. TickMod \in Nat \ {0} /\ t \in Int /\ s \in Int /\ 0 <= t /\ t < TickMod /\ 0 <= s /\ s < TickMod
  BY Constants DEF TickSet
<1>2. CASE t >= s
  <2>1. t - s \in 0 .. TickMod - 1  BY <1>1, <1>2
  <2> QED  BY <1>1, <1>2, <2>1, ModSmall DEF Ahead
<1>3. CASE t < s
  <2>1. t - s \in -TickMod .. -1  BY <1>1, <1>3
  <2> QED  BY <1>1, <1>3, <2>1, ModUnder DEF Ahead
<1> QED  BY <1>1, <1>2, <1>3

\* A later tick, without the remainder.
LEMMA PlusIs ==
    ASSUME NEW t \in TickSet, NEW n \in 0 .. TickMod - 1
    PROVE  /\ t + n < TickMod => (t + n) % TickMod = t + n
           /\ t + n >= TickMod => (t + n) % TickMod = t + n - TickMod
           /\ (t + n) % TickMod \in TickSet
<1>1. TickMod \in Nat \ {0} /\ t \in Int /\ 0 <= t /\ t < TickMod /\ n \in Int /\ 0 <= n /\ n < TickMod
  BY Constants DEF TickSet
<1>2. CASE t + n < TickMod
  <2>1. t + n \in 0 .. TickMod - 1  BY <1>1, <1>2
  <2> QED  BY <1>1, <1>2, <2>1, ModSmall DEF TickSet
<1>3. CASE t + n >= TickMod
  <2>1. t + n \in TickMod .. 2 * TickMod - 1  BY <1>1, <1>3
  <2>2. (t + n) % TickMod = t + n - TickMod  BY <1>1, <2>1, ModOver, SMTT(60)
  <2> QED  BY <1>1, <1>3, <2>2 DEF TickSet
<1> QED  BY <1>1, <1>2, <1>3

\* A distance is a tick, and 0 only between equal ticks.
LEMMA AheadType ==
    ASSUME NEW t \in TickSet, NEW s \in TickSet
    PROVE  Ahead(t, s) \in TickSet /\ (Ahead(t, s) = 0 <=> t = s)
BY AheadIs, Constants DEF TickSet

\* A tick that moves on by n is n further ahead, as long as it does not lap.
LEMMA AheadPlus ==
    ASSUME NEW t \in TickSet, NEW s \in TickSet, NEW n \in 0 .. TickMod - 1,
           Ahead(t, s) + n < TickMod
    PROVE  (t + n) % TickMod \in TickSet /\ Ahead((t + n) % TickMod, s) = Ahead(t, s) + n
<1>1. PICK u \in TickSet : u = (t + n) % TickMod  BY PlusIs
<1>2. (t + n < TickMod => u = t + n) /\ (t + n >= TickMod => u = t + n - TickMod)
  BY <1>1, PlusIs
<1>3. (t >= s => Ahead(t, s) = t - s) /\ (t < s => Ahead(t, s) = t - s + TickMod)  BY AheadIs
<1>4. (u >= s => Ahead(u, s) = u - s) /\ (u < s => Ahead(u, s) = u - s + TickMod)  BY AheadIs
<1>5. Ahead(u, s) = Ahead(t, s) + n  BY <1>2, <1>3, <1>4, Constants DEF TickSet
<1> QED  BY <1>1, <1>5

\* A tick that s moves towards is one nearer, and s moves past its own tick.
LEMMA AheadNext ==
    ASSUME NEW t \in TickSet, NEW s \in TickSet
    PROVE  /\ (s + 1) % TickMod \in TickSet
           /\ Ahead(t, s) > 0 => Ahead(t, (s + 1) % TickMod) = Ahead(t, s) - 1
           /\ Ahead(t, s) = 0 => Ahead(t, (s + 1) % TickMod) = TickMod - 1
<1>0. 1 \in 0 .. TickMod - 1  BY Constants
<1>1. PICK u \in TickSet : u = (s + 1) % TickMod  BY <1>0, PlusIs
<1>2. (s + 1 < TickMod => u = s + 1) /\ (s + 1 >= TickMod => u = s + 1 - TickMod)
  BY <1>0, <1>1, PlusIs
<1>3. (t >= s => Ahead(t, s) = t - s) /\ (t < s => Ahead(t, s) = t - s + TickMod)  BY AheadIs
<1>4. (t >= u => Ahead(t, u) = t - u) /\ (t < u => Ahead(t, u) = t - u + TickMod)  BY AheadIs
<1>5. /\ Ahead(t, s) > 0 => Ahead(t, u) = Ahead(t, s) - 1
      /\ Ahead(t, s) = 0 => Ahead(t, u) = TickMod - 1
  BY <1>2, <1>3, <1>4, Constants DEF TickSet
<1> QED  BY <1>1, <1>5

\* The distance of two ticks from their distances to a third.
LEMMA AheadVia ==
    ASSUME NEW x \in TickSet, NEW t \in TickSet, NEW s \in TickSet
    PROVE  Ahead(x, t) = IF Ahead(x, s) >= Ahead(t, s) THEN Ahead(x, s) - Ahead(t, s)
                         ELSE Ahead(x, s) - Ahead(t, s) + TickMod
BY AheadIs, Constants DEF TickSet
-----------------------------------------------------------------------------
(***************************************************************************)
(* Buckets.                                                                *)
(***************************************************************************)
\* Where x stands in a list that has it once.
LEMMA PlaceUnique ==
    ASSUME NEW list \in Seq(Callouts), IsInjective(list), NEW p \in 1 .. Len(list)
    PROVE  (CHOOSE i \in 1 .. Len(list) : list[i] = list[p]) = p
BY DEF IsInjective

\* RemoveAt drops one place and moves the later ones up.
LEMMA RemoveAtPlace ==
    ASSUME NEW list \in Seq(Callouts), NEW p \in 1 .. Len(list)
    PROVE  /\ RemoveAt(list, p) \in Seq(Callouts)
           /\ Len(RemoveAt(list, p)) = Len(list) - 1
           /\ \A i \in 1 .. p - 1 : RemoveAt(list, p)[i] = list[i]
           /\ \A i \in p .. Len(list) - 1 : RemoveAt(list, p)[i] = list[i + 1]
<1> DEFINE a == SubSeq(list, 1, p - 1)
           b == SubSeq(list, p + 1, Len(list))
<1>0. Len(list) \in Nat /\ p \in Int /\ 1 <= p /\ p <= Len(list)  OBVIOUS
<1>1. a \in Seq(Callouts) /\ Len(a) = p - 1 /\ \A i \in 1 .. p - 1 : a[i] = list[i]
  OBVIOUS
<1>2. /\ b \in Seq(Callouts) /\ Len(b) = Len(list) - p
      /\ \A i \in 1 .. Len(list) - p : b[i] = list[p + i]
  OBVIOUS
<1>3. RemoveAt(list, p) = a \o b  BY DEF RemoveAt
<1> HIDE DEF a, b
<1>4. a \o b \in Seq(Callouts) /\ Len(a \o b) = Len(list) - 1
  <2>1. a \o b \in Seq(Callouts) /\ Len(a \o b) = Len(a) + Len(b)  BY <1>1, <1>2, ConcatProperties
  <2> QED  BY <1>0, <1>1, <1>2, <2>1
<1>5. ASSUME NEW i \in 1 .. p - 1 PROVE (a \o b)[i] = list[i]  BY <1>0, <1>1, <1>2
<1>6. ASSUME NEW i \in p .. Len(list) - 1 PROVE (a \o b)[i] = list[i + 1]
  <2>1. (a \o b)[i] = b[i - (p - 1)]  BY <1>0, <1>1, <1>2
  <2>2. b[i - (p - 1)] = list[i + 1]  BY <1>0, <1>2
  <2> QED  BY <2>1, <2>2
<1> QED  BY <1>3, <1>4, <1>5, <1>6

\* Taking x out of a list that has no duplicates.
LEMMA RemainingSet ==
    ASSUME NEW list \in Seq(Callouts), IsInjective(list), NEW x
    PROVE  /\ Remaining(list, x) \in Seq(Callouts)
           /\ IsInjective(Remaining(list, x))
           /\ ToSet(Remaining(list, x)) = ToSet(list) \ {x}
<1>0. /\ Len(list) \in Nat /\ DOMAIN list = 1 .. Len(list)
      /\ \A i, j \in 1 .. Len(list) : list[i] = list[j] => i = j
  BY DEF IsInjective
<1>1. CASE ~\E i \in 1 .. Len(list) : list[i] = x  BY <1>0, <1>1 DEF Remaining, ToSet
<1>2. ASSUME NEW p \in 1 .. Len(list), list[p] = x
      PROVE  /\ Remaining(list, x) \in Seq(Callouts)
             /\ IsInjective(Remaining(list, x))
             /\ ToSet(Remaining(list, x)) = ToSet(list) \ {x}
  <2> DEFINE r == RemoveAt(list, p)
  <2>1. Remaining(list, x) = r
    <3>1. (CHOOSE i \in 1 .. Len(list) : list[i] = x) = p  BY <1>2, PlaceUnique
    <3> QED  BY <1>2, <3>1 DEF Remaining
  <2>2. /\ r \in Seq(Callouts) /\ Len(r) = Len(list) - 1
        /\ \A i \in 1 .. p - 1 : r[i] = list[i]
        /\ \A i \in p .. Len(list) - 1 : r[i] = list[i + 1]
    BY RemoveAtPlace
  <2> HIDE DEF r
  <2>3. DOMAIN r = 1 .. Len(list) - 1  BY <2>2
  <2>4. IsInjective(r)
    <3> SUFFICES ASSUME NEW i \in 1 .. Len(list) - 1, NEW j \in 1 .. Len(list) - 1, r[i] = r[j]
                 PROVE  i = j
      BY <2>3 DEF IsInjective
    <3>1. PICK k \in 1 .. Len(list) : r[i] = list[k] /\ (i < p => k = i) /\ (i >= p => k = i + 1)
      <4>1. CASE i < p  BY <1>0, <2>2, <4>1
      <4>2. CASE i >= p  BY <1>0, <2>2, <4>2
      <4> QED  BY <1>0, <4>1, <4>2
    <3>2. PICK l \in 1 .. Len(list) : r[j] = list[l] /\ (j < p => l = j) /\ (j >= p => l = j + 1)
      <4>1. CASE j < p  BY <1>0, <2>2, <4>1
      <4>2. CASE j >= p  BY <1>0, <2>2, <4>2
      <4> QED  BY <1>0, <4>1, <4>2
    <3>3. k = l  BY <1>0, <3>1, <3>2
    <3> QED  BY <1>0, <3>1, <3>2, <3>3
  <2>5. ASSUME NEW y \in ToSet(r) PROVE y \in ToSet(list) \ {x}
    <3>1. PICK i \in 1 .. Len(list) - 1 : r[i] = y  BY <2>3, <2>5 DEF ToSet
    <3>2. CASE i < p
      <4>1. i \in 1 .. Len(list) /\ i # p /\ list[i] = y  BY <1>0, <2>2, <3>1, <3>2
      <4> QED  BY <1>0, <1>2, <4>1 DEF ToSet
    <3>3. CASE i >= p
      <4>1. i + 1 \in 1 .. Len(list) /\ i + 1 # p /\ list[i + 1] = y  BY <1>0, <2>2, <3>1, <3>3
      <4> QED  BY <1>0, <1>2, <4>1 DEF ToSet
    <3> QED  BY <1>0, <3>2, <3>3
  <2>6. ASSUME NEW y \in ToSet(list) \ {x} PROVE y \in ToSet(r)
    <3>1. PICK i \in 1 .. Len(list) : list[i] = y  BY <1>0 DEF ToSet
    <3>2. CASE i < p  BY <1>0, <2>2, <2>3, <3>1, <3>2 DEF ToSet
    <3>3. CASE i > p
      <4>1. i - 1 \in 1 .. Len(list) - 1 /\ r[i - 1] = y  BY <1>0, <2>2, <3>1, <3>3
      <4> QED  BY <2>3, <4>1 DEF ToSet
    <3> QED  BY <1>2, <3>1, <3>2, <3>3
  <2> QED  BY <2>1, <2>2, <2>4, <2>5, <2>6
<1> QED  BY <1>1, <1>2

\* The order of the others stays.
LEMMA RemainingRest ==
    ASSUME NEW list \in Seq(Callouts), IsInjective(list), NEW x, NEW y, x # y
    PROVE  Rest(Remaining(list, x), y) = Rest(list, y) \ {x}
<1>0. /\ Len(list) \in Nat /\ DOMAIN list = 1 .. Len(list)
      /\ \A i, j \in 1 .. Len(list) : list[i] = list[j] => i = j
  BY DEF IsInjective
<1>1. CASE ~\E i \in 1 .. Len(list) : list[i] = x  BY <1>0, <1>1 DEF Remaining, Rest
<1>2. ASSUME NEW p \in 1 .. Len(list), list[p] = x
      PROVE  Rest(Remaining(list, x), y) = Rest(list, y) \ {x}
  <2> DEFINE r == RemoveAt(list, p)
  <2>1. Remaining(list, x) = r
    <3>1. (CHOOSE i \in 1 .. Len(list) : list[i] = x) = p  BY <1>2, PlaceUnique
    <3> QED  BY <1>2, <3>1 DEF Remaining
  <2>2. /\ r \in Seq(Callouts) /\ Len(r) = Len(list) - 1
        /\ \A i \in 1 .. p - 1 : r[i] = list[i]
        /\ \A i \in p .. Len(list) - 1 : r[i] = list[i + 1]
    BY RemoveAtPlace
  <2> HIDE DEF r
  <2>3. ASSUME NEW z \in Rest(r, y) PROVE z \in Rest(list, y) \ {x}
    <3>0. PICK i \in 1 .. Len(list) - 1 : r[i] = z /\ \E k \in 1 .. i : r[k] = y
      BY <2>2, <2>3 DEF Rest
    <3>1. PICK k \in 1 .. i : r[i] = z /\ r[k] = y  BY <3>0
    <3>2. PICK j \in 1 .. Len(list) : r[i] = list[j] /\ j # p /\ (i < p => j = i) /\ (i >= p => j = i + 1)
      <4>1. CASE i < p  BY <1>0, <2>2, <4>1
      <4>2. CASE i >= p  BY <1>0, <2>2, <4>2
      <4> QED  BY <1>0, <4>1, <4>2
    <3>3. PICK l \in 1 .. j : list[l] = y
      <4>1. CASE k < p  BY <1>0, <2>2, <3>1, <3>2, <4>1
      <4>2. CASE k >= p
        <5>1. k + 1 \in 1 .. j /\ r[k] = list[k + 1]  BY <1>0, <2>2, <3>1, <3>2, <4>2
        <5> QED  BY <3>1, <5>1
      <4> QED  BY <1>0, <4>1, <4>2
    <3> QED  BY <1>0, <1>2, <3>1, <3>2, <3>3 DEF Rest
  <2>4. ASSUME NEW z \in Rest(list, y) \ {x} PROVE z \in Rest(r, y)
    <3>0. PICK i \in 1 .. Len(list) : list[i] = z /\ \E k \in 1 .. i : list[k] = y
      BY <2>4 DEF Rest
    <3>1. PICK k \in 1 .. i : list[i] = z /\ list[k] = y  BY <3>0
    <3>2. i # p /\ k # p  BY <1>2, <2>4, <3>1
    <3>3. PICK j \in 1 .. Len(list) - 1 : r[j] = z /\ (i < p => j = i) /\ (i >= p => j = i - 1)
      <4>1. CASE i < p
        <5>1. i \in 1 .. Len(list) - 1 /\ r[i] = list[i]  BY <1>0, <2>2, <4>1
        <5> QED  BY <1>0, <3>1, <4>1, <5>1
      <4>2. CASE i > p
        <5>1. i - 1 \in p .. Len(list) - 1 /\ r[i - 1] = list[i]  BY <1>0, <2>2, <4>2
        <5> QED  BY <1>0, <3>1, <4>2, <5>1
      <4> QED  BY <1>0, <3>2, <4>1, <4>2
    <3>4. \E l \in 1 .. j : r[l] = y
      <4>1. CASE k < p
        <5>1. k \in 1 .. j  BY <1>0, <3>2, <3>3, <4>1
        <5>2. r[k] = y  BY <1>0, <2>2, <3>1, <4>1
        <5> QED  BY <5>1, <5>2
      <4>2. CASE k > p
        <5>1. k - 1 \in p .. Len(list) - 1 /\ r[k - 1] = list[k] /\ k - 1 \in 1 .. j
          BY <1>0, <2>2, <3>1, <3>2, <3>3, <4>2
        <5> QED  BY <3>1, <5>1
      <4> QED  BY <1>0, <3>2, <4>1, <4>2
    <3> QED  BY <2>2, <3>3, <3>4 DEF Rest
  <2> QED  BY <2>1, <2>3, <2>4
<1> QED  BY <1>1, <1>2

\* The step of a walk: the successor and what comes after it.
LEMMA NextRest ==
    ASSUME NEW list \in Seq(Callouts), IsInjective(list), NEW x \in ToSet(list)
    PROVE  /\ NextIn(list, x) \in (ToSet(list) \ {x}) \cup {NULL}
           /\ Rest(list, NextIn(list, x)) = Rest(list, x) \ {x}
<1>0. /\ Len(list) \in Nat /\ DOMAIN list = 1 .. Len(list)
      /\ \A i, j \in 1 .. Len(list) : list[i] = list[j] => i = j
  BY DEF IsInjective
<1>1. PICK p \in 1 .. Len(list) : list[p] = x  BY <1>0 DEF ToSet
<1>2. CASE p < Len(list)
  <2>1. NextIn(list, x) = list[p + 1]
    <3>1. p \in 1 .. Len(list) - 1  BY <1>0, <1>2
    <3>2. (CHOOSE i \in 1 .. Len(list) - 1 : list[i] = x) = p  BY <1>0, <1>1, <3>1
    <3>3. NextIn(list, x) = list[1 + p]  BY <1>1, <3>1, <3>2 DEF NextIn
    <3> QED  BY <3>3
  <2>2. p + 1 \in 1 .. Len(list) /\ list[p + 1] # x  BY <1>0, <1>1, <1>2
  <2>3. list[p + 1] \in ToSet(list) \ {x}  BY <1>0, <2>2 DEF ToSet
  <2>4. ASSUME NEW i \in 1 .. Len(list)
        PROVE  (\E k \in 1 .. i : list[k] = list[p + 1]) <=> (\E k \in 1 .. i : list[k] = x) /\ list[i] # x
    BY <1>0, <1>1, <2>2
  <2>5. Rest(list, list[p + 1]) = Rest(list, x) \ {x}
    BY <2>4 DEF Rest
  <2> QED  BY <2>1, <2>3, <2>5
<1>3. CASE p = Len(list)
  <2>1. NextIn(list, x) = NULL  BY <1>0, <1>1, <1>3 DEF NextIn
  <2>2. Rest(list, NULL) = {}  BY CalloutAssumption DEF Rest
  <2>3. ASSUME NEW i \in 1 .. Len(list), NEW k \in 1 .. i, list[k] = x PROVE list[i] = x
    BY <1>0, <1>1, <1>3, <2>3
  <2>4. Rest(list, x) \ {x} = {}  BY <2>3 DEF Rest
  <2> QED  BY <2>1, <2>2, <2>4
<1>4. p < Len(list) \/ p = Len(list)  OBVIOUS
<1> QED  BY <1>2, <1>3, <1>4

\* LIST_INSERT_HEAD
LEMMA HeadRest ==
    ASSUME NEW list \in Seq(Callouts), IsInjective(list), NEW x \in Callouts \ ToSet(list)
    PROVE  /\ <<x>> \o list \in Seq(Callouts)
           /\ IsInjective(<<x>> \o list)
           /\ ToSet(<<x>> \o list) = ToSet(list) \cup {x}
           /\ Rest(<<x>> \o list, x) = ToSet(list) \cup {x}
           /\ \A y : y # x => Rest(<<x>> \o list, y) = Rest(list, y)
<1> DEFINE r == <<x>> \o list
<1>0. /\ Len(list) \in Nat /\ DOMAIN list = 1 .. Len(list)
      /\ \A i, j \in 1 .. Len(list) : list[i] = list[j] => i = j
      /\ \A i \in 1 .. Len(list) : list[i] # x
  BY DEF IsInjective, ToSet
<1>1. /\ r \in Seq(Callouts) /\ Len(r) = Len(list) + 1 /\ DOMAIN r = 1 .. Len(list) + 1
      /\ r[1] = x /\ \A i \in 1 .. Len(list) : r[i + 1] = list[i]
  <2>1. <<x>> \in Seq(Callouts) /\ Len(<<x>>) = 1 /\ <<x>>[1] = x  OBVIOUS
  <2>2. r \in Seq(Callouts) /\ Len(r) = 1 + Len(list)  BY <2>1, ConcatProperties
  <2>3. DOMAIN r = 1 .. Len(r)  BY <2>2
  <2>4. r[1] = x  BY <1>0
  <2>5. ASSUME NEW i \in 1 .. Len(list) PROVE r[i + 1] = list[i]  BY <1>0
  <2> HIDE DEF r
  <2> QED  BY <1>0, <2>2, <2>3, <2>4, <2>5
<1> HIDE DEF r
<1>2. ASSUME NEW i \in 1 .. Len(list) + 1
      PROVE  (i = 1 /\ r[i] = x) \/ (i - 1 \in 1 .. Len(list) /\ r[i] = list[i - 1])
  <2>1. CASE i = 1  BY <1>1, <2>1
  <2>2. CASE i > 1
    <3>1. i - 1 \in 1 .. Len(list) /\ i = (i - 1) + 1  BY <1>0, <2>2
    <3> QED  BY <1>1, <3>1
  <2> QED  BY <1>0, <2>1, <2>2
<1>3. IsInjective(r)
  <2> SUFFICES ASSUME NEW i \in 1 .. Len(list) + 1, NEW j \in 1 .. Len(list) + 1, r[i] = r[j]
               PROVE  i = j
    BY <1>1 DEF IsInjective
  <2> QED  BY <1>0, <1>2
<1>4. ToSet(r) = ToSet(list) \cup {x}
  <2>1. ASSUME NEW y \in ToSet(r) PROVE y \in ToSet(list) \cup {x}
    BY <1>0, <1>1, <1>2, <2>1, SMTT(60) DEF ToSet
  <2>2. ASSUME NEW y \in ToSet(list) PROVE y \in ToSet(r)
    <3>1. PICK i \in 1 .. Len(list) : list[i] = y  BY <1>0 DEF ToSet
    <3>2. i + 1 \in 1 .. Len(list) + 1 /\ r[i + 1] = y  BY <1>0, <1>1, <3>1
    <3> QED  BY <1>1, <3>2 DEF ToSet
  <2>3. x \in ToSet(r)  BY <1>0, <1>1 DEF ToSet
  <2> QED  BY <2>1, <2>2, <2>3
<1>5. Rest(r, x) = ToSet(r)
  <2>1. \A i \in 1 .. Len(r) : \E k \in 1 .. i : r[k] = x  BY <1>0, <1>1
  <2> QED  BY <1>1, <2>1 DEF Rest, ToSet
<1>6. ASSUME NEW y, y # x PROVE Rest(r, y) = Rest(list, y)
  <2>1. ASSUME NEW z \in Rest(r, y) PROVE z \in Rest(list, y)
    <3>0. PICK i \in 1 .. Len(list) + 1 : r[i] = z /\ \E k \in 1 .. i : r[k] = y
      BY <1>1, <2>1 DEF Rest
    <3>1. PICK k \in 1 .. i : r[k] = y  BY <3>0
    <3>2. k \in 1 .. Len(list) + 1 /\ k # 1 /\ i # 1  BY <1>0, <1>1, <1>6, <3>1
    <3>3. k - 1 \in 1 .. Len(list) /\ list[k - 1] = y /\ i - 1 \in 1 .. Len(list) /\ list[i - 1] = z
      BY <1>2, <3>0, <3>1, <3>2
    <3>4. k - 1 \in 1 .. i - 1  BY <1>0, <3>3
    <3> QED  BY <3>3, <3>4 DEF Rest
  <2>2. ASSUME NEW z \in Rest(list, y) PROVE z \in Rest(r, y)
    <3>0. PICK i \in 1 .. Len(list) : list[i] = z /\ \E k \in 1 .. i : list[k] = y
      BY <2>2 DEF Rest
    <3>1. PICK k \in 1 .. i : list[k] = y  BY <3>0
    <3>2. /\ i + 1 \in 1 .. Len(r) /\ r[i + 1] = z
          /\ k + 1 \in 1 .. i + 1 /\ r[k + 1] = y
      BY <1>0, <1>1, <3>0, <3>1
    <3> QED  BY <3>2 DEF Rest
  <2> QED  BY <2>1, <2>2
<1> QED  BY <1>1, <1>3, <1>4, <1>5, <1>6 DEF r

\* LIST_FIRST
LEMMA FirstRest ==
    ASSUME NEW list \in Seq(Callouts)
    PROVE  /\ First(list) \in ToSet(list) \cup {NULL}
           /\ Rest(list, First(list)) = ToSet(list)
<1>0. Len(list) \in Nat /\ DOMAIN list = 1 .. Len(list)  OBVIOUS
<1>1. CASE list = <<>>  BY <1>1 DEF First, Rest, ToSet
<1>2. CASE list # <<>>
  <2>1. First(list) = list[1] /\ 1 \in 1 .. Len(list)  BY <1>2 DEF First
  <2>2. \A i \in 1 .. Len(list) : \E k \in 1 .. i : list[k] = First(list)  BY <1>0, <2>1
  <2> QED  BY <1>0, <2>1, <2>2 DEF Rest, ToSet
<1> QED  BY <1>1, <1>2

\* Nothing comes after NULL, and only elements of the list come after an element.
LEMMA RestType ==
    ASSUME NEW list \in Seq(Callouts)
    PROVE  Rest(list, NULL) = {} /\ \A x : Rest(list, x) \subseteq ToSet(list)
BY CalloutAssumption DEF Rest, ToSet
-----------------------------------------------------------------------------
(***************************************************************************)
(* The wheel under the calls of the stack and of softclock.                *)
(***************************************************************************)
\* The wheel without x.
LEMMA UnlinkEffect ==
    ASSUME TypeOK, OnWheel, NEW x
    PROVE  /\ Unlink(wheel, x) \in [Buckets -> Seq(Callouts)]
           /\ \A b \in Buckets : IsInjective(Unlink(wheel, x)[b])
           /\ \A b \in Buckets : ToSet(Unlink(wheel, x)[b]) = ToSet(wheel[b]) \ {x}
           /\ \A b \in Buckets : \A y : x # y =>
                  Rest(Unlink(wheel, x)[b], y) = Rest(wheel[b], y) \ {x}
<1>1. ASSUME NEW b \in Buckets
      PROVE  /\ Remaining(wheel[b], x) \in Seq(Callouts)
             /\ IsInjective(Remaining(wheel[b], x))
             /\ ToSet(Remaining(wheel[b], x)) = ToSet(wheel[b]) \ {x}
             /\ \A y : x # y => Rest(Remaining(wheel[b], x), y) = Rest(wheel[b], y) \ {x}
  <2>1. wheel[b] \in Seq(Callouts) /\ IsInjective(wheel[b])  BY DEF TypeOK, OnWheel
  <2> QED  BY <2>1, RemainingSet, RemainingRest
<1>2. \A b \in Buckets : Unlink(wheel, x)[b] = Remaining(wheel[b], x)  BY DEF Unlink
<1>3. Unlink(wheel, x) \in [Buckets -> Seq(Callouts)]  BY <1>1 DEF Unlink
<1> QED  BY <1>1, <1>2, <1>3

\* cc_next, where x leaves the wheel.
LEMMA NextWithoutEffect ==
    ASSUME TypeOK, WalkStaysOnWheel, NEW x \in Callouts
    PROVE  /\ NextWithout(x) \in ToSet(Unlink(wheel, x)[bucket]) \cup {NULL}
           /\ Rest(Unlink(wheel, x)[bucket], NextWithout(x)) = Rest(wheel[bucket], next) \ {x}
<1> DEFINE list == wheel[bucket]
           n == NextWithout(x)
<1>0. /\ OnWheel /\ bucket \in Buckets /\ list \in Seq(Callouts) /\ IsInjective(list)
      /\ next \in ToSet(list) \cup {NULL} /\ x # NULL
  BY CalloutAssumption DEF WalkStaysOnWheel, OnWheel, TypeOK
<1>1. /\ ToSet(Unlink(wheel, x)[bucket]) = ToSet(list) \ {x}
      /\ \A y : x # y => Rest(Unlink(wheel, x)[bucket], y) = Rest(list, y) \ {x}
  BY <1>0, UnlinkEffect
<1>2. CASE next = x
  <2>1. x \in pending /\ bucket = callout_get_bucket(time[x])
    BY <1>0, <1>2 DEF OnWheel
  <2>2. n = NextIn(list, x)  BY <1>2, <2>1 DEF NextWithout
  <2>3. n \in (ToSet(list) \ {x}) \cup {NULL} /\ Rest(list, n) = Rest(list, x) \ {x}
    BY <1>0, <1>2, <2>2, NextRest
  <2>4. n # x  BY <1>0, <2>3
  <2> HIDE DEF n, list
  <2> QED  BY <1>1, <1>2, <2>3, <2>4 DEF n, list
<1>3. CASE next # x
  <2>1. n = next  BY <1>3 DEF NextWithout
  <2> QED  BY <1>0, <1>1, <1>3, <2>1
<1> QED  BY <1>2, <1>3

\* softclock_call_cc takes c off the wheel and points cc_next to its successor.
LEMMA RunEffect ==
    ASSUME TypeOK, WalkStaysOnWheel, CallHandler
    PROVE  /\ c \in pending /\ c \in Callouts /\ bucket' \in Buckets
           /\ wheel' \in [Buckets -> Seq(Callouts)]
           /\ \A b \in Buckets : IsInjective(wheel'[b])
           /\ \A b \in Buckets : ToSet(wheel'[b]) = ToSet(wheel[b]) \ {c}
           /\ next' \in ToSet(wheel'[bucket']) \cup {NULL}
           /\ next' \in Callouts \cup {NULL}
           /\ Rest(wheel'[bucket'], next') = Rest(Walked, c) \ {c}
<1>0. /\ OnWheel /\ pc = "walk" /\ c \in ToSet(Walked) /\ c \in Callouts
      /\ wheel' = Unlink(wheel, c) /\ bucket' = callout_get_bucket(curticks)
      /\ next' = NextIn(Walked, c)
  BY DEF CallHandler, Run, WalkStaysOnWheel, OnWheel, TypeOK
<1>1. /\ bucket' \in Buckets /\ Walked = wheel[bucket']
  BY <1>0, BucketType DEF TypeOK, TickSet, Walked
<1>2. Walked \in Seq(Callouts) /\ IsInjective(Walked)  BY <1>0, <1>1 DEF TypeOK, OnWheel
<1>3. c \in pending  BY <1>0, <1>1 DEF OnWheel
<1>4. next' \in (ToSet(Walked) \ {c}) \cup {NULL} /\ Rest(Walked, next') = Rest(Walked, c) \ {c}
  BY <1>0, <1>2, NextRest
<1>5. next' # c  BY <1>0, <1>4, CalloutAssumption
<1>6. /\ wheel' \in [Buckets -> Seq(Callouts)]
      /\ \A b \in Buckets : IsInjective(wheel'[b])
      /\ \A b \in Buckets : ToSet(wheel'[b]) = ToSet(wheel[b]) \ {c}
      /\ \A b \in Buckets : \A y : c # y => Rest(wheel'[b], y) = Rest(wheel[b], y) \ {c}
  BY <1>0, UnlinkEffect
<1>7. ToSet(Walked) \subseteq Callouts  BY <1>2 DEF ToSet
<1>8. Rest(wheel'[bucket'], next') = Rest(Walked, c) \ {c}
  <2>1. Rest(wheel'[bucket'], next') = Rest(Walked, next') \ {c}  BY <1>1, <1>5, <1>6
  <2> QED  BY <1>4, <2>1
<1>9. next' \in ToSet(wheel'[bucket']) \cup {NULL}  BY <1>1, <1>4, <1>6
<1> QED  BY <1>0, <1>1, <1>3, <1>4, <1>6, <1>7, <1>8, <1>9

\* callout_stop takes x off the wheel, if it is there.
LEMMA StopEffect ==
    ASSUME TypeOK, WalkStaysOnWheel, NEW x \in Callouts, callout_stop(x)
    PROVE  /\ wheel' \in [Buckets -> Seq(Callouts)]
           /\ \A b \in Buckets : IsInjective(wheel'[b])
           /\ \A b \in Buckets : ToSet(wheel'[b]) = ToSet(wheel[b]) \ {x}
           /\ next' \in ToSet(wheel'[bucket]) \cup {NULL}
           /\ Rest(wheel'[bucket], next') = Rest(wheel[bucket], next) \ {x}
<1>0. OnWheel /\ wheel \in [Buckets -> Seq(Callouts)]  BY DEF WalkStaysOnWheel, OnWheel, TypeOK
<1>1. wheel' = Unlink(wheel, x)
  <2>1. CASE x \in pending  BY <2>1 DEF callout_stop
  <2>2. CASE x \notin pending
    <3>1. ASSUME NEW b \in Buckets PROVE Remaining(wheel[b], x) = wheel[b]
      <4>1. x \notin ToSet(wheel[b])  BY <1>0, <2>2 DEF OnWheel
      <4>2. wheel[b] \in Seq(Callouts)  BY <1>0
      <4> QED  BY <4>1, <4>2 DEF Remaining, ToSet
    <3>2. Unlink(wheel, x) = wheel  BY <1>0, <3>1 DEF Unlink
    <3> QED  BY <2>2, <3>2 DEF callout_stop
  <2> QED  BY <2>1, <2>2
<1>2. next' = NextWithout(x)  BY DEF callout_stop
<1> QED  BY <1>0, <1>1, <1>2, UnlinkEffect, NextWithoutEffect

\* The bucket of the time x is armed for.
ArmTime(n) == (ticks + (IF n <= 0 THEN 1 ELSE n)) % TickMod

\* An armed callout is due in the delay it was armed for.
LEMMA ArmEffect ==
    ASSUME TypeOK, NEW n \in ToTicks
    PROVE  /\ ArmTime(n) \in TickSet
           /\ Ahead(ArmTime(n), ticks) = IF n <= 0 THEN 1 ELSE n
           /\ Ahead(ArmTime(n), softticks) <= Lag + MaxDelay
<1>1. PICK k \in Delays : k = (IF n <= 0 THEN 1 ELSE n)  BY Constants
<1>2. k \in 0 .. TickMod - 1 /\ k <= MaxDelay
  <2>1. k \in Int /\ 1 <= k /\ k <= MaxDelay  BY Constants
  <2> QED  BY <2>1, Constants
<1>3. ticks \in TickSet /\ softticks \in TickSet /\ Lag <= MaxLag  BY DEF TypeOK, TickSet
<1>4. ArmTime(n) = (ticks + k) % TickMod  BY <1>1 DEF ArmTime
<1>5. Ahead(ticks, ticks) = 0 /\ Ahead(ticks, softticks) \in TickSet  BY <1>3, AheadType
<1>6. (ticks + k) % TickMod \in TickSet /\ Ahead((ticks + k) % TickMod, ticks) = k
  <2>1. Ahead(ticks, ticks) + k < TickMod  BY <1>2, <1>5, Constants
  <2>2. /\ (ticks + k) % TickMod \in TickSet
        /\ Ahead((ticks + k) % TickMod, ticks) = Ahead(ticks, ticks) + k
    BY <1>2, <1>3, <2>1, AheadPlus
  <2> QED  BY <1>2, <1>5, <2>2
<1>7. Ahead((ticks + k) % TickMod, softticks) <= Lag + MaxDelay
  <2>1. Ahead(ticks, softticks) + k < TickMod  BY <1>2, <1>3, <1>5, Constants DEF Lag, TickSet
  <2>2. Ahead((ticks + k) % TickMod, softticks) = Ahead(ticks, softticks) + k
    BY <1>2, <1>3, <2>1, AheadPlus
  <2> QED  BY <1>2, <1>5, <2>2, Constants DEF Lag, TickSet
<1> QED  BY <1>1, <1>4, <1>6, <1>7

\* callout_reset moves x to the head of the bucket of its new time.
LEMMA ResetEffect ==
    ASSUME TypeOK, WalkStaysOnWheel, NEW x \in Callouts, NEW n \in ToTicks, callout_reset(x, n)
    PROVE  LET b == callout_get_bucket(ArmTime(n))
           IN  /\ b \in Buckets
               /\ wheel' \in [Buckets -> Seq(Callouts)]
               /\ \A d \in Buckets : IsInjective(wheel'[d])
               /\ \A d \in Buckets : d # b => ToSet(wheel'[d]) = ToSet(wheel[d]) \ {x}
               /\ ToSet(wheel'[b]) = ToSet(wheel[b]) \cup {x}
               /\ next' \in ToSet(wheel'[bucket]) \cup {NULL}
               /\ next' \in Callouts \cup {NULL}
               /\ Rest(wheel[bucket], next) \ {x} \subseteq Rest(wheel'[bucket], next')
<1> DEFINE b == callout_get_bucket(ArmTime(n))
           w == Unlink(wheel, x)
           nx == NextWithout(x)
<1>0. OnWheel /\ wheel \in [Buckets -> Seq(Callouts)] /\ bucket \in Buckets
  BY DEF WalkStaysOnWheel, OnWheel, TypeOK
<1>1. b \in Buckets  BY ArmEffect, BucketType
<1>2. wheel' = [w EXCEPT ![b] = <<x>> \o @] /\ next' = IF bucket = b THEN x ELSE nx
  BY DEF callout_reset, callout_cc_add, ArmTime
<1>3. /\ w \in [Buckets -> Seq(Callouts)]
      /\ \A d \in Buckets : IsInjective(w[d])
      /\ \A d \in Buckets : ToSet(w[d]) = ToSet(wheel[d]) \ {x}
  BY <1>0, UnlinkEffect
<1>4. nx \in ToSet(w[bucket]) \cup {NULL} /\ Rest(w[bucket], nx) = Rest(wheel[bucket], next) \ {x}
  BY NextWithoutEffect
<1> HIDE DEF b, w, nx
<1>5. w[b] \in Seq(Callouts) /\ IsInjective(w[b]) /\ x \in Callouts \ ToSet(w[b])  BY <1>1, <1>3
<1>6. /\ <<x>> \o w[b] \in Seq(Callouts) /\ IsInjective(<<x>> \o w[b])
      /\ ToSet(<<x>> \o w[b]) = ToSet(w[b]) \cup {x}
      /\ Rest(<<x>> \o w[b], x) = ToSet(w[b]) \cup {x}
  BY <1>5, HeadRest
<1>7. wheel'[b] = <<x>> \o w[b] /\ \A d \in Buckets : d # b => wheel'[d] = w[d]
  BY <1>1, <1>2, <1>3
<1>8. wheel' \in [Buckets -> Seq(Callouts)]  BY <1>1, <1>2, <1>3, <1>6
<1>9. \A d \in Buckets : IsInjective(wheel'[d])  BY <1>3, <1>6, <1>7
<1>10. \A d \in Buckets : d # b => ToSet(wheel'[d]) = ToSet(wheel[d]) \ {x}  BY <1>3, <1>7
<1>11. ToSet(wheel'[b]) = ToSet(wheel[b]) \cup {x}  BY <1>1, <1>3, <1>6, <1>7
<1>12. /\ next' \in ToSet(wheel'[bucket]) \cup {NULL}
       /\ next' \in Callouts \cup {NULL}
       /\ Rest(wheel[bucket], next) \ {x} \subseteq Rest(wheel'[bucket], next')
  <2>1. CASE bucket = b
    <3>1. next' = x /\ wheel'[bucket] = <<x>> \o w[b]  BY <1>2, <1>7, <2>1
    <3>2. Rest(w[bucket], nx) \subseteq ToSet(w[b])  BY <1>5, <2>1, RestType
    <3> QED  BY <1>4, <1>6, <3>1, <3>2
  <2>2. CASE bucket # b
    <3>1. next' = nx /\ wheel'[bucket] = w[bucket]  BY <1>0, <1>2, <1>7, <2>2
    <3>2. ToSet(w[bucket]) \subseteq Callouts
      <4>1. w[bucket] \in Seq(Callouts)  BY <1>0, <1>3
      <4> QED  BY <4>1 DEF ToSet
    <3> QED  BY <1>4, <3>1, <3>2
  <2> QED  BY <2>1, <2>2
<1> QED  BY <1>1, <1>8, <1>9, <1>10, <1>11, <1>12 DEF b

-----------------------------------------------------------------------------
(***************************************************************************)
(* The invariant, action by action.                                        *)
(***************************************************************************)
\* The clocks.
LEMMA StepTicks ==
    TypeOK /\ [Next]_vars => /\ ticks' \in TickSet /\ softticks' \in TickSet
                             /\ Lag' \in Nat /\ Lag' <= MaxLag
<1> SUFFICES ASSUME TypeOK, [Next]_vars
             PROVE  /\ ticks' \in TickSet /\ softticks' \in TickSet
                    /\ Lag' \in Nat /\ Lag' <= MaxLag
  OBVIOUS
<1>0. /\ ticks \in TickSet /\ softticks \in TickSet /\ Lag \in TickSet /\ Lag <= MaxLag
      /\ Lag = 0 <=> ticks = softticks
  BY AheadType DEF TypeOK, TickSet, Lag
<1>1. CASE Tick
  <2>1. 1 \in 0 .. TickMod - 1 /\ Ahead(ticks, softticks) + 1 < TickMod
    BY <1>0, <1>1, Constants DEF Tick, Lag, TickSet
  <2>2. ticks' = (ticks + 1) % TickMod /\ softticks' = softticks  BY <1>1 DEF Tick, clock
  <2>3. /\ (ticks + 1) % TickMod \in TickSet
        /\ Ahead((ticks + 1) % TickMod, softticks) = Ahead(ticks, softticks) + 1
    BY <1>0, <2>1, AheadPlus
  <2> QED  BY <1>0, <1>1, <2>2, <2>3, Constants DEF Tick, Lag, TickSet
<1>2. CASE ticks' = ticks /\ softticks' = (softticks + 1) % TickMod /\ Lag > 0
  <2>1. /\ (softticks + 1) % TickMod \in TickSet
        /\ Ahead(ticks, (softticks + 1) % TickMod) = Ahead(ticks, softticks) - 1
    BY <1>0, <1>2, AheadNext DEF Lag
  <2> QED  BY <1>0, <1>2, <2>1, Constants DEF Lag, TickSet
<1>3. CASE ticks' = ticks /\ softticks' = softticks  BY <1>0, <1>3 DEF Lag, TickSet
<1>4. CASE callout_tick  BY <1>2, <1>3, <1>4 DEF callout_tick, Behind
<1>5. CASE softclock
  <2>1. softticks # ticks => Lag > 0  BY <1>0, Constants DEF TickSet
  <2> QED  BY <1>2, <1>3, <1>5, <2>1 DEF softclock
<1>6. CASE ff_hardclock_worker \/ WalkOn \/ HandlerReturn
  BY <1>3, <1>6 DEF ff_hardclock_worker, WalkOn, HandlerReturn
<1>7. CASE CallHandler  BY <1>3, <1>7 DEF CallHandler, Run
<1>8. ASSUME NEW x \in Callouts, callout_stop(x) PROVE ticks' = ticks /\ softticks' = softticks
  BY <1>8 DEF callout_stop, clock
<1>9. ASSUME NEW x \in Callouts, NEW n \in ToTicks, callout_reset(x, n)
      PROVE  ticks' = ticks /\ softticks' = softticks
  BY <1>9 DEF callout_reset, clock
<1>10. CASE UNCHANGED vars  BY <1>3, <1>10 DEF vars, clock
<1> QED
  BY <1>1, <1>3, <1>4, <1>5, <1>6, <1>7, <1>8, <1>9, <1>10 DEF Next, ClockStep, StackCall

\* Types.
LEMMA StepType == Inv /\ [Next]_vars => TypeOK'
<1> SUFFICES ASSUME Inv, [Next]_vars PROVE TypeOK'  OBVIOUS
<1>0. TypeOK /\ WalkStaysOnWheel  BY DEF Inv
<1>1. ticks' \in 0 .. TickMod - 1 /\ softticks' \in 0 .. TickMod - 1 /\ Lag' <= MaxLag
  BY <1>0, StepTicks DEF TickSet
<1>2. CASE Tick \/ ff_hardclock_worker \/ callout_tick
  BY <1>0, <1>1, <1>2 DEF Tick, ff_hardclock_worker, callout_tick, clock, flags, TypeOK
<1>3. CASE softclock
  <2>1. ASSUME NEW b \in Buckets PROVE First(wheel[b]) \in Callouts \cup {NULL}
    <3>1. wheel[b] \in Seq(Callouts)  BY <1>0 DEF TypeOK
    <3> QED  BY <3>1 DEF First
  <2>2. callout_get_bucket(softticks) \in Buckets  BY <1>0, BucketType DEF TypeOK, TickSet
  <2>3. curticks' \in 0 .. TickMod - 1 /\ c' \in Callouts \cup {NULL}
    BY <1>0, <1>3, <2>1, <2>2 DEF softclock, TypeOK
  <2> QED  BY <1>0, <1>1, <1>3, <2>3 DEF softclock, flags, TypeOK
<1>4. CASE WalkOn
  <2>1. c # NULL => NextIn(Walked, c) \in Callouts \cup {NULL}
    <3>1. Walked \in Seq(Callouts)  BY <1>0, BucketType DEF TypeOK, TickSet, Walked
    <3> QED  BY <3>1 DEF NextIn
  <2>2. curticks' \in 0 .. TickMod - 1 /\ c' \in Callouts \cup {NULL}
    BY <1>0, <1>4, <2>1, Constants DEF WalkOn, TypeOK
  <2> QED  BY <1>0, <1>1, <1>4, <2>2 DEF WalkOn, flags, TypeOK
<1>5. CASE CallHandler
  <2>1. /\ c \in Callouts /\ bucket' \in Buckets /\ wheel' \in [Buckets -> Seq(Callouts)]
        /\ next' \in Callouts \cup {NULL}
    BY <1>0, <1>5, RunEffect
  <2>2. 0 \in 0 .. TickMod - 1  BY Constants
  <2> QED  BY <1>0, <1>1, <1>5, <2>1, <2>2 DEF CallHandler, Run, TypeOK
<1>6. CASE HandlerReturn  BY <1>0, <1>1, <1>6 DEF HandlerReturn, flags, TypeOK
<1>7. ASSUME NEW x \in Callouts, callout_stop(x) PROVE TypeOK'
  <2>1. wheel' \in [Buckets -> Seq(Callouts)] /\ next' \in ToSet(wheel'[bucket]) \cup {NULL}
    BY <1>0, <1>7, StopEffect
  <2>2. next' \in Callouts \cup {NULL}
    <3>1. wheel'[bucket] \in Seq(Callouts)  BY <1>0, <2>1 DEF TypeOK
    <3> QED  BY <2>1, <3>1 DEF ToSet
  <2>3. 0 \in 0 .. TickMod - 1  BY Constants
  <2> QED  BY <1>0, <1>1, <1>7, <2>1, <2>2, <2>3 DEF callout_stop, clock, TypeOK
<1>8. ASSUME NEW x \in Callouts, NEW n \in ToTicks, callout_reset(x, n) PROVE TypeOK'
  <2>1. wheel' \in [Buckets -> Seq(Callouts)] /\ next' \in Callouts \cup {NULL}
    BY <1>0, <1>8, ResetEffect
  <2>2. ArmTime(n) \in 0 .. TickMod - 1  BY <1>0, ArmEffect DEF TickSet
  <2>3. time' = [time EXCEPT ![x] = ArmTime(n)] /\ pending' = pending \cup {x}
        /\ active' = active \cup {x}
    BY <1>8 DEF callout_reset, callout_cc_add, ArmTime
  <2>4. UNCHANGED <<bucket, curr, pc, curticks, c>>  BY <1>8 DEF callout_reset, clock
  <2> QED  BY <1>0, <1>1, <2>1, <2>2, <2>3, <2>4 DEF TypeOK
<1>9. CASE UNCHANGED vars  BY <1>0, <1>1, <1>9 DEF vars, clock, flags, TypeOK
<1> QED
  BY <1>2, <1>3, <1>4, <1>5, <1>6, <1>7, <1>8, <1>9 DEF Next, ClockStep, StackCall

\* The wheel, the flags and the pointers of the walk.
LEMMA StepWalk == Inv /\ [Next]_vars => WalkStaysOnWheel'
<1> SUFFICES ASSUME Inv, [Next]_vars PROVE WalkStaysOnWheel'  OBVIOUS
<1>0. TypeOK /\ WalkStaysOnWheel /\ ControlInv  BY DEF Inv
<1>1. CASE Tick \/ ff_hardclock_worker \/ callout_tick
  BY <1>0, <1>1 DEF Tick, ff_hardclock_worker, callout_tick, clock, flags, WalkStaysOnWheel, Walked
<1>2. CASE softclock
  <2>1. pc' = "walk" /\ c' # NULL => c' \in ToSet(Walked')
    <3>1. ASSUME pc' = "walk" PROVE /\ c' = First(wheel[callout_get_bucket(softticks)])
                                    /\ Walked' = wheel[callout_get_bucket(softticks)]
      BY <1>2, <3>1 DEF softclock, Walked
    <3>2. wheel[callout_get_bucket(softticks)] \in Seq(Callouts)
      BY <1>0, BucketType DEF TypeOK, TickSet
    <3> QED  BY <3>1, <3>2, FirstRest
  <2>2. pc' # "handler" /\ UNCHANGED <<wheel, next, bucket, time, pending, active>>
    BY <1>2 DEF softclock, flags
  <2> QED  BY <1>0, <2>1, <2>2 DEF WalkStaysOnWheel
<1>3. CASE WalkOn
  <2>1. pc' = "walk" /\ c' # NULL => c' \in ToSet(Walked')
    <3> SUFFICES ASSUME pc' = "walk", c' # NULL PROVE c' \in ToSet(Walked')  OBVIOUS
    <3>1. c # NULL /\ c' = NextIn(Walked, c) /\ Walked' = Walked /\ c \in ToSet(Walked)
      BY <1>0, <1>3 DEF WalkOn, WalkStaysOnWheel, Walked
    <3>2. Walked \in Seq(Callouts) /\ IsInjective(Walked)
      BY <1>0, BucketType DEF TypeOK, TickSet, Walked, WalkStaysOnWheel
    <3> QED  BY <3>1, <3>2, NextRest
  <2>2. pc' # "handler" /\ UNCHANGED <<wheel, next, bucket, time, pending, active>>
    BY <1>3 DEF WalkOn, flags
  <2> QED  BY <1>0, <2>1, <2>2 DEF WalkStaysOnWheel
<1>4. CASE CallHandler
  <2>1. /\ \A b \in Buckets : IsInjective(wheel'[b])
        /\ \A b \in Buckets : ToSet(wheel'[b]) = ToSet(wheel[b]) \ {c}
        /\ next' \in ToSet(wheel'[bucket']) \cup {NULL}
    BY <1>0, <1>4, RunEffect
  <2>2. /\ pc' = "handler" /\ pending' = pending \ {c} /\ time' = [time EXCEPT ![c] = 0]
        /\ active' = active /\ curr'[1] = c /\ c' = c /\ bucket' = callout_get_bucket(curticks)
        /\ curticks' = curticks
    BY <1>0, <1>4 DEF CallHandler, Run, TypeOK
  <2>3. \A b \in Buckets, x \in Callouts :
            x \in ToSet(wheel'[b]) <=> x \in pending' /\ b = callout_get_bucket(time'[x])
    BY <1>0, <2>1, <2>2 DEF WalkStaysOnWheel, TypeOK
  <2> QED  BY <1>0, <2>1, <2>2, <2>3 DEF WalkStaysOnWheel
<1>5. CASE HandlerReturn
  <2>1. /\ pc' = "walk" /\ c' = next /\ next' = NULL /\ curticks' = curticks
        /\ UNCHANGED <<wheel, bucket, time, pending, active>>
    BY <1>5 DEF HandlerReturn, flags
  <2>2. c' # NULL => c' \in ToSet(Walked')
    BY <1>0, <1>5, <2>1 DEF HandlerReturn, WalkStaysOnWheel, Walked
  <2> QED  BY <1>0, <2>1, <2>2 DEF WalkStaysOnWheel
<1>6. ASSUME NEW x \in Callouts, callout_stop(x) PROVE WalkStaysOnWheel'
  <2>1. /\ \A b \in Buckets : IsInjective(wheel'[b])
        /\ \A b \in Buckets : ToSet(wheel'[b]) = ToSet(wheel[b]) \ {x}
        /\ next' \in ToSet(wheel'[bucket]) \cup {NULL}
    BY <1>0, <1>6, StopEffect
  <2>2. /\ pc \in {"idle", "handler"} /\ pending' = pending \ {x} /\ time' = [time EXCEPT ![x] = 0]
        /\ active \ {x} \subseteq active' /\ UNCHANGED <<pc, c, curr, bucket, curticks>>
    BY <1>6 DEF callout_stop, Calling, clock
  <2>3. \A b \in Buckets, y \in Callouts :
            y \in ToSet(wheel'[b]) <=> y \in pending' /\ b = callout_get_bucket(time'[y])
    BY <1>0, <2>1, <2>2 DEF WalkStaysOnWheel, TypeOK
  <2> QED  BY <1>0, <2>1, <2>2, <2>3 DEF WalkStaysOnWheel
<1>7. ASSUME NEW x \in Callouts, NEW n \in ToTicks, callout_reset(x, n) PROVE WalkStaysOnWheel'
  <2>0. PICK b \in Buckets :
           /\ b = callout_get_bucket(ArmTime(n))
           /\ \A d \in Buckets : IsInjective(wheel'[d])
           /\ \A d \in Buckets : d # b => ToSet(wheel'[d]) = ToSet(wheel[d]) \ {x}
           /\ ToSet(wheel'[b]) = ToSet(wheel[b]) \cup {x}
           /\ next' \in ToSet(wheel'[bucket]) \cup {NULL}
    BY <1>0, <1>7, ResetEffect
  <2>1. /\ pc \in {"idle", "handler"} /\ UNCHANGED <<pc, c, curr, bucket, curticks>>
        /\ time' = [time EXCEPT ![x] = ArmTime(n)]
        /\ pending' = pending \cup {x} /\ active' = active \cup {x}
    BY <1>7 DEF callout_reset, callout_cc_add, Calling, clock, ArmTime
  <2>2. time'[x] = ArmTime(n) /\ \A y \in Callouts : y # x => time'[y] = time[y]
    BY <1>0, <2>1 DEF TypeOK
  <2>3. ASSUME NEW d \in Buckets, NEW y \in Callouts
        PROVE  y \in ToSet(wheel'[d]) <=> y \in pending' /\ d = callout_get_bucket(time'[y])
    BY <1>0, <2>0, <2>1, <2>2 DEF WalkStaysOnWheel
  <2> QED  BY <1>0, <2>0, <2>1, <2>3 DEF WalkStaysOnWheel
<1>8. CASE UNCHANGED vars  BY <1>0, <1>8 DEF vars, clock, flags, WalkStaysOnWheel, Walked
<1> QED
  BY <1>1, <1>2, <1>3, <1>4, <1>5, <1>6, <1>7, <1>8 DEF Next, ClockStep, StackCall

\* The running handler and the tick that is walked.
LEMMA StepControl == Inv /\ [Next]_vars => ControlInv'
<1> SUFFICES ASSUME Inv, [Next]_vars PROVE ControlInv'  OBVIOUS
<1>0. TypeOK /\ WalkStaysOnWheel /\ ControlInv  BY DEF Inv
<1> USE <1>0 DEF ControlInv
<1>1. CASE Tick \/ ff_hardclock_worker \/ callout_tick
  BY <1>1 DEF Tick, ff_hardclock_worker, callout_tick, clock
<1>2. CASE softclock  BY <1>2 DEF softclock
<1>3. CASE WalkOn  BY <1>3 DEF WalkOn
<1>4. CASE CallHandler  BY <1>4 DEF CallHandler, Run
<1>5. CASE HandlerReturn  BY <1>5 DEF HandlerReturn, TypeOK
<1>6. ASSUME NEW x \in Callouts, callout_stop(x) PROVE ControlInv'
  BY <1>6 DEF callout_stop, clock
<1>7. ASSUME NEW x \in Callouts, NEW n \in ToTicks, callout_reset(x, n) PROVE ControlInv'
  BY <1>7 DEF callout_reset, clock
<1>8. CASE UNCHANGED vars  BY <1>8 DEF vars, clock
<1> QED
  BY <1>1, <1>2, <1>3, <1>4, <1>5, <1>6, <1>7, <1>8 DEF Next, ClockStep, StackCall

\* The bound of Due when cc_softticks moves past a tick that x is not due in.
LEMMA DueMoves ==
    ASSUME TypeOK, NEW t \in TickSet, Lag > 0, Ahead(t, softticks) <= Lag + MaxDelay, t # softticks,
           ticks' = ticks, softticks' = (softticks + 1) % TickMod
    PROVE  Ahead(t, softticks') <= Lag' + MaxDelay
<1>0. ticks \in TickSet /\ softticks \in TickSet  BY DEF TypeOK, TickSet
<1>1. Ahead(t, softticks) \in TickSet /\ Ahead(t, softticks) > 0
  <2>1. Ahead(t, softticks) \in TickSet /\ Ahead(t, softticks) # 0  BY <1>0, AheadType
  <2> QED  BY <2>1 DEF TickSet
<1>2. Ahead(t, softticks') = Ahead(t, softticks) - 1  BY <1>0, <1>1, AheadNext
<1>3. Lag' = Lag - 1  BY <1>0, AheadNext DEF Lag
<1>4. Lag \in TickSet  BY <1>0, AheadType DEF Lag
<1> QED  BY <1>1, <1>2, <1>3, <1>4, Constants DEF TickSet

\* No callout is left behind.
LEMMA StepDue == Inv /\ [Next]_vars => DueInv'
<1> SUFFICES ASSUME Inv, [Next]_vars, NEW x \in pending' PROVE Due(x)'  BY DEF DueInv
<1>0. /\ TypeOK /\ WalkStaysOnWheel /\ ControlInv /\ \A y \in pending : Due(y)
      /\ ticks \in TickSet /\ softticks \in TickSet /\ curticks \in TickSet
      /\ \A y \in pending : y \in Callouts /\ time[y] \in TickSet
  BY DEF Inv, DueInv, TypeOK, TickSet
<1>1. CASE Tick
  <2>1. /\ UNCHANGED <<wheel, next, pc, c, curticks, softticks, time, pending>>
        /\ ticks' = (ticks + 1) % TickMod /\ Lag < MaxLag
    BY <1>1 DEF Tick, clock, flags
  <2>2. Lag' = Lag + 1
    <3>1. 1 \in 0 .. TickMod - 1 /\ Ahead(ticks, softticks) + 1 < TickMod
      <4>1. Lag \in TickSet  BY <1>0, AheadType DEF Lag
      <4> QED  BY <2>1, <4>1, Constants DEF TickSet, Lag
    <3> QED  BY <1>0, <2>1, <3>1, AheadPlus DEF Lag
  <2>3. Lag \in Int /\ Ahead(time[x], softticks) \in Int
    <3>1. Lag \in TickSet /\ Ahead(time[x], softticks) \in TickSet  BY <1>0, <2>1, AheadType DEF Lag
    <3> QED  BY <3>1 DEF TickSet
  <2>4. InWalk' = InWalk  BY <2>1 DEF InWalk, Walked
  <2> QED  BY <1>0, <2>1, <2>2, <2>3, <2>4, Constants DEF Due
<1>2. CASE ff_hardclock_worker
  <2>1. /\ UNCHANGED <<ticks, softticks, time, pending, curticks>> /\ pc = "idle"
    BY <1>2 DEF ff_hardclock_worker, flags
  <2>2. InWalk = {}  BY <2>1 DEF InWalk
  <2> QED  BY <1>0, <2>1, <2>2 DEF Due, Lag
<1>3. CASE callout_tick
  <2>1. /\ UNCHANGED <<ticks, time, pending, curticks>> /\ pc = "tick" /\ InWalk = {}
    BY <1>3 DEF callout_tick, flags, InWalk
  <2>2. CASE softticks' = softticks  BY <1>0, <2>1, <2>2 DEF Due, Lag
  <2>3. CASE /\ Lag > 0 /\ softticks' = (softticks + 1) % TickMod
             /\ wheel[callout_get_bucket(softticks)] = <<>>
    <3>1. Ahead(time[x], softticks) <= Lag + MaxDelay  BY <1>0, <2>1 DEF Due
    <3>2. time[x] # softticks
      <4>1. callout_get_bucket(softticks) \in Buckets  BY <1>0, BucketType
      <4>2. x \notin ToSet(wheel[callout_get_bucket(softticks)])  BY <2>3 DEF ToSet
      <4> QED  BY <1>0, <2>1, <4>1, <4>2 DEF WalkStaysOnWheel
    <3>3. Ahead(time[x], softticks') <= Lag' + MaxDelay
      BY <1>0, <2>1, <2>3, <3>1, <3>2, DueMoves
    <3> QED  BY <2>1, <3>3 DEF Due
  <2> QED  BY <1>3, <2>2, <2>3 DEF callout_tick, Behind
<1>4. CASE softclock
  <2>1. /\ UNCHANGED <<ticks, time, pending, wheel>> /\ pc = "soft" /\ InWalk = {}
    BY <1>4 DEF softclock, flags, InWalk
  <2>2. Ahead(time[x], softticks) <= Lag + MaxDelay  BY <1>0, <2>1 DEF Due
  <2>3. CASE softticks' = softticks  BY <2>1, <2>2, <2>3 DEF Due, Lag
  <2>4. CASE /\ softticks # ticks /\ softticks' = (softticks + 1) % TickMod
             /\ curticks' = softticks /\ pc' = "walk"
             /\ c' = First(wheel[callout_get_bucket(softticks)])
    <3>1. CASE time[x] = softticks
      <4>1. InWalk' = Rest(wheel[callout_get_bucket(softticks)], c')
        BY <2>1, <2>4 DEF InWalk, Walked
      <4>2. callout_get_bucket(softticks) \in Buckets  BY <1>0, BucketType
      <4>3. x \in ToSet(wheel[callout_get_bucket(softticks)])
        BY <1>0, <2>1, <3>1, <4>2 DEF WalkStaysOnWheel
      <4>4. x \in InWalk'
        <5>1. wheel[callout_get_bucket(softticks)] \in Seq(Callouts)  BY <1>0, <4>2 DEF TypeOK
        <5> QED  BY <2>4, <4>1, <4>3, <5>1, FirstRest
      <4> QED  BY <2>1, <2>4, <3>1, <4>4 DEF Due
    <3>2. CASE time[x] # softticks
      <4>1. Lag > 0
        <5>1. Lag \in TickSet /\ Lag # 0  BY <1>0, <2>4, AheadType DEF Lag
        <5> QED  BY <5>1 DEF TickSet
      <4>2. Ahead(time[x], softticks') <= Lag' + MaxDelay
        BY <1>0, <2>1, <2>2, <2>4, <3>2, <4>1, DueMoves
      <4> QED  BY <2>1, <4>2 DEF Due
    <3> QED  BY <3>1, <3>2
  <2> QED  BY <1>4, <2>3, <2>4 DEF softclock
<1>5. CASE WalkOn
  <2>1. UNCHANGED <<ticks, softticks, time, pending, wheel>> /\ pc = "walk" /\ Lag' = Lag
    BY <1>5 DEF WalkOn, flags, Lag
  <2>2. CASE Ahead(time[x], softticks) <= Lag + MaxDelay  BY <2>1, <2>2 DEF Due
  <2>3. CASE x \in InWalk /\ time[x] = curticks
    <3>1. /\ InWalk = Rest(Walked, c) /\ callout_get_bucket(curticks) \in Buckets
          /\ Walked \in Seq(Callouts) /\ IsInjective(Walked)
      BY <1>0, <2>1, BucketType DEF InWalk, Walked, TypeOK, WalkStaysOnWheel
    <3>2. c # NULL  BY <2>3, <3>1, RestType
    <3>3. /\ c \in ToSet(Walked) /\ time[c] # curticks /\ c' = NextIn(Walked, c)
          /\ pc' = "walk" /\ curticks' = curticks
      BY <1>0, <1>5, <2>1, <3>2 DEF WalkOn, WalkStaysOnWheel
    <3>4. InWalk' = Rest(Walked, c')  BY <2>1, <3>3 DEF InWalk, Walked
    <3>5. x \in InWalk'  BY <2>3, <3>1, <3>3, <3>4, NextRest
    <3> QED  BY <2>1, <2>3, <3>3, <3>5 DEF Due
  <2> QED  BY <1>0, <2>1, <2>2, <2>3 DEF Due
<1>6. CASE CallHandler
  <2>1. /\ UNCHANGED <<ticks, softticks, curticks>> /\ pc = "walk" /\ pc' = "handler" /\ Lag' = Lag
        /\ pending' = pending \ {c} /\ time' = [time EXCEPT ![c] = 0]
        /\ bucket' = callout_get_bucket(curticks)
    BY <1>6 DEF CallHandler, Run, Lag
  <2>2. x \in pending /\ x # c /\ time'[x] = time[x]  BY <1>0, <2>1 DEF TypeOK
  <2>3. CASE Ahead(time[x], softticks) <= Lag + MaxDelay  BY <2>1, <2>2, <2>3 DEF Due
  <2>4. CASE x \in InWalk /\ time[x] = curticks
    <3>1. InWalk = Rest(Walked, c) /\ InWalk' = Rest(wheel'[bucket'], next')
      BY <2>1 DEF InWalk, Walked
    <3>2. Rest(wheel'[bucket'], next') = Rest(Walked, c) \ {c}  BY <1>0, <1>6, RunEffect
    <3> QED  BY <2>1, <2>2, <2>4, <3>1, <3>2 DEF Due
  <2> QED  BY <1>0, <2>2, <2>3, <2>4 DEF Due
<1>7. CASE HandlerReturn
  <2>1. /\ UNCHANGED <<ticks, softticks, curticks, time, pending, wheel>> /\ c' = next
        /\ pc = "handler" /\ pc' = "walk" /\ Lag' = Lag
    BY <1>7 DEF HandlerReturn, flags, Lag
  <2>2. InWalk' = InWalk  BY <2>1 DEF InWalk, Walked
  <2> QED  BY <1>0, <2>1, <2>2 DEF Due
<1>8. ASSUME NEW y \in Callouts, callout_stop(y) PROVE Due(x)'
  <2>1. /\ UNCHANGED <<ticks, softticks, curticks, bucket, pc>> /\ pc \in {"idle", "handler"} /\ Lag' = Lag
        /\ pending' = pending \ {y} /\ time' = [time EXCEPT ![y] = 0]
    BY <1>8 DEF callout_stop, Calling, clock, Lag
  <2>2. x \in pending /\ x # y /\ time'[x] = time[x]  BY <1>0, <2>1 DEF TypeOK
  <2>3. CASE Ahead(time[x], softticks) <= Lag + MaxDelay  BY <2>1, <2>2, <2>3 DEF Due
  <2>4. CASE x \in InWalk /\ time[x] = curticks
    <3>1. pc = "handler"  BY <2>1, <2>4 DEF InWalk
    <3>2. InWalk = Rest(wheel[bucket], next) /\ InWalk' = Rest(wheel'[bucket], next')
      BY <1>0, <2>1, <3>1 DEF InWalk, Walked, WalkStaysOnWheel
    <3>3. Rest(wheel'[bucket], next') = Rest(wheel[bucket], next) \ {y}  BY <1>0, <1>8, StopEffect
    <3> QED  BY <2>1, <2>2, <2>4, <3>2, <3>3 DEF Due
  <2> QED  BY <1>0, <2>2, <2>3, <2>4 DEF Due
<1>9. ASSUME NEW y \in Callouts, NEW n \in ToTicks, callout_reset(y, n) PROVE Due(x)'
  <2>1. /\ UNCHANGED <<ticks, softticks, curticks, bucket, pc>> /\ pc \in {"idle", "handler"} /\ Lag' = Lag
        /\ pending' = pending \cup {y} /\ time' = [time EXCEPT ![y] = ArmTime(n)]
    BY <1>9 DEF callout_reset, callout_cc_add, ArmTime, Calling, clock, Lag
  <2>2. CASE x = y
    <3>1. time'[x] = ArmTime(n)  BY <1>0, <2>1, <2>2 DEF TypeOK
    <3>2. Ahead(ArmTime(n), softticks) <= Lag + MaxDelay  BY <1>0, ArmEffect
    <3> QED  BY <2>1, <3>1, <3>2 DEF Due
  <2>3. CASE x # y
    <3>1. x \in pending /\ time'[x] = time[x]  BY <1>0, <2>1, <2>3 DEF TypeOK
    <3>2. CASE Ahead(time[x], softticks) <= Lag + MaxDelay  BY <2>1, <3>1, <3>2 DEF Due
    <3>3. CASE x \in InWalk /\ time[x] = curticks
      <4>1. pc = "handler"  BY <2>1, <3>3 DEF InWalk
      <4>2. InWalk = Rest(wheel[bucket], next) /\ InWalk' = Rest(wheel'[bucket], next')
        BY <1>0, <2>1, <4>1 DEF InWalk, Walked, WalkStaysOnWheel
      <4>3. Rest(wheel[bucket], next) \ {y} \subseteq Rest(wheel'[bucket], next')
        BY <1>0, <1>9, ResetEffect
      <4> QED  BY <2>1, <2>3, <3>1, <3>3, <4>2, <4>3 DEF Due
    <3> QED  BY <1>0, <3>1, <3>2, <3>3 DEF Due
  <2> QED  BY <2>2, <2>3
<1>10. CASE UNCHANGED vars
  BY <1>0, <1>10 DEF vars, clock, flags, Due, Lag, InWalk, Walked
<1> QED
  BY <1>1, <1>2, <1>3, <1>4, <1>5, <1>6, <1>7, <1>8, <1>9, <1>10 DEF Next, ClockStep, StackCall

\* The first states.
LEMMA InitInv == Init => Inv
<1> SUFFICES ASSUME Init PROVE Inv  OBVIOUS
<1>0. /\ ticks \in 0 .. MaxLag /\ softticks = 0 /\ pending = {} /\ active = {} /\ next = NULL
      /\ wheel = [b \in Buckets |-> <<>>] /\ time = [x \in Callouts |-> 0]
      /\ curr = [d \in {0, 1} |-> NULL] /\ pc = "idle" /\ curticks = 0 /\ c = NULL /\ bucket = 0
  BY DEF Init
<1>1. 0 \in TickSet /\ ticks \in TickSet /\ ticks >= 0  BY <1>0, Constants DEF TickSet
<1>2. Lag = ticks
  <2>1. Ahead(ticks, 0) = ticks - 0  BY <1>1, AheadIs
  <2> QED  BY <1>0, <1>1, <2>1 DEF Lag, TickSet
<1>3. bucket \in Buckets  BY <1>0, SizeAssumption DEF Buckets
<1>4. TypeOK
  <2>1. wheel \in [Buckets -> Seq(Callouts)]  BY <1>0
  <2>2. Lag <= MaxLag  BY <1>0, <1>2, Constants
  <2>3. time \in [Callouts -> 0 .. TickMod - 1] /\ ticks \in 0 .. TickMod - 1
        /\ softticks \in 0 .. TickMod - 1 /\ curticks \in 0 .. TickMod - 1
    BY <1>0, <1>1 DEF TickSet
  <2> QED  BY <1>0, <1>3, <2>1, <2>2, <2>3 DEF TypeOK
<1>5. WalkStaysOnWheel
  <2>1. \A b \in Buckets : wheel[b] = <<>>  BY <1>0
  <2>2. IsInjective(<<>>) /\ ToSet(<<>>) = {}  BY DEF IsInjective, ToSet
  <2> QED  BY <1>0, <2>1, <2>2 DEF WalkStaysOnWheel
<1> QED  BY <1>0, <1>4, <1>5 DEF Inv, ControlInv, DueInv

-----------------------------------------------------------------------------
(***************************************************************************)
(* The wheel implements Timers.                                            *)
(***************************************************************************)
\* How far the time of a pending callout is ahead of ticks, or has passed.  The
\* two ranges do not overlap: this is where the sharp bound of Due is needed.
LEMMA LeftRange ==
    ASSUME Inv, NEW x \in pending
    PROVE  LET d == Ahead(time[x], ticks)
           IN  /\ d \in TickSet
               /\ d <= MaxDelay \/ d >= TickMod - Lag - 1
               /\ time[x] = curticks /\ pc = "walk" => d >= TickMod - Lag - 1
<1> DEFINE d == Ahead(time[x], ticks)
           s == Ahead(time[x], softticks)
<1>0. /\ ticks \in TickSet /\ softticks \in TickSet /\ time[x] \in TickSet /\ curticks \in TickSet
      /\ Lag <= MaxLag /\ Due(x) /\ ControlInv
  BY DEF Inv, DueInv, TypeOK, TickSet
<1>1. d \in TickSet /\ s \in TickSet /\ Lag \in TickSet  BY <1>0, AheadType DEF Lag
<1>2. d = IF s >= Lag THEN s - Lag ELSE s - Lag + TickMod  BY <1>0, AheadVia DEF Lag
<1>3. ASSUME time[x] = curticks, pc \in {"walk", "handler"} PROVE d >= TickMod - Lag - 1
  <2>1. s = TickMod - 1
    <3>1. Ahead(curticks, curticks) = 0  BY <1>0, AheadType
    <3>2. softticks = (curticks + 1) % TickMod  BY <1>0, <1>3 DEF ControlInv
    <3> QED  BY <1>0, <1>3, <3>1, <3>2, AheadNext
  <2> HIDE DEF d, s
  <2> QED  BY <1>0, <1>1, <1>2, <2>1, Constants DEF TickSet
<1>4. CASE s <= Lag + MaxDelay
  <2>1. d <= MaxDelay \/ d >= TickMod - Lag - 1
    <3> HIDE DEF d, s
    <3> QED  BY <1>0, <1>1, <1>2, <1>4, Constants DEF TickSet
  <2> QED  BY <1>1, <1>3, <2>1
<1>5. CASE x \in InWalk /\ time[x] = curticks
  <2>1. pc \in {"walk", "handler"}  BY <1>5 DEF InWalk
  <2> QED  BY <1>1, <1>3, <1>5, <2>1
<1> QED  BY <1>0, <1>4, <1>5 DEF Due

\* A tick of the clock takes one from what is left of every pending callout.
LEMMA TickLeft ==
    ASSUME Inv, Tick, NEW x \in pending
    PROVE  Left(x)' = Left(x) - 1
<1> DEFINE d == Ahead(time[x], ticks)
           e == Ahead(time[x], ticks')
<1>0. /\ ticks \in TickSet /\ softticks \in TickSet /\ time[x] \in TickSet
      /\ ticks' = (ticks + 1) % TickMod /\ time' = time /\ pending' = pending /\ Lag < MaxLag
  BY DEF Inv, TypeOK, TickSet, Tick, clock, flags
<1>1. Lag \in TickSet  BY <1>0, AheadType DEF Lag
<1>2. d \in TickSet /\ (d <= MaxDelay \/ d >= TickMod - Lag - 1)  BY LeftRange
<1>3. /\ d > 0 => e = d - 1
      /\ d = 0 => e = TickMod - 1
  BY <1>0, AheadNext
<1>4. Left(x) = (IF d <= MaxDelay THEN d ELSE d - TickMod)  BY DEF Left
<1>5. Left(x)' = (IF e <= MaxDelay THEN e ELSE e - TickMod)  BY <1>0 DEF Left
<1> HIDE DEF d, e
<1> QED  BY <1>0, <1>1, <1>2, <1>3, <1>4, <1>5, Constants DEF TickSet

\* Every step of the wheel is one of Timers, or none.
LEMMA StepTimers == Inv /\ [Next]_vars => [T!Next]_(T!vars)
<1> SUFFICES ASSUME Inv, [Next]_vars PROVE [T!Next]_(T!vars)  OBVIOUS
<1> DEFINE left == [x \in Callouts |-> Left(x)]
<1>0. /\ TypeOK /\ WalkStaysOnWheel /\ ControlInv /\ pending \subseteq Callouts
      /\ \A x \in Callouts : left[x] = Left(x)
      /\ \A x \in Callouts : left'[x] = Left(x)'
  BY DEF Inv, TypeOK
<1>1. ASSUME UNCHANGED <<pending, ticks, time>> PROVE UNCHANGED left
  <2>1. \A x \in Callouts : Left(x)' = Left(x)  BY <1>1 DEF Left
  <2> QED  BY <2>1
<1>2. CASE Tick
  <2>1. UNCHANGED <<pending, curr, time>>  BY <1>2 DEF Tick, flags
  <2>2. ASSUME NEW x \in Callouts PROVE Left(x)' = IF x \in pending THEN Left(x) - 1 ELSE 0
    <3>1. CASE x \in pending  BY <1>2, <3>1, TickLeft
    <3>2. CASE x \notin pending  BY <2>1, <3>2 DEF Left
    <3> QED  BY <3>1, <3>2
  <2>3. left' = [x \in Callouts |-> IF x \in pending THEN left[x] - 1 ELSE 0]  BY <2>2
  <2> QED  BY <2>1, <2>3 DEF T!Next, T!Tick
<1>3. CASE ff_hardclock_worker \/ callout_tick \/ softclock \/ WalkOn
  <2>1. UNCHANGED <<pending, ticks, time, curr>>
    BY <1>3 DEF ff_hardclock_worker, callout_tick, softclock, WalkOn, flags
  <2> QED  BY <1>1, <2>1 DEF T!vars
<1>4. CASE CallHandler
  <2>1. /\ pc = "walk" /\ c # NULL /\ time[c] = curticks /\ pending' = pending \ {c}
        /\ time' = [time EXCEPT ![c] = 0] /\ ticks' = ticks /\ curr' = [curr EXCEPT ![1] = c]
    BY <1>4 DEF CallHandler, Run
  <2>2. c \in pending /\ c \in Callouts  BY <1>0, <1>4, RunEffect
  <2>3. Left(c) < 0
    <3>1. PICK d \in TickSet : d = Ahead(time[c], ticks) /\ d >= TickMod - Lag - 1
      BY <2>1, <2>2, LeftRange
    <3>2. Lag \in TickSet /\ Lag <= MaxLag
      BY <1>0, AheadType DEF TypeOK, TickSet, Lag
    <3>3. Left(c) = IF d <= MaxDelay THEN d ELSE d - TickMod  BY <2>2, <3>1 DEF Left
    <3> QED  BY <3>1, <3>2, <3>3, Constants DEF TickSet
  <2>4. curr[1] = NULL /\ curr'[1] = c  BY <1>0, <2>1 DEF ControlInv, TypeOK
  <2>5. ASSUME NEW x \in Callouts PROVE Left(x)' = IF x = c THEN 0 ELSE Left(x)
    <3>1. CASE x = c  BY <2>1, <3>1 DEF Left
    <3>2. CASE x # c
      <4>1. time'[x] = time[x] /\ (x \in pending' <=> x \in pending)  BY <1>0, <2>1, <3>2 DEF TypeOK
      <4> QED  BY <2>1, <3>2, <4>1 DEF Left
    <3> QED  BY <3>1, <3>2
  <2>6. left' = [left EXCEPT ![c] = 0]  BY <2>5
  <2>7. T!Fire(c)
    <3>1. left[c] < 0  BY <2>2, <2>3
    <3> HIDE DEF left
    <3> QED  BY <2>1, <2>2, <2>4, <2>6, <3>1 DEF T!Fire, left
  <2> QED  BY <2>2, <2>7 DEF T!Next
<1>5. CASE HandlerReturn
  <2>1. /\ UNCHANGED <<pending, ticks, time>> /\ pc = "handler" /\ curr' = [curr EXCEPT ![1] = NULL]
    BY <1>5 DEF HandlerReturn, flags
  <2>2. curr[1] # NULL /\ curr'[1] = NULL  BY <1>0, <2>1 DEF ControlInv, WalkStaysOnWheel, TypeOK
  <2>3. UNCHANGED left  BY <1>1, <2>1
  <2> QED  BY <2>1, <2>2, <2>3 DEF T!Next, T!Return
<1>6. ASSUME NEW x \in Callouts, callout_stop(x) PROVE T!Disarm(x)
  <2>1. /\ UNCHANGED <<ticks, curr>> /\ pending' = pending \ {x} /\ time' = [time EXCEPT ![x] = 0]
    BY <1>6 DEF callout_stop
  <2>2. ASSUME NEW y \in Callouts PROVE Left(y)' = IF y = x THEN 0 ELSE Left(y)
    <3>1. CASE y = x  BY <2>1, <3>1 DEF Left
    <3>2. CASE y # x
      <4>1. time'[y] = time[y] /\ (y \in pending' <=> y \in pending)  BY <1>0, <2>1, <3>2 DEF TypeOK
      <4> QED  BY <2>1, <3>2, <4>1 DEF Left
    <3> QED  BY <3>1, <3>2
  <2>3. left' = [left EXCEPT ![x] = 0]  BY <2>2
  <2> QED  BY <2>1, <2>3 DEF T!Disarm
<1>7. ASSUME NEW x \in Callouts, NEW n \in ToTicks, callout_reset(x, n)
      PROVE  \E k \in Delays : T!Arm(x, k)
  <2>0. PICK k \in Delays : k = (IF n <= 0 THEN 1 ELSE n)  BY Constants
  <2>1. /\ UNCHANGED <<ticks, curr>> /\ pending' = pending \cup {x}
        /\ time' = [time EXCEPT ![x] = ArmTime(n)]
    BY <1>7 DEF callout_reset, callout_cc_add, ArmTime
  <2>2. ASSUME NEW y \in Callouts PROVE Left(y)' = IF y = x THEN k ELSE Left(y)
    <3>1. CASE y = x
      <4>1. Ahead(ArmTime(n), ticks) = k /\ k <= MaxDelay  BY <1>0, <2>0, ArmEffect, Constants
      <4>2. time'[y] = ArmTime(n) /\ y \in pending'  BY <1>0, <2>1, <3>1 DEF TypeOK
      <4> QED  BY <2>1, <3>1, <4>1, <4>2 DEF Left
    <3>2. CASE y # x
      <4>1. time'[y] = time[y] /\ (y \in pending' <=> y \in pending)  BY <1>0, <2>1, <3>2 DEF TypeOK
      <4> QED  BY <2>1, <3>2, <4>1 DEF Left
    <3> QED  BY <3>1, <3>2
  <2>3. left' = [left EXCEPT ![x] = k]  BY <2>2
  <2>4. T!Arm(x, k)  BY <2>1, <2>3 DEF T!Arm
  <2> QED  BY <2>4
<1>8. CASE UNCHANGED vars
  <2>1. UNCHANGED <<pending, ticks, time, curr>>  BY <1>8 DEF vars, flags
  <2> QED  BY <1>1, <2>1 DEF T!vars
<1> QED
  BY <1>2, <1>3, <1>4, <1>5, <1>6, <1>7, <1>8 DEF Next, ClockStep, StackCall, T!Next

-----------------------------------------------------------------------------
(***************************************************************************)
(* The theorems.                                                           *)
(***************************************************************************)
\* The inductive invariant holds in every state of the wheel.
THEOREM WheelInvariance == Spec => []Inv
<1>1. Inv /\ [Next]_vars => Inv'
  BY StepType, StepWalk, StepControl, StepDue DEF Inv
<1> QED  BY InitInv, <1>1, PTL DEF Spec

\* Every variable of ff_kern_timeout.c keeps its type, and the clock of the
\* thread never lags by more than MaxLag.
THEOREM WheelTypes == Spec => []TypeOK
<1>1. Inv => TypeOK  BY DEF Inv
<1> QED  BY WheelInvariance, <1>1, PTL

\* The wheel, the flags and the pointers of the walk agree, whatever the
\* handlers that run inside softclock's walk arm, re-arm and stop.
THEOREM WalkSafe == Spec => []WalkStaysOnWheel
<1>1. Inv => WalkStaysOnWheel  BY DEF Inv
<1> QED  BY WheelInvariance, <1>1, PTL

\* callout_tick and softclock leave no pending callout behind.
THEOREM NoneLeftBehind == Spec => []NothingMissed
<1>1. Inv => NothingMissed
  <2> SUFFICES ASSUME Inv, NEW x \in pending, Ahead(time[x], softticks) <= Lag + MaxDelay
               PROVE  Ahead(time[x], softticks) <= Reach
    BY DEF Inv, DueInv, Due, NothingMissed
  <2>1. ticks \in TickSet /\ softticks \in TickSet /\ time[x] \in TickSet /\ Lag <= MaxLag
    BY DEF Inv, TypeOK, TickSet
  <2>2. Ahead(time[x], softticks) \in TickSet /\ Lag \in TickSet  BY <2>1, AheadType DEF Lag
  <2> QED  BY <2>1, <2>2, Constants DEF Reach, TickSet
<1> QED  BY WheelInvariance, <1>1, PTL

\* callout_reset, callout_stop, callout_tick and softclock implement Timers: a
\* handler runs once for each arming, never early and never after a stop.
THEOREM WheelImplementsTimers == Spec => ImplementsTimers
<1>1. Init => T!Init
  <2> SUFFICES ASSUME Init PROVE T!Init  OBVIOUS
  <2>1. pending = {} /\ curr[1] = NULL  BY DEF Init
  <2>2. \A x \in Callouts : Left(x) = 0  BY <2>1 DEF Left
  <2> QED  BY <2>1, <2>2 DEF T!Init
<1> QED  BY <1>1, StepTimers, WheelInvariance, PTL DEF Spec, ImplementsTimers, T!Spec
=============================================================================
