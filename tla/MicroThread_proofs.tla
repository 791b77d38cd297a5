------------------------- MODULE MicroThread_proofs -------------------------
(***************************************************************************)
(* Proofs about MicroThread for any number of threads, descriptors and     *)
(* timeouts.                                                               *)
(***************************************************************************)
EXTENDS MicroThreadHeap_proofs

Frames ==
    [active: Threads \cup {Daemon}, runlist: Seq(Threads), heap: Heaps,
     flag: [Threads -> SUBSET Flags], left: [Threads -> Int],
     parent: [Threads -> Threads \cup {NULL}],
     freelist: Seq(Pool), made: SUBSET Pool, default: DefaultNum .. MaxNum]

(***************************************************************************)
(* The inductive invariant.  The operators on frame are applied one after  *)
(* the other within an action, so the parts of the invariant are stated of *)
(* any frame s: the threads of X exist and are at hand, in no list; those  *)
(* of Z are being given sub threads, or have just lost one.                *)
(***************************************************************************)
Place(s, t) == s.flag[t] \cap Lists

Placed(s, X) ==
    /\ X \subseteq s.made \cup {Primo}
    /\ \A t \in X : Place(s, t) = {}
    /\ \A t \in Threads \ (s.made \cup {Primo}) : Place(s, t) = {}
    /\ \A t \in (s.made \cup {Primo}) \ X : \E f \in Lists : Place(s, t) = {f}

Holds(s, list, f) ==
    IsInjective(list) /\ \A t \in Threads : t \in ToSet(list) <=> f \in s.flag[t]

Fit(s, X) ==
    /\ s \in Frames
    /\ Placed(s, X)
    /\ Holds(s, s.runlist, "RUN")
    /\ Holds(s, s.freelist, "FREE")
    /\ HeapOK(s.heap, {})
    /\ \A t \in Threads : s.heap.index[t] # 0 <=> "SLEEP" \in s.flag[t]

IoSleeps(s) == \A t \in Threads : "IO" \in s.flag[t] => "SLEEP" \in s.flag[t]

Joined(s, Z) ==
    /\ \A t \in Threads \ Z : "PEND" \in s.flag[t] <=> SubThreads(s, t) # {}
    /\ \A u \in Pool : "SUB" \in s.flag[u] <=> s.parent[u] # NULL
    /\ \A u \in Pool : s.parent[u] # NULL => u \in s.made /\ "FREE" \notin s.flag[u]

Good(s, X, Z) == Fit(s, X) /\ IoSleeps(s) /\ Joined(s, Z)

\* between two actions the thread that runs is at hand, and no other
FrameInv == Good(frame, {frame.active} \ {Daemon}, {})

KqType ==
    /\ kqobj \in [Fds -> Threads \cup {NULL} \cup {Stale(t) : t \in Threads}]
    /\ listen \in [Fds -> SUBSET Events]
    /\ waits \in [Threads -> SUBSET Notes]
    /\ knotes \subseteq Notes
    /\ dpc \in {"dispatch", "events", "timeout", "expired"}
    /\ evts \subseteq Notes

\* The daemon has dealt out all events before a thread runs.
DaemonInv ==
    /\ dpc # "events" => evts = {}
    /\ frame.active # Daemon => dpc \in {"dispatch", "expired"}

Inv ==
    /\ FrameInv
    /\ KqType
    /\ DaemonInv
    /\ SlotsMatchWaits

-----------------------------------------------------------------------------
(***************************************************************************)
(* Lists.                                                                  *)
(***************************************************************************)
\* TAILQ_INSERT_TAIL of an entry that is in no list.
LEMMA AppendList ==
    ASSUME NEW S, NEW list \in Seq(S), IsInjective(list), NEW x \in S, x \notin ToSet(list)
    PROVE  /\ Append(list, x) \in Seq(S) /\ IsInjective(Append(list, x))
           /\ ToSet(Append(list, x)) = ToSet(list) \cup {x}
<1> DEFINE r == Append(list, x)
           n == Len(list)
<1>0. n \in Nat /\ DOMAIN list = 1 .. n /\ (\A i, j \in 1 .. n : list[i] = list[j] => i = j)
      /\ \A i \in 1 .. n : list[i] # x
  BY DEF IsInjective, ToSet
<1>1. /\ r \in Seq(S) /\ Len(r) = n + 1 /\ DOMAIN r = 1 .. n + 1 /\ r[n + 1] = x
      /\ \A i \in 1 .. n : r[i] = list[i]
  OBVIOUS
<1> HIDE DEF r, n
<1>2. \A i \in 1 .. n + 1 : i = n + 1 \/ i \in 1 .. n  BY <1>0
<1>3. IsInjective(r)
  <2> SUFFICES ASSUME NEW i \in 1 .. n + 1, NEW j \in 1 .. n + 1, r[i] = r[j] PROVE i = j
    BY <1>1 DEF IsInjective
  <2> QED  BY <1>0, <1>1, <1>2
<1>4. ASSUME NEW y \in ToSet(r) PROVE y \in ToSet(list) \cup {x}
  <2>1. PICK i \in 1 .. n + 1 : r[i] = y  BY <1>1 DEF ToSet
  <2> QED  BY <1>0, <1>1, <1>2, <2>1 DEF ToSet
<1>5. ASSUME NEW y \in ToSet(list) PROVE y \in ToSet(r)
  <2>1. PICK i \in 1 .. n : list[i] = y  BY <1>0 DEF ToSet
  <2>2. i \in 1 .. n + 1 /\ r[i] = y  BY <1>0, <1>1, <2>1
  <2> QED  BY <1>1, <2>2 DEF ToSet
<1>6. x \in ToSet(r)
  <2>1. n + 1 \in 1 .. n + 1  BY <1>0
  <2> QED  BY <1>1, <2>1 DEF ToSet
<1> QED  BY <1>1, <1>3, <1>4, <1>5, <1>6 DEF r

\* TAILQ_FIRST and TAILQ_REMOVE of it.
LEMMA TailList ==
    ASSUME NEW S, NEW list \in Seq(S), IsInjective(list), list # <<>>
    PROVE  /\ Head(list) \in S /\ Head(list) \in ToSet(list)
           /\ Tail(list) \in Seq(S) /\ IsInjective(Tail(list))
           /\ ToSet(Tail(list)) = ToSet(list) \ {Head(list)}
<1> DEFINE r == Tail(list)
           n == Len(list)
           x == Head(list)
<1>0. /\ n \in Nat /\ n # 0 /\ DOMAIN list = 1 .. n
      /\ \A i, j \in 1 .. n : list[i] = list[j] => i = j
  BY DEF IsInjective
<1>1. /\ x = list[1] /\ x \in S /\ r \in Seq(S) /\ Len(r) = n - 1 /\ DOMAIN r = 1 .. n - 1
      /\ \A i \in 1 .. n - 1 : r[i] = list[i + 1]
  BY <1>0
<1> HIDE DEF r, n, x
<1>2. 1 \in 1 .. n /\ (\A i \in 1 .. n - 1 : i + 1 \in 1 .. n /\ i + 1 # 1)
      /\ \A i \in 1 .. n : i = 1 \/ (i - 1 \in 1 .. n - 1 /\ (i - 1) + 1 = i)
  BY <1>0
<1>3. x \in ToSet(list)  BY <1>0, <1>1, <1>2 DEF ToSet
<1>4. IsInjective(r)
  <2> SUFFICES ASSUME NEW i \in 1 .. n - 1, NEW j \in 1 .. n - 1, r[i] = r[j] PROVE i = j
    BY <1>1 DEF IsInjective
  <2>1. i + 1 = j + 1  BY <1>0, <1>1, <1>2
  <2> QED  BY <1>0, <2>1
<1>5. ASSUME NEW y \in ToSet(r) PROVE y \in ToSet(list) \ {x}
  <2>1. PICK i \in 1 .. n - 1 : r[i] = y  BY <1>1 DEF ToSet
  <2>2. i + 1 \in 1 .. n /\ i + 1 # 1 /\ list[i + 1] = y  BY <1>1, <1>2, <2>1
  <2> QED  BY <1>0, <1>1, <1>2, <2>2 DEF ToSet
<1>6. ASSUME NEW y \in ToSet(list) \ {x} PROVE y \in ToSet(r)
  <2>1. PICK i \in 1 .. n : list[i] = y  BY <1>0 DEF ToSet
  <2>2. i - 1 \in 1 .. n - 1 /\ r[i - 1] = y  BY <1>1, <1>2, <1>6, <2>1
  <2> QED  BY <1>1, <2>2 DEF ToSet
<1> QED  BY <1>1, <1>3, <1>4, <1>5, <1>6 DEF r, x

-----------------------------------------------------------------------------
(***************************************************************************)
(* Flags.                                                                  *)
(***************************************************************************)
\* r differs from s in the flags of t at most.
Apart(s, r, t) == \A u \in Threads : u # t => r.flag[u] = s.flag[u]

\* r has the threads, the parents and the flags that joining is about of s.
SameJoin(s, r) ==
    /\ r.parent = s.parent /\ r.made = s.made
    /\ \A t \in Threads, f \in {"PEND", "SUB", "FREE"} : f \in r.flag[t] <=> f \in s.flag[t]

\* Then a join goes on in r as in s.
LEMMA JoinGoesOn ==
    ASSUME NEW s, NEW r, NEW Z, SameJoin(s, r), Joined(s, Z) PROVE Joined(r, Z)
<1>1. Pool \subseteq Threads  BY DEF Threads
<1>2. \A t \in Threads : SubThreads(r, t) = SubThreads(s, t)  BY DEF SubThreads, SameJoin
<1> QED  BY <1>1, <1>2 DEF Joined, SameJoin

\* SetFlag and UnsetFlag change one flag of one thread.
LEMMA SetFlagIs ==
    ASSUME NEW s \in Frames, NEW t \in Threads, NEW f \in Flags
    PROVE  LET r == SetFlag(s, t, f)
           IN  /\ r \in Frames /\ r = [s EXCEPT !.flag = [s.flag EXCEPT ![t] = @ \cup {f}]]
               /\ r.flag[t] = s.flag[t] \cup {f} /\ Apart(s, r, t)
               /\ r.active = s.active /\ r.runlist = s.runlist /\ r.heap = s.heap
               /\ r.left = s.left /\ r.parent = s.parent /\ r.freelist = s.freelist
               /\ r.made = s.made /\ r.default = s.default
BY DEF SetFlag, Frames, Apart

\* The same of UnsetFlag.
LEMMA UnsetFlagIs ==
    ASSUME NEW s \in Frames, NEW t \in Threads, NEW f \in Flags
    PROVE  LET r == UnsetFlag(s, t, f)
           IN  /\ r \in Frames
               /\ r.flag[t] = s.flag[t] \ {f} /\ Apart(s, r, t)
               /\ r.active = s.active /\ r.runlist = s.runlist /\ r.heap = s.heap
               /\ r.left = s.left /\ r.parent = s.parent /\ r.freelist = s.freelist
               /\ r.made = s.made /\ r.default = s.default
BY DEF UnsetFlag, Frames, Apart

\* A thread at hand goes to a list.
LEMMA PlacedIn ==
    ASSUME NEW s \in Frames, NEW r, NEW X, NEW t \in X, NEW f \in Lists, Placed(s, X),
           r.made = s.made, Place(r, t) = Place(s, t) \cup {f}, Apart(s, r, t)
    PROVE  Placed(r, X \ {t})
<1>1. \A u \in Threads : u # t => Place(r, u) = Place(s, u)  BY DEF Apart, Place
<1>2. Place(r, t) = {f}  BY DEF Placed
<1>3. s.made \cup {Primo} \subseteq Threads  BY DEF Frames, Threads
<1> QED  BY <1>1, <1>2, <1>3 DEF Placed

\* A thread is taken out of its list.
LEMMA PlacedOut ==
    ASSUME NEW s \in Frames, NEW r, NEW X, NEW t \in Threads, NEW f \in Lists, Placed(s, X),
           r.made = s.made, f \in s.flag[t], Place(r, t) = Place(s, t) \ {f}, Apart(s, r, t)
    PROVE  /\ Placed(r, X \cup {t}) /\ t \notin X /\ t \in s.made \cup {Primo}
           /\ Place(s, t) = {f}
<1>1. \A u \in Threads : u # t => Place(r, u) = Place(s, u)  BY DEF Apart, Place
<1>2. f \in Place(s, t)  BY DEF Place
<1>3. t \in (s.made \cup {Primo}) \ X  BY <1>2 DEF Placed
<1>4. Place(s, t) = {f}  BY <1>2, <1>3 DEF Placed
<1>5. s.made \cup {Primo} \subseteq Threads  BY DEF Frames, Threads
<1> QED  BY <1>1, <1>3, <1>4, <1>5 DEF Placed

-----------------------------------------------------------------------------
(***************************************************************************)
(* The lists of MtFrame.                                                   *)
(***************************************************************************)
\* Threads at hand are threads.
LEMMA AtHand == ASSUME NEW s, NEW X, Fit(s, X), NEW t \in X PROVE t \in Threads /\ Place(s, t) = {}
BY DEF Fit, Frames, Placed, Threads

\* A frame with another list of the threads that have a flag.
LEMMA HoldsSame ==
    ASSUME NEW s, NEW r, NEW list, NEW f, Holds(s, list, f),
           \A t \in Threads : f \in r.flag[t] <=> f \in s.flag[t]
    PROVE  Holds(r, list, f)
BY DEF Holds

\* InsertRunable
LEMMA RunableGood ==
    ASSUME NEW s, NEW X, NEW Z, NEW t \in X, Good(s, X, Z)
    PROVE  LET r == InsertRunable(s, t)
           IN  Good(r, X \ {t}, Z) /\ r.active = s.active /\ r.parent = s.parent
<1> DEFINE q == SetFlag(s, t, "RUN")
           r == InsertRunable(s, t)
<1>0. t \in Threads /\ Place(s, t) = {} /\ s \in Frames /\ Placed(s, X) /\ HeapOK(s.heap, {})
  BY AtHand DEF Good, Fit
<1>1. /\ q \in Frames /\ q.flag[t] = s.flag[t] \cup {"RUN"} /\ Apart(s, q, t)
      /\ q.active = s.active /\ q.runlist = s.runlist /\ q.heap = s.heap
      /\ q.parent = s.parent /\ q.freelist = s.freelist /\ q.made = s.made
  BY <1>0, SetFlagIs DEF Flags
<1>2. "RUN" \notin s.flag[t] /\ t \notin ToSet(s.runlist)
  BY <1>0 DEF Good, Fit, Holds, Place, Lists
<1>3. /\ Append(s.runlist, t) \in Seq(Threads) /\ IsInjective(Append(s.runlist, t))
      /\ ToSet(Append(s.runlist, t)) = ToSet(s.runlist) \cup {t}
  <2>1. s.runlist \in Seq(Threads) /\ IsInjective(s.runlist)  BY DEF Good, Fit, Frames, Holds
  <2> QED  BY <1>0, <1>2, <2>1, AppendList
<1>4. r = [q EXCEPT !.runlist = Append(@, t)]  BY DEF InsertRunable
<1> HIDE DEF q
<1>5. /\ r \in Frames /\ r.runlist = Append(s.runlist, t) /\ r.flag = q.flag
      /\ r.active = s.active /\ r.heap = s.heap /\ r.parent = s.parent
      /\ r.freelist = s.freelist /\ r.made = s.made
  <2>1. Append(q.runlist, t) \in Seq(Threads)  BY <1>1, <1>3
  <2> QED  BY <1>1, <1>4, <2>1 DEF Frames
<1> HIDE DEF r
<1>6. r.flag[t] = s.flag[t] \cup {"RUN"} /\ Apart(s, r, t)  BY <1>1, <1>5 DEF Apart
<1>7. \A u \in Threads, f \in Flags : f # "RUN" => (f \in r.flag[u] <=> f \in s.flag[u])
  BY <1>0, <1>6 DEF Apart
<1>8. Placed(r, X \ {t})
  <2>1. Place(r, t) = Place(s, t) \cup {"RUN"} /\ "RUN" \in Lists  BY <1>6 DEF Place, Lists
  <2> QED  BY <1>0, <1>5, <1>6, <2>1, PlacedIn
<1>9. Holds(r, r.runlist, "RUN")
  <2>1. \A u \in Threads : "RUN" \in r.flag[u] <=> "RUN" \in s.flag[u] \/ u = t
    BY <1>0, <1>6 DEF Apart
  <2> QED  BY <1>3, <1>5, <2>1 DEF Good, Fit, Holds
<1>10. Holds(r, r.freelist, "FREE")
  <2>1. \A u \in Threads : "FREE" \in r.flag[u] <=> "FREE" \in s.flag[u]  BY <1>7 DEF Flags
  <2> QED  BY <1>5, <2>1, HoldsSame DEF Good, Fit
<1>11. Fit(r, X \ {t})
  <2>1. \A u \in Threads : "SLEEP" \in r.flag[u] <=> "SLEEP" \in s.flag[u]  BY <1>7 DEF Flags
  <2> QED  BY <1>0, <1>5, <1>8, <1>9, <1>10, <2>1 DEF Good, Fit
<1>12. IoSleeps(r)
  <2>1. \A u \in Threads : /\ "SLEEP" \in r.flag[u] <=> "SLEEP" \in s.flag[u]
                           /\ "IO" \in r.flag[u] <=> "IO" \in s.flag[u]
    BY <1>7 DEF Flags
  <2> QED  BY <2>1 DEF Good, IoSleeps
<1>13. Joined(r, Z)
  <2>1. SameJoin(s, r)  BY <1>5, <1>7 DEF SameJoin, Flags
  <2> QED  BY <2>1, JoinGoesOn DEF Good
<1> QED  BY <1>5, <1>11, <1>12, <1>13 DEF Good, r

\* InsertSleep
LEMMA SleepFit ==
    ASSUME NEW s, NEW X, NEW t \in X, NEW ms \in Int, Fit(s, X)
    PROVE  LET r == InsertSleep(s, t, ms)
           IN  /\ Fit(r, X \ {t}) /\ r.active = s.active /\ SameJoin(s, r)
               /\ r.flag[t] = s.flag[t] \cup {"SLEEP"} /\ Apart(s, r, t)
<1> DEFINE q == SetFlag(s, t, "SLEEP")
           l == [q EXCEPT !.left[t] = ms]
           r == InsertSleep(s, t, ms)
<1>0. t \in Threads /\ Place(s, t) = {} /\ s \in Frames /\ Placed(s, X) /\ HeapOK(s.heap, {})
  BY AtHand DEF Fit
<1>1. /\ q \in Frames /\ q.flag[t] = s.flag[t] \cup {"SLEEP"} /\ Apart(s, q, t)
      /\ q.active = s.active /\ q.runlist = s.runlist /\ q.heap = s.heap
      /\ q.parent = s.parent /\ q.freelist = s.freelist /\ q.made = s.made
  BY <1>0, SetFlagIs DEF Flags
<1>2. "SLEEP" \notin s.flag[t] /\ s.heap.index[t] = 0
  BY <1>0 DEF Fit, Place, Lists
<1> HIDE DEF q
<1>3. /\ l \in Frames /\ l.flag = q.flag /\ l.active = q.active /\ l.runlist = q.runlist
      /\ l.heap = q.heap /\ l.parent = q.parent /\ l.freelist = q.freelist /\ l.made = q.made
  BY <1>0, <1>1 DEF Frames
<1>4. r = [l EXCEPT !.heap = HeapPush(@, t, l.left)]  BY DEF InsertSleep, q
<1> DEFINE h == HeapPush(s.heap, t, l.left)
<1>5. HeapOK(h, {}) /\ \A u \in Threads : h.index[u] # 0 <=> s.heap.index[u] # 0 \/ u = t
  <2> HIDE DEF l
  <2> QED  BY <1>0, <1>2, HeapPushOK
<1> HIDE DEF l
<1>6. l.heap = s.heap /\ h \in Heaps  BY <1>1, <1>3, <1>5 DEF HeapOK
<1> HIDE DEF h
<1>7. r = [l EXCEPT !.heap = h]  BY <1>4, <1>6 DEF h
<1>8. /\ r \in Frames /\ r.heap = h /\ r.runlist = s.runlist /\ r.flag = q.flag
      /\ r.active = s.active /\ r.parent = s.parent
      /\ r.freelist = s.freelist /\ r.made = s.made
  BY <1>1, <1>3, <1>6, <1>7 DEF Frames
<1> HIDE DEF r
<1>9. r.flag[t] = s.flag[t] \cup {"SLEEP"} /\ Apart(s, r, t)  BY <1>1, <1>8 DEF Apart
<1>10. \A u \in Threads, f \in Flags : f # "SLEEP" => (f \in r.flag[u] <=> f \in s.flag[u])
  BY <1>0, <1>9 DEF Apart
<1>11. Placed(r, X \ {t})
  <2>1. Place(r, t) = Place(s, t) \cup {"SLEEP"} /\ "SLEEP" \in Lists  BY <1>9 DEF Place, Lists
  <2> QED  BY <1>0, <1>8, <1>9, <2>1, PlacedIn
<1>12. Holds(r, r.freelist, "FREE") /\ Holds(r, r.runlist, "RUN")
  <2>1. \A u \in Threads : "FREE" \in r.flag[u] <=> "FREE" \in s.flag[u]  BY <1>10 DEF Flags
  <2>2. \A u \in Threads : "RUN" \in r.flag[u] <=> "RUN" \in s.flag[u]  BY <1>10 DEF Flags
  <2> QED  BY <1>8, <2>1, <2>2, HoldsSame DEF Fit
<1>13. \A u \in Threads : r.heap.index[u] # 0 <=> "SLEEP" \in r.flag[u]
  <2>1. \A u \in Threads : "SLEEP" \in r.flag[u] <=> "SLEEP" \in s.flag[u] \/ u = t
    BY <1>0, <1>9 DEF Apart
  <2> QED  BY <1>5, <1>8, <2>1 DEF Fit
<1>14. SameJoin(s, r)  BY <1>8, <1>10 DEF SameJoin, Flags
<1> QED  BY <1>5, <1>8, <1>9, <1>11, <1>12, <1>13, <1>14 DEF Fit, r

\* InsertSleep, of a thread at hand
LEMMA SleepGood ==
    ASSUME NEW s, NEW X, NEW Z, NEW t \in X, NEW ms \in Int, Good(s, X, Z)
    PROVE  LET r == InsertSleep(s, t, ms)
           IN  Good(r, X \ {t}, Z) /\ r.active = s.active
<1> DEFINE r == InsertSleep(s, t, ms)
<1>1. /\ Fit(r, X \ {t}) /\ r.active = s.active /\ SameJoin(s, r)
      /\ r.flag[t] = s.flag[t] \cup {"SLEEP"} /\ Apart(s, r, t)
  BY SleepFit DEF Good
<1> HIDE DEF r
<1>2. IoSleeps(r)  BY <1>1 DEF Good, IoSleeps, Apart
<1>3. Joined(r, Z)  BY <1>1, JoinGoesOn DEF Good
<1> QED  BY <1>1, <1>2, <1>3 DEF Good, r

\* SetFlag and UnsetFlag of IO change no list.
LEMMA IoFit ==
    ASSUME NEW s, NEW X, NEW t \in Threads, NEW r \in {SetFlag(s, t, "IO"), UnsetFlag(s, t, "IO")},
           Fit(s, X)
    PROVE  /\ Fit(r, X) /\ r.active = s.active /\ SameJoin(s, r) /\ Apart(s, r, t)
           /\ \A f : f # "IO" => (f \in r.flag[t] <=> f \in s.flag[t])
<1>0. s \in Frames /\ Placed(s, X)  BY DEF Fit
<1>1. /\ r \in Frames /\ (\A f : f # "IO" => (f \in r.flag[t] <=> f \in s.flag[t])) /\ Apart(s, r, t)
      /\ r.active = s.active /\ r.runlist = s.runlist /\ r.heap = s.heap
      /\ r.parent = s.parent /\ r.freelist = s.freelist /\ r.made = s.made
  <2>1. CASE r = SetFlag(s, t, "IO")
    <3> DEFINE q == SetFlag(s, t, "IO")
    <3>1. /\ q \in Frames /\ q.flag[t] = s.flag[t] \cup {"IO"} /\ Apart(s, q, t)
          /\ q.active = s.active /\ q.runlist = s.runlist /\ q.heap = s.heap
          /\ q.parent = s.parent /\ q.freelist = s.freelist /\ q.made = s.made
      BY <1>0, SetFlagIs DEF Flags
    <3> HIDE DEF q
    <3> QED  BY <2>1, <3>1 DEF q
  <2>2. CASE r = UnsetFlag(s, t, "IO")
    <3> DEFINE q == UnsetFlag(s, t, "IO")
    <3>1. /\ q \in Frames /\ q.flag[t] = s.flag[t] \ {"IO"} /\ Apart(s, q, t)
          /\ q.active = s.active /\ q.runlist = s.runlist /\ q.heap = s.heap
          /\ q.parent = s.parent /\ q.freelist = s.freelist /\ q.made = s.made
      BY <1>0, UnsetFlagIs DEF Flags
    <3> HIDE DEF q
    <3> QED  BY <2>2, <3>1 DEF q
  <2> QED  BY <2>1, <2>2
<1>2. \A u \in Threads, f \in Flags : f # "IO" => (f \in r.flag[u] <=> f \in s.flag[u])
  BY <1>1 DEF Apart
<1>3. Placed(r, X)
  <2>1. \A u \in Threads : Place(r, u) = Place(s, u)  BY <1>2 DEF Place, Lists, Flags
  <2>2. s.made \cup {Primo} \subseteq Threads  BY <1>0 DEF Frames, Threads
  <2> QED  BY <1>0, <1>1, <2>1, <2>2 DEF Placed
<1>4. Holds(r, r.freelist, "FREE") /\ Holds(r, r.runlist, "RUN")
  <2>1. \A u \in Threads : "FREE" \in r.flag[u] <=> "FREE" \in s.flag[u]  BY <1>2 DEF Flags
  <2>2. \A u \in Threads : "RUN" \in r.flag[u] <=> "RUN" \in s.flag[u]  BY <1>2 DEF Flags
  <2> QED  BY <1>1, <2>1, <2>2, HoldsSame DEF Fit
<1>5. \A u \in Threads : "SLEEP" \in r.flag[u] <=> "SLEEP" \in s.flag[u]  BY <1>2 DEF Flags
<1>6. SameJoin(s, r)  BY <1>1, <1>2 DEF SameJoin, Flags
<1> QED  BY <1>1, <1>3, <1>4, <1>5, <1>6 DEF Fit

\* InsertIoWait
LEMMA IoWaitGood ==
    ASSUME NEW s, NEW X, NEW Z, NEW t \in X, NEW ms \in Int, Good(s, X, Z)
    PROVE  LET r == InsertIoWait(s, t, ms)
           IN  Good(r, X \ {t}, Z) /\ r.active = s.active
<1> DEFINE q == SetFlag(s, t, "IO")
           r == InsertIoWait(s, t, ms)
<1>0. t \in Threads  BY AtHand DEF Good
<1>1. /\ Fit(q, X) /\ q.active = s.active /\ SameJoin(s, q) /\ Apart(s, q, t)
  BY <1>0, IoFit DEF Good
<1> HIDE DEF q
<1>2. /\ Fit(r, X \ {t}) /\ r.active = q.active /\ SameJoin(q, r)
      /\ r.flag[t] = q.flag[t] \cup {"SLEEP"} /\ Apart(q, r, t)
  BY <1>1, SleepFit DEF InsertIoWait, q
<1> HIDE DEF r
<1>3. IoSleeps(r)  BY <1>1, <1>2 DEF Good, IoSleeps, Apart
<1>4. Joined(r, Z)  BY <1>1, <1>2, JoinGoesOn DEF Good
<1> QED  BY <1>1, <1>2, <1>3, <1>4 DEF Good, r

\* RemoveSleep
LEMMA RemoveSleepFit ==
    ASSUME NEW s, NEW X, NEW t \in Threads, "SLEEP" \in s.flag[t], Fit(s, X)
    PROVE  LET r == RemoveSleep(s, t)
           IN  /\ Fit(r, X \cup {t}) /\ t \notin X /\ r.active = s.active /\ SameJoin(s, r)
               /\ r.flag[t] = s.flag[t] \ {"SLEEP"} /\ Apart(s, r, t)
<1> DEFINE q == UnsetFlag(s, t, "SLEEP")
           h == HeapDelete(s.heap, t, s.left)
           r == RemoveSleep(s, t)
<1>0. s \in Frames /\ Placed(s, X) /\ HeapOK(s.heap, {}) /\ s.heap.index[t] # 0  BY DEF Fit
<1>1. /\ q \in Frames /\ q.flag[t] = s.flag[t] \ {"SLEEP"} /\ Apart(s, q, t)
      /\ q.active = s.active /\ q.runlist = s.runlist /\ q.heap = s.heap
      /\ q.parent = s.parent /\ q.freelist = s.freelist /\ q.made = s.made
  BY <1>0, UnsetFlagIs DEF Flags
<1>2. HeapOK(h, {}) /\ \A u \in Threads : h.index[u] # 0 <=> s.heap.index[u] # 0 /\ u # t
  BY <1>0, HeapDeleteOK
<1>3. r = [q EXCEPT !.heap = h, !.left[t] = 0]  BY <1>1 DEF RemoveSleep
<1> HIDE DEF q, h
<1>4. /\ r \in Frames /\ r.heap = h /\ r.runlist = s.runlist /\ r.flag = q.flag
      /\ r.active = s.active /\ r.parent = s.parent
      /\ r.freelist = s.freelist /\ r.made = s.made
  <2> DEFINE l == [q.left EXCEPT ![t] = 0]
  <2>1. h \in Heaps  BY <1>2 DEF HeapOK
  <2>2. r = [q EXCEPT !.heap = h, !.left = l]  BY <1>3
  <2>3. l \in [Threads -> Int]  BY <1>1 DEF Frames
  <2> HIDE DEF l, r
  <2> QED  BY <1>1, <2>1, <2>2, <2>3 DEF Frames
<1> HIDE DEF r
<1>5. r.flag[t] = s.flag[t] \ {"SLEEP"} /\ Apart(s, r, t)  BY <1>1, <1>4 DEF Apart
<1>6. \A u \in Threads, f \in Flags : f # "SLEEP" => (f \in r.flag[u] <=> f \in s.flag[u])
  BY <1>5 DEF Apart
<1>7. Placed(r, X \cup {t}) /\ t \notin X
  <2>1. Place(r, t) = Place(s, t) \ {"SLEEP"} /\ "SLEEP" \in Lists  BY <1>5 DEF Place, Lists
  <2> QED  BY <1>0, <1>4, <1>5, <2>1, PlacedOut
<1>8. Holds(r, r.freelist, "FREE") /\ Holds(r, r.runlist, "RUN")
  <2>1. \A u \in Threads : "FREE" \in r.flag[u] <=> "FREE" \in s.flag[u]  BY <1>6 DEF Flags
  <2>2. \A u \in Threads : "RUN" \in r.flag[u] <=> "RUN" \in s.flag[u]  BY <1>6 DEF Flags
  <2> QED  BY <1>4, <2>1, <2>2, HoldsSame DEF Fit
<1>9. \A u \in Threads : r.heap.index[u] # 0 <=> "SLEEP" \in r.flag[u]
  <2>1. \A u \in Threads : "SLEEP" \in r.flag[u] <=> "SLEEP" \in s.flag[u] /\ u # t
    BY <1>5 DEF Apart
  <2> QED  BY <1>2, <1>4, <2>1 DEF Fit
<1>10. SameJoin(s, r)  BY <1>4, <1>6 DEF SameJoin, Flags
<1> QED  BY <1>2, <1>4, <1>5, <1>7, <1>8, <1>9, <1>10 DEF Fit, r

\* RemoveSleep of a thread that does not wait for input or output
LEMMA RemoveSleepGood ==
    ASSUME NEW s, NEW X, NEW Z, NEW t \in Threads, "SLEEP" \in s.flag[t], "IO" \notin s.flag[t],
           Good(s, X, Z)
    PROVE  LET r == RemoveSleep(s, t)
           IN  Good(r, X \cup {t}, Z) /\ t \notin X /\ r.active = s.active
<1> DEFINE r == RemoveSleep(s, t)
<1>1. /\ Fit(r, X \cup {t}) /\ t \notin X /\ r.active = s.active /\ SameJoin(s, r)
      /\ r.flag[t] = s.flag[t] \ {"SLEEP"} /\ Apart(s, r, t)
  BY RemoveSleepFit DEF Good
<1> HIDE DEF r
<1>2. IoSleeps(r)  BY <1>1 DEF Good, IoSleeps, Apart
<1>3. Joined(r, Z)  BY <1>1, JoinGoesOn DEF Good
<1> QED  BY <1>1, <1>2, <1>3 DEF Good, r

\* RemoveIoWait
LEMMA RemoveIoWaitGood ==
    ASSUME NEW s, NEW X, NEW Z, NEW t \in Threads, "IO" \in s.flag[t], Good(s, X, Z)
    PROVE  LET r == RemoveIoWait(s, t)
           IN  Good(r, X \cup {t}, Z) /\ t \notin X /\ r.active = s.active
<1> DEFINE q == UnsetFlag(s, t, "IO")
           r == RemoveIoWait(s, t)
<1>1. Fit(q, X) /\ q.active = s.active /\ SameJoin(s, q) /\ Apart(s, q, t)
  BY IoFit DEF Good
<1>2. q.flag[t] = s.flag[t] \ {"IO"} /\ "SLEEP" \in q.flag[t]
  <2>1. s \in Frames /\ "SLEEP" \in s.flag[t]  BY DEF Good, Fit, IoSleeps
  <2>2. q.flag[t] = s.flag[t] \ {"IO"}  BY <2>1, UnsetFlagIs DEF Flags
  <2> QED  BY <2>1, <2>2
<1> HIDE DEF q
<1>3. /\ Fit(r, X \cup {t}) /\ t \notin X /\ r.active = q.active /\ SameJoin(q, r)
      /\ r.flag[t] = q.flag[t] \ {"SLEEP"} /\ Apart(q, r, t)
  BY <1>1, <1>2, RemoveSleepFit DEF RemoveIoWait, q
<1> HIDE DEF r
<1>4. IoSleeps(r)  BY <1>1, <1>2, <1>3 DEF Good, IoSleeps, Apart
<1>5. Joined(r, Z)  BY <1>1, <1>3, JoinGoesOn DEF Good
<1> QED  BY <1>1, <1>3, <1>4, <1>5 DEF Good, r

\* InputNotify, OutputNotify and NotifyThread
LEMMA WakeIoGood ==
    ASSUME NEW s, NEW X, NEW Z, NEW t \in Threads, Good(s, X, Z)
    PROVE  Good(WakeIo(s, t), X, Z) /\ WakeIo(s, t).active = s.active
<1>1. CASE "IO" \in s.flag[t]
  <2>1. PICK q : q = RemoveIoWait(s, t)  OBVIOUS
  <2>2. Good(q, X \cup {t}, Z) /\ t \notin X /\ q.active = s.active
    <3>1. /\ Good(RemoveIoWait(s, t), X \cup {t}, Z) /\ t \notin X
          /\ RemoveIoWait(s, t).active = s.active
      BY <1>1, RemoveIoWaitGood, ZenonT(60)
    <3> QED  BY <2>1, <3>1
  <2>3. t \in X \cup {t} /\ (X \cup {t}) \ {t} = X  BY <2>2
  <2>4. Good(InsertRunable(q, t), X, Z) /\ InsertRunable(q, t).active = q.active
    BY <2>2, <2>3, RunableGood
  <2> QED  BY <1>1, <2>1, <2>2, <2>4 DEF WakeIo
<1>2. CASE "IO" \notin s.flag[t]  BY <1>2 DEF WakeIo
<1> QED  BY <1>1, <1>2

\* The scheduler takes the first thread of the run list, or the daemon.
LEMMA SchduleGood ==
    ASSUME NEW s, Good(s, {}, {})
    PROVE  LET r == ThreadSchdule(s) IN Good(r, {r.active} \ {Daemon}, {})
<1> DEFINE r == ThreadSchdule(s)
<1>0. s \in Frames /\ Placed(s, {}) /\ Holds(s, s.runlist, "RUN")  BY DEF Good, Fit
<1>1. CASE s.runlist = <<>>
  <2>1. r = [s EXCEPT !.active = Daemon]  BY <1>1 DEF ThreadSchdule
  <2>2. /\ r \in Frames /\ r.active = Daemon /\ r.flag = s.flag /\ r.runlist = s.runlist
        /\ r.heap = s.heap /\ r.parent = s.parent /\ r.freelist = s.freelist /\ r.made = s.made
    BY <1>0, <2>1 DEF Frames
  <2> HIDE DEF r
  <2>3. Fit(r, {})  BY <2>2 DEF Good, Fit, Placed, Place, Holds
  <2>4. IoSleeps(r) /\ Joined(r, {})  BY <2>2 DEF Good, IoSleeps, Joined, SubThreads
  <2>5. {r.active} \ {Daemon} = {}  BY <2>2
  <2> QED  BY <2>3, <2>4, <2>5 DEF Good, r
<1>2. CASE s.runlist # <<>>
  <2> DEFINE t == Head(s.runlist)
             q == UnsetFlag(s, t, "RUN")
  <2>1. s.runlist \in Seq(Threads) /\ IsInjective(s.runlist)  BY <1>0 DEF Frames, Holds
  <2>2. /\ t \in Threads /\ t \in ToSet(s.runlist)
        /\ Tail(s.runlist) \in Seq(Threads) /\ IsInjective(Tail(s.runlist))
        /\ ToSet(Tail(s.runlist)) = ToSet(s.runlist) \ {t}
    BY <1>2, <2>1, TailList
  <2>3. t \in Threads /\ "RUN" \in s.flag[t]  BY <1>0, <2>2 DEF Holds
  <2>4. r = [q EXCEPT !.active = t, !.runlist = Tail(@)]  BY <1>2 DEF ThreadSchdule
  <2> HIDE DEF t
  <2>5. /\ q \in Frames /\ q.flag[t] = s.flag[t] \ {"RUN"} /\ Apart(s, q, t)
        /\ q.active = s.active /\ q.runlist = s.runlist /\ q.heap = s.heap
        /\ q.parent = s.parent /\ q.freelist = s.freelist /\ q.made = s.made
    BY <1>0, <2>3, UnsetFlagIs DEF Flags
  <2> HIDE DEF q
  <2>6. /\ r \in Frames /\ r.active = t /\ r.flag = q.flag /\ r.runlist = Tail(s.runlist)
        /\ r.heap = s.heap /\ r.parent = s.parent /\ r.freelist = s.freelist /\ r.made = s.made
    <3>1. Tail(q.runlist) \in Seq(Threads)  BY <2>2, <2>5
    <3> QED  BY <2>3, <2>4, <2>5, <3>1 DEF Frames
  <2> HIDE DEF r
  <2>7. r.flag[t] = s.flag[t] \ {"RUN"} /\ Apart(s, r, t)  BY <2>5, <2>6 DEF Apart
  <2>8. \A u \in Threads, f \in Flags : f # "RUN" => (f \in r.flag[u] <=> f \in s.flag[u])
    BY <2>7 DEF Apart
  <2>9. Placed(r, {t})
    <3>1. Place(r, t) = Place(s, t) \ {"RUN"} /\ "RUN" \in Lists  BY <2>7 DEF Place, Lists
    <3>2. Placed(r, {} \cup {t})  BY <1>0, <2>3, <2>6, <2>7, <3>1, PlacedOut
    <3> QED  BY <3>2
  <2>10. Holds(r, r.runlist, "RUN")
    <3>1. \A u \in Threads : "RUN" \in r.flag[u] <=> "RUN" \in s.flag[u] /\ u # t
      BY <2>7 DEF Apart
    <3> QED  BY <1>0, <2>2, <2>6, <3>1 DEF Holds
  <2>11. Holds(r, r.freelist, "FREE")
    <3>1. \A u \in Threads : "FREE" \in r.flag[u] <=> "FREE" \in s.flag[u]  BY <2>8 DEF Flags
    <3> QED  BY <2>6, <3>1, HoldsSame DEF Good, Fit
  <2>12. \A u \in Threads : /\ "SLEEP" \in r.flag[u] <=> "SLEEP" \in s.flag[u]
                            /\ "IO" \in r.flag[u] <=> "IO" \in s.flag[u]
    BY <2>8 DEF Flags
  <2>13. Fit(r, {t})  BY <2>6, <2>9, <2>10, <2>11, <2>12 DEF Good, Fit
  <2>14. IoSleeps(r)  BY <2>12 DEF Good, IoSleeps
  <2>15. Joined(r, {})
    <3>1. SameJoin(s, r)  BY <2>6, <2>8 DEF SameJoin, Flags
    <3> QED  BY <3>1, JoinGoesOn DEF Good
  <2>16. {r.active} \ {Daemon} = {t}  BY <2>3, <2>6, ThreadAssumption
  <2> QED  BY <2>13, <2>14, <2>15, <2>16 DEF Good, r
<1> QED  BY <1>1, <1>2

-----------------------------------------------------------------------------
(***************************************************************************)
(* ThreadPool.                                                             *)
(***************************************************************************)
\* Numbers of threads.
LEMMA PoolNumbers == MaxNum \in Nat /\ DefaultNum \in Nat /\ 1 <= DefaultNum /\ DefaultNum <= MaxNum
<1>1. Cardinality(Pool) \in Nat  BY ThreadAssumption, FS_CardinalityType
<1>2. MaxNum \in Nat  BY <1>1 DEF MaxNum
<1> QED  BY <1>2, ThreadAssumption

\* The thread that AllocThread returns is at hand, and nobody's sub thread.
LEMMA AllocGood ==
    ASSUME NEW s, NEW X, NEW Z, Good(s, X, Z), CanAlloc(s)
    PROVE  LET r == AllocThread(s)
               t == Allocated(s)
           IN  /\ Good(r, X \cup {t}, Z) /\ r.active = s.active /\ r.parent = s.parent
               /\ t \in Pool /\ t \notin X /\ s.parent[t] = NULL
<1> DEFINE r == AllocThread(s)
           t == Allocated(s)
<1>0. /\ s \in Frames /\ Placed(s, X) /\ Holds(s, s.freelist, "FREE") /\ IoSleeps(s) /\ Joined(s, Z)
      /\ s.made \subseteq Pool /\ Pool \subseteq Threads /\ Primo \notin Pool
  BY ThreadAssumption DEF Good, Fit, Frames, Threads
<1>1. CASE s.freelist # <<>>
  <2> DEFINE q == UnsetFlag(s, t, "FREE")
  <2>1. s.freelist \in Seq(Pool) /\ IsInjective(s.freelist)  BY <1>0 DEF Frames, Holds
  <2>2. t = Head(s.freelist)  BY <1>1 DEF Allocated
  <2>3. /\ t \in Pool /\ t \in ToSet(s.freelist)
        /\ Tail(s.freelist) \in Seq(Pool) /\ IsInjective(Tail(s.freelist))
        /\ ToSet(Tail(s.freelist)) = ToSet(s.freelist) \ {t}
    BY <1>1, <2>1, <2>2, TailList
  <2>4. t \in Threads /\ "FREE" \in s.flag[t]  BY <1>0, <2>3 DEF Holds
  <2>5. r = [q EXCEPT !.freelist = Tail(@)]  BY <1>1 DEF AllocThread
  <2> HIDE DEF t
  <2>6. /\ q \in Frames /\ q.flag[t] = s.flag[t] \ {"FREE"} /\ Apart(s, q, t)
        /\ q.active = s.active /\ q.runlist = s.runlist /\ q.heap = s.heap
        /\ q.parent = s.parent /\ q.freelist = s.freelist /\ q.made = s.made
    <3>1. "FREE" \in Flags  BY DEF Flags
    <3> QED  BY <1>0, <2>4, <3>1, UnsetFlagIs, SMTT(60)
  <2> HIDE DEF q
  <2>7. /\ r \in Frames /\ r.active = s.active /\ r.flag = q.flag /\ r.runlist = s.runlist
        /\ r.heap = s.heap /\ r.parent = s.parent /\ r.freelist = Tail(s.freelist) /\ r.made = s.made
    <3>1. Tail(q.freelist) \in Seq(Pool)  BY <2>3, <2>6
    <3> QED  BY <2>5, <2>6, <3>1 DEF Frames
  <2> HIDE DEF r
  <2>8. r.flag[t] = s.flag[t] \ {"FREE"} /\ Apart(s, r, t)  BY <2>6, <2>7 DEF Apart
  <2>9. \A u \in Threads, f \in Flags : f # "FREE" => (f \in r.flag[u] <=> f \in s.flag[u])
    BY <2>8 DEF Apart
  <2>10. Placed(r, X \cup {t}) /\ t \notin X
    <3>1. Place(r, t) = Place(s, t) \ {"FREE"} /\ "FREE" \in Lists  BY <2>8 DEF Place, Lists
    <3> QED  BY <1>0, <2>4, <2>7, <2>8, <3>1, PlacedOut
  <2>11. Holds(r, r.freelist, "FREE")
    <3>1. \A u \in Threads : "FREE" \in r.flag[u] <=> "FREE" \in s.flag[u] /\ u # t
      BY <2>8 DEF Apart
    <3> QED  BY <1>0, <2>3, <2>7, <3>1 DEF Holds
  <2>12. Holds(r, r.runlist, "RUN")
    <3>1. \A u \in Threads : "RUN" \in r.flag[u] <=> "RUN" \in s.flag[u]  BY <2>9 DEF Flags
    <3> QED  BY <2>7, <3>1, HoldsSame DEF Good, Fit
  <2>13. \A u \in Threads : /\ "SLEEP" \in r.flag[u] <=> "SLEEP" \in s.flag[u]
                            /\ "IO" \in r.flag[u] <=> "IO" \in s.flag[u]
                            /\ "PEND" \in r.flag[u] <=> "PEND" \in s.flag[u]
                            /\ "SUB" \in r.flag[u] <=> "SUB" \in s.flag[u]
    BY <2>9 DEF Flags
  <2>14. Fit(r, X \cup {t})  BY <2>7, <2>10, <2>11, <2>12, <2>13 DEF Good, Fit
  <2>15. IoSleeps(r)  BY <1>0, <2>13 DEF IoSleeps
  <2>16. Joined(r, Z)
    <3>1. \A u \in Threads : SubThreads(r, u) = SubThreads(s, u)  BY <2>7 DEF SubThreads
    <3>2. \A u \in Pool : "FREE" \notin s.flag[u] => "FREE" \notin r.flag[u]
      BY <1>0, <2>8 DEF Apart
    <3> QED  BY <1>0, <2>7, <2>13, <3>1, <3>2 DEF Joined
  <2>17. s.parent[t] = NULL  BY <1>0, <2>3, <2>4 DEF Joined
  <2> QED  BY <2>3, <2>7, <2>10, <2>14, <2>15, <2>16, <2>17 DEF Good, r, t
<1>2. CASE s.freelist = <<>>
  <2> DEFINE d == IF UseNum(s) + 1 > s.default /\ 2 * s.default < MaxNum THEN 2 * s.default
                  ELSE s.default
  <2>1. t \in Pool \ s.made
    <3>1. Pool \ s.made # {}  BY <1>0, <1>2 DEF CanAlloc
    <3> QED  BY <1>2, <3>1 DEF Allocated
  <2>2. r = [s EXCEPT !.made = @ \cup {t}, !.default = d]  BY <1>2 DEF AllocThread
  <2>3. d \in DefaultNum .. MaxNum
    <3>1. s.default \in DefaultNum .. MaxNum  BY <1>0 DEF Frames
    <3> QED  BY <3>1, PoolNumbers
  <2> HIDE DEF t, d
  <2>4. /\ r \in Frames /\ r.active = s.active /\ r.flag = s.flag /\ r.runlist = s.runlist
        /\ r.heap = s.heap /\ r.parent = s.parent /\ r.freelist = s.freelist
        /\ r.made = s.made \cup {t}
    <3>1. PICK m \in SUBSET Pool : m = s.made \cup {t}  BY <1>0, <2>1
    <3>2. r \in Frames
      <4>1. s \in Frames /\ r = [s EXCEPT !.made = m, !.default = d]  BY <1>0, <2>2, <3>1
      <4> HIDE DEF r
      <4>2. /\ s.active \in Threads \cup {Daemon} /\ s.runlist \in Seq(Threads) /\ s.heap \in Heaps
            /\ s.flag \in [Threads -> SUBSET Flags] /\ s.left \in [Threads -> Int]
            /\ s.parent \in [Threads -> Threads \cup {NULL}] /\ s.freelist \in Seq(Pool)
        BY <4>1 DEF Frames
      <4>3. r = [active |-> s.active, runlist |-> s.runlist, heap |-> s.heap, flag |-> s.flag,
                 left |-> s.left, parent |-> s.parent, freelist |-> s.freelist,
                 made |-> m, default |-> d]
        BY <4>1 DEF Frames
      <4> QED  BY <2>3, <4>2, <4>3, Zenon DEF Frames
    <3>3. /\ r.active = s.active /\ r.flag = s.flag /\ r.runlist = s.runlist
          /\ r.heap = s.heap /\ r.parent = s.parent /\ r.freelist = s.freelist
          /\ r.made = s.made \cup {t}
      BY <1>0, <2>2, SMTT(60) DEF Frames
    <3> QED  BY <3>2, <3>3
  <2> HIDE DEF r
  <2>5. Placed(r, X \cup {t}) /\ t \notin X
    <3>1. \A u : Place(r, u) = Place(s, u)  BY <2>4 DEF Place
    <3>2. t \in Threads \ (s.made \cup {Primo})  BY <1>0, <2>1
    <3> QED  BY <1>0, <2>4, <3>1, <3>2 DEF Placed
  <2>6. Fit(r, X \cup {t})  BY <2>4, <2>5 DEF Good, Fit, Holds
  <2>7. IoSleeps(r)  BY <1>0, <2>4 DEF IoSleeps
  <2>8. Joined(r, Z)  BY <1>0, <2>4 DEF Joined, SubThreads
  <2>9. s.parent[t] = NULL  BY <1>0, <2>1 DEF Joined
  <2> QED  BY <2>1, <2>4, <2>5, <2>6, <2>7, <2>8, <2>9 DEF Good, r, t
<1> QED  BY <1>1, <1>2

\* FreeThread up to the free list
LEMMA FreeIn ==
    ASSUME NEW s, NEW X, NEW t \in X, t \in Pool, Good(s, X, {}), s.parent[t] = NULL, NEW r,
           r = [s EXCEPT !.flag[t] = {"FREE"}, !.parent[t] = NULL, !.left[t] = 0,
                         !.freelist = Append(@, t)]
    PROVE  Good(r, X \ {t}, {}) /\ r.active = s.active
<1>0. /\ t \in Threads /\ Place(s, t) = {} /\ s \in Frames /\ Placed(s, X) /\ IoSleeps(s)
      /\ Holds(s, s.freelist, "FREE") /\ Joined(s, {}) /\ HeapOK(s.heap, {}) /\ Pool \subseteq Threads
      /\ \A u \in Threads : s.heap.index[u] # 0 <=> "SLEEP" \in s.flag[u]
  BY AtHand DEF Good, Fit, Threads
<1>1. \A f \in Lists : f \notin s.flag[t]  BY <1>0 DEF Place
<1>2. /\ Append(s.freelist, t) \in Seq(Pool) /\ IsInjective(Append(s.freelist, t))
      /\ ToSet(Append(s.freelist, t)) = ToSet(s.freelist) \cup {t}
  <2>1. s.freelist \in Seq(Pool) /\ IsInjective(s.freelist)  BY <1>0 DEF Frames, Holds
  <2>2. t \notin ToSet(s.freelist)  BY <1>0, <1>1 DEF Holds, Lists
  <2> QED  BY <2>1, <2>2, AppendList
<1>3. /\ r \in Frames /\ r.active = s.active /\ r.runlist = s.runlist /\ r.heap = s.heap
      /\ r.made = s.made /\ r.freelist = Append(s.freelist, t)
      /\ r.flag[t] = {"FREE"} /\ Apart(s, r, t) /\ r.parent = s.parent
  <2> DEFINE flag == [s.flag EXCEPT ![t] = {"FREE"}]
             parent == [s.parent EXCEPT ![t] = NULL]
             left == [s.left EXCEPT ![t] = 0]
             free == Append(s.freelist, t)
  <2>1. flag \in [Threads -> SUBSET Flags] /\ left \in [Threads -> Int] /\ parent = s.parent
    BY <1>0 DEF Frames, Flags
  <2>2. flag[t] = {"FREE"} /\ \A u \in Threads : u # t => flag[u] = s.flag[u]
    BY <1>0 DEF Frames
  <2>3. r = [s EXCEPT !.flag = flag, !.parent = parent, !.left = left, !.freelist = free]
    OBVIOUS
  <2>4. free \in Seq(Pool)  BY <1>2
  <2> HIDE DEF flag, parent, left, free
  <2>5. /\ r \in Frames /\ r.active = s.active /\ r.runlist = s.runlist /\ r.heap = s.heap
        /\ r.made = s.made /\ r.freelist = free /\ r.flag = flag /\ r.parent = parent
    BY <1>0, <2>1, <2>3, <2>4 DEF Frames
  <2> QED  BY <2>1, <2>2, <2>5 DEF Apart, free
<1>4. \A u \in Threads, f \in Lists : f # "FREE" => (f \in r.flag[u] <=> f \in s.flag[u])
  BY <1>1, <1>3 DEF Apart
<1>5. Placed(r, X \ {t})
  <2>1. Place(r, t) = Place(s, t) \cup {"FREE"} /\ "FREE" \in Lists  BY <1>0, <1>3 DEF Place, Lists
  <2> QED  BY <1>0, <1>3, <2>1, PlacedIn
<1>6. Holds(r, r.runlist, "RUN")
  <2>1. \A u \in Threads : "RUN" \in r.flag[u] <=> "RUN" \in s.flag[u]  BY <1>4 DEF Lists
  <2> QED  BY <1>3, <2>1, HoldsSame DEF Good, Fit
<1>7. Holds(r, r.freelist, "FREE")
  <2>1. \A u \in Threads : "FREE" \in r.flag[u] <=> "FREE" \in s.flag[u] \/ u = t
    BY <1>3 DEF Apart
  <2> QED  BY <1>0, <1>2, <1>3, <2>1 DEF Holds
<1>8. Fit(r, X \ {t})
  <2>1. \A u \in Threads : "SLEEP" \in r.flag[u] <=> "SLEEP" \in s.flag[u]  BY <1>4 DEF Lists
  <2> QED  BY <1>0, <1>3, <1>5, <1>6, <1>7, <2>1 DEF Fit
<1>9. IoSleeps(r)  BY <1>0, <1>3 DEF IoSleeps, Apart
<1>10. Joined(r, {})
  <2>1. \A u \in Threads : "PEND" \in r.flag[u] <=> "PEND" \in s.flag[u]  BY <1>4 DEF Lists
  <2>2. \A u \in Threads : SubThreads(r, u) = SubThreads(s, u)  BY <1>3 DEF SubThreads
  <2> QED  BY <1>0, <1>3, <2>1, <2>2 DEF Joined, Apart
<1> QED  BY <1>3, <1>8, <1>9, <1>10 DEF Good

\* FreeThread: the first of a free list that is too long is deleted
LEMMA DeleteFirst ==
    ASSUME NEW s, NEW X, Good(s, X, {}), s.freelist # <<>>, NEW d \in DefaultNum .. MaxNum, NEW r,
           r = [UnsetFlag(s, Head(s.freelist), "FREE") EXCEPT
                   !.freelist = Tail(@), !.made = @ \ {Head(s.freelist)}, !.default = d]
    PROVE  Good(r, X, {}) /\ r.active = s.active
<1> DEFINE t == Head(s.freelist)
           q == UnsetFlag(s, t, "FREE")
<1>0. /\ s \in Frames /\ Placed(s, X) /\ Holds(s, s.freelist, "FREE") /\ IoSleeps(s) /\ Joined(s, {})
      /\ s.made \subseteq Pool /\ Pool \subseteq Threads /\ Primo \notin Pool
  BY ThreadAssumption DEF Good, Fit, Frames, Threads
<1>1. s.freelist \in Seq(Pool) /\ IsInjective(s.freelist)  BY <1>0 DEF Frames, Holds
<1>3. /\ t \in Pool /\ t \in ToSet(s.freelist)
      /\ Tail(s.freelist) \in Seq(Pool) /\ IsInjective(Tail(s.freelist))
      /\ ToSet(Tail(s.freelist)) = ToSet(s.freelist) \ {t}
  BY <1>1, TailList
<1>4. t \in Threads /\ "FREE" \in s.flag[t]  BY <1>0, <1>3 DEF Holds
<1>5. r = [q EXCEPT !.freelist = Tail(@), !.made = @ \ {t}, !.default = d]  OBVIOUS
<1> HIDE DEF t
<1>6. /\ q \in Frames /\ q.flag[t] = s.flag[t] \ {"FREE"} /\ Apart(s, q, t)
      /\ q.active = s.active /\ q.runlist = s.runlist /\ q.heap = s.heap
      /\ q.parent = s.parent /\ q.freelist = s.freelist /\ q.made = s.made
  <2>1. "FREE" \in Flags  BY DEF Flags
  <2> QED  BY <1>0, <1>4, <2>1, UnsetFlagIs, SMTT(60)
<1> HIDE DEF q
<1>7. /\ r \in Frames /\ r.active = s.active /\ r.flag = q.flag /\ r.runlist = s.runlist
      /\ r.heap = s.heap /\ r.parent = s.parent /\ r.freelist = Tail(s.freelist)
      /\ r.made = s.made \ {t}
  <2>1. Tail(q.freelist) \in Seq(Pool)  BY <1>3, <1>6
  <2> QED  BY <1>5, <1>6, <2>1 DEF Frames
<1>8. r.flag[t] = s.flag[t] \ {"FREE"} /\ Apart(s, r, t)  BY <1>6, <1>7 DEF Apart
<1>9. \A u \in Threads, f \in Flags : f # "FREE" => (f \in r.flag[u] <=> f \in s.flag[u])
  BY <1>8 DEF Apart
<1>10. Placed(r, X)
  <2>1. "FREE" \in Place(s, t)  BY <1>4 DEF Place, Lists
  <2>2. t \notin X /\ t \in s.made \cup {Primo} /\ Place(s, t) = {"FREE"}
    BY <1>0, <1>4, <2>1 DEF Placed
  <2>3. Place(r, t) = {}
    <3>1. Place(r, t) = Place(s, t) \ {"FREE"}  BY <1>8 DEF Place
    <3> QED  BY <2>2, <3>1
  <2>4. \A u \in Threads : u # t => Place(r, u) = Place(s, u)  BY <1>8 DEF Apart, Place
  <2>5. t # Primo /\ s.made \cup {Primo} \subseteq Threads  BY <1>0, <1>3 DEF Threads
  <2> QED  BY <1>0, <1>7, <2>2, <2>3, <2>4, <2>5 DEF Placed
<1>11. Holds(r, r.freelist, "FREE")
  <2>1. \A u \in Threads : "FREE" \in r.flag[u] <=> "FREE" \in s.flag[u] /\ u # t
    BY <1>8 DEF Apart
  <2> QED  BY <1>0, <1>3, <1>7, <2>1 DEF Holds
<1>12. Holds(r, r.runlist, "RUN")
  <2>1. \A u \in Threads : "RUN" \in r.flag[u] <=> "RUN" \in s.flag[u]  BY <1>9 DEF Flags
  <2> QED  BY <1>7, <2>1, HoldsSame DEF Good, Fit
<1>13. \A u \in Threads : /\ "SLEEP" \in r.flag[u] <=> "SLEEP" \in s.flag[u]
                          /\ "IO" \in r.flag[u] <=> "IO" \in s.flag[u]
                          /\ "PEND" \in r.flag[u] <=> "PEND" \in s.flag[u]
                          /\ "SUB" \in r.flag[u] <=> "SUB" \in s.flag[u]
  BY <1>9 DEF Flags
<1>14. Fit(r, X)  BY <1>7, <1>10, <1>11, <1>12, <1>13 DEF Good, Fit
<1>15. IoSleeps(r)  BY <1>0, <1>13 DEF IoSleeps
<1>16. Joined(r, {})
  <2>1. \A u \in Threads : SubThreads(r, u) = SubThreads(s, u)  BY <1>7 DEF SubThreads
  <2>2. \A u \in Pool : "FREE" \notin s.flag[u] => "FREE" \notin r.flag[u]
    BY <1>0, <1>8 DEF Apart
  <2>3. \A u \in Pool : s.parent[u] # NULL => u \in r.made  BY <1>0, <1>4, <1>7 DEF Joined
  <2> QED  BY <1>0, <1>7, <1>13, <2>1, <2>2, <2>3 DEF Joined
<1> QED  BY <1>7, <1>14, <1>15, <1>16 DEF Good

\* FreeThread
LEMMA FreeGood ==
    ASSUME NEW s, NEW X, NEW t \in X, t \in Pool, Good(s, X, {}), s.parent[t] = NULL
    PROVE  Good(FreeThread(s, t), X \ {t}, {}) /\ FreeThread(s, t).active = s.active
<1>1. PICK r : r = Freed(s, t)  OBVIOUS
<1>2. Good(r, X \ {t}, {}) /\ r.active = s.active  BY <1>1, FreeIn DEF Freed
<1>3. FreeThread(s, t) = Trim(r)  BY <1>1 DEF FreeThread
<1>4. CASE Len(r.freelist) > r.default /\ Len(r.freelist) > 1
  <2> DEFINE u == UnsetFlag(r, Head(r.freelist), "FREE")
             d == IF r.default \div 2 >= DefaultNum THEN r.default \div 2 ELSE r.default
             q == [u EXCEPT !.freelist = Tail(@), !.made = @ \ {Head(r.freelist)}, !.default = d]
  <2>1. r \in Frames  BY <1>2 DEF Good, Fit
  <2>2. r.freelist # <<>>  BY <1>4
  <2>3. d \in DefaultNum .. MaxNum
    <3>1. r.default \in DefaultNum .. MaxNum  BY <2>1 DEF Frames
    <3>2. r.default \div 2 \in Int /\ r.default \div 2 <= r.default  BY <3>1, PoolNumbers
    <3> QED  BY <3>1, <3>2, PoolNumbers
  <2>4. Trim(r) = q
    <3>1. u.default = r.default
      <4>1. Head(r.freelist) \in Threads  BY <2>1, <2>2 DEF Frames, Threads
      <4> QED  BY <2>1, <4>1, UnsetFlagIs DEF Flags
    <3>2. Trim(r) = [u EXCEPT !.freelist = Tail(@), !.made = @ \ {Head(r.freelist)},
                              !.default = IF r.default \div 2 >= DefaultNum
                                          THEN r.default \div 2 ELSE u.default]
      BY <1>4 DEF Trim
    <3> QED  BY <3>1, <3>2
  <2>5. Good(q, X \ {t}, {}) /\ q.active = r.active
    <3> HIDE DEF d
    <3> QED  BY <1>2, <2>2, <2>3, DeleteFirst
  <2> QED  BY <1>2, <1>3, <2>4, <2>5
<1>5. CASE ~(Len(r.freelist) > r.default /\ Len(r.freelist) > 1)
  BY <1>2, <1>3, <1>5 DEF Trim
<1> QED  BY <1>4, <1>5
-----------------------------------------------------------------------------
(***************************************************************************)
(* Parents and sub threads.                                                *)
(***************************************************************************)
\* AddSubThread and InsertRunable of a thread at hand
LEMMA StartSubGood ==
    ASSUME NEW s, NEW X, NEW Z, Good(s, X, Z), NEW sub \in X, sub \in Pool, s.parent[sub] = NULL,
           NEW t \in Threads
    PROVE  LET r == StartSub(s, t, sub)
           IN  /\ Good(r, X \ {sub}, Z \cup {t}) /\ r.active = s.active
               /\ SubThreads(r, t) # {} /\ \A u \in Pool : u # sub => r.parent[u] = s.parent[u]
<1> DEFINE p == SetFlag(s, sub, "SUB")
           q == [p EXCEPT !.parent[sub] = t]
<1>0. /\ sub \in Threads /\ Place(s, sub) = {} /\ s \in Frames /\ Placed(s, X) /\ IoSleeps(s)
      /\ Joined(s, Z) /\ Pool \subseteq Threads
  BY AtHand DEF Good, Fit, Threads
<1>1. /\ p \in Frames /\ p.flag[sub] = s.flag[sub] \cup {"SUB"} /\ Apart(s, p, sub)
      /\ p.active = s.active /\ p.runlist = s.runlist /\ p.heap = s.heap
      /\ p.parent = s.parent /\ p.freelist = s.freelist /\ p.made = s.made
  BY <1>0, SetFlagIs DEF Flags
<1> HIDE DEF p
<1>2. /\ q \in Frames /\ q.flag = p.flag /\ q.active = s.active /\ q.runlist = s.runlist
      /\ q.heap = s.heap /\ q.freelist = s.freelist /\ q.made = s.made
      /\ q.parent[sub] = t /\ \A u \in Threads : u # sub => q.parent[u] = s.parent[u]
  BY <1>0, <1>1 DEF Frames
<1>3. StartSub(s, t, sub) = InsertRunable(q, sub)  BY DEF StartSub, p
<1> HIDE DEF q
<1>4. q.flag[sub] = s.flag[sub] \cup {"SUB"} /\ Apart(s, q, sub)  BY <1>1, <1>2 DEF Apart
<1>5. \A u \in Threads, f \in Flags : f # "SUB" => (f \in q.flag[u] <=> f \in s.flag[u])
  BY <1>0, <1>4 DEF Apart
<1>6. Placed(q, X)
  <2>1. \A u \in Threads : Place(q, u) = Place(s, u)  BY <1>0, <1>4 DEF Apart, Place, Lists
  <2>2. s.made \cup {Primo} \subseteq Threads  BY <1>0 DEF Frames, Threads
  <2> QED  BY <1>0, <1>2, <2>1, <2>2 DEF Placed
<1>7. Fit(q, X)
  <2>1. \A u \in Threads : "RUN" \in q.flag[u] <=> "RUN" \in s.flag[u]  BY <1>5 DEF Flags
  <2>2. \A u \in Threads : "FREE" \in q.flag[u] <=> "FREE" \in s.flag[u]  BY <1>5 DEF Flags
  <2>3. \A u \in Threads : "SLEEP" \in q.flag[u] <=> "SLEEP" \in s.flag[u]  BY <1>5 DEF Flags
  <2>4. Holds(q, q.runlist, "RUN") /\ Holds(q, q.freelist, "FREE")
    BY <1>2, <2>1, <2>2, HoldsSame DEF Good, Fit
  <2> QED  BY <1>2, <1>6, <2>3, <2>4 DEF Good, Fit
<1>8. IoSleeps(q)  BY <1>0, <1>5 DEF IoSleeps, Flags
<1>9. sub \in SubThreads(q, t)  BY <1>2 DEF SubThreads
<1>10. Joined(q, Z \cup {t})
  <2>1. \A u \in Threads \ {t} : SubThreads(q, u) = SubThreads(s, u)
    <3> SUFFICES ASSUME NEW u \in Threads, u # t PROVE SubThreads(q, u) = SubThreads(s, u)
      OBVIOUS
    <3>1. u # NULL  BY ThreadAssumption
    <3> QED  BY <1>0, <1>2, <3>1 DEF SubThreads
  <2>2. \A u \in Threads : "PEND" \in q.flag[u] <=> "PEND" \in s.flag[u]  BY <1>5 DEF Flags
  <2>3. \A u \in Pool : "SUB" \in q.flag[u] <=> q.parent[u] # NULL
    BY <1>0, <1>2, <1>4, ThreadAssumption DEF Joined, Apart
  <2>4. sub \in s.made /\ "FREE" \notin s.flag[sub]
    BY <1>0, ThreadAssumption DEF Placed, Place, Lists
  <2>5. \A u \in Threads : "FREE" \in q.flag[u] <=> "FREE" \in s.flag[u]  BY <1>5 DEF Flags
  <2> QED  BY <1>0, <1>2, <2>1, <2>2, <2>3, <2>4, <2>5 DEF Joined
<1>11. Good(q, X, Z \cup {t})  BY <1>7, <1>8, <1>10 DEF Good
<1>12. PICK r : r = InsertRunable(q, sub)  OBVIOUS
<1>13. Good(r, X \ {sub}, Z \cup {t}) /\ r.active = q.active /\ r.parent = q.parent
  BY <1>11, <1>12, RunableGood
<1>14. SubThreads(r, t) # {}  BY <1>9, <1>13 DEF SubThreads
<1> QED  BY <1>0, <1>2, <1>3, <1>12, <1>13, <1>14

\* InsertPend: a thread at hand that has been given sub threads
LEMMA PendGood ==
    ASSUME NEW s, NEW X, NEW t \in X, Good(s, X, {t}), SubThreads(s, t) # {}
    PROVE  Good(InsertPend(s, t), X \ {t}, {}) /\ InsertPend(s, t).active = s.active
<1> DEFINE r == InsertPend(s, t)
<1>0. /\ t \in Threads /\ Place(s, t) = {} /\ s \in Frames /\ Placed(s, X) /\ IoSleeps(s)
      /\ Joined(s, {t}) /\ Pool \subseteq Threads
  BY AtHand DEF Good, Fit, Threads
<1>1. /\ r \in Frames /\ r.flag[t] = s.flag[t] \cup {"PEND"} /\ Apart(s, r, t)
      /\ r.active = s.active /\ r.runlist = s.runlist /\ r.heap = s.heap
      /\ r.parent = s.parent /\ r.freelist = s.freelist /\ r.made = s.made
  BY <1>0, SetFlagIs DEF Flags, InsertPend
<1> HIDE DEF r
<1>2. \A u \in Threads, f \in Flags : f # "PEND" => (f \in r.flag[u] <=> f \in s.flag[u])
  BY <1>0, <1>1 DEF Apart
<1>3. Placed(r, X \ {t})
  <2>1. Place(r, t) = Place(s, t) \cup {"PEND"} /\ "PEND" \in Lists  BY <1>1 DEF Place, Lists
  <2> QED  BY <1>0, <1>1, <2>1, PlacedIn
<1>4. Fit(r, X \ {t})
  <2>1. \A u \in Threads : "RUN" \in r.flag[u] <=> "RUN" \in s.flag[u]  BY <1>2 DEF Flags
  <2>2. \A u \in Threads : "FREE" \in r.flag[u] <=> "FREE" \in s.flag[u]  BY <1>2 DEF Flags
  <2>3. \A u \in Threads : "SLEEP" \in r.flag[u] <=> "SLEEP" \in s.flag[u]  BY <1>2 DEF Flags
  <2>4. Holds(r, r.runlist, "RUN") /\ Holds(r, r.freelist, "FREE")
    BY <1>1, <2>1, <2>2, HoldsSame DEF Good, Fit
  <2> QED  BY <1>1, <1>3, <2>3, <2>4 DEF Good, Fit
<1>5. IoSleeps(r)  BY <1>0, <1>2 DEF IoSleeps, Flags
<1>6. Joined(r, {})
  <2>1. \A u \in Threads : SubThreads(r, u) = SubThreads(s, u)  BY <1>1 DEF SubThreads
  <2>2. \A u \in Threads : u # t => ("PEND" \in r.flag[u] <=> "PEND" \in s.flag[u])
    BY <1>1 DEF Apart
  <2>3. \A u \in Threads : /\ "SUB" \in r.flag[u] <=> "SUB" \in s.flag[u]
                           /\ "FREE" \in r.flag[u] <=> "FREE" \in s.flag[u]
    BY <1>2 DEF Flags
  <2>4. "PEND" \in r.flag[t]  BY <1>1
  <2> QED  BY <1>0, <1>1, <2>1, <2>2, <2>3, <2>4 DEF Joined
<1> QED  BY <1>1, <1>4, <1>5, <1>6 DEF Good, r

\* RemovePend: a thread whose last sub thread is gone
LEMMA UnpendGood ==
    ASSUME NEW s, NEW X, NEW t \in Threads, Good(s, X, {t}), SubThreads(s, t) = {}, "PEND" \in s.flag[t]
    PROVE  /\ Good(RemovePend(s, t), X \cup {t}, {}) /\ RemovePend(s, t).active = s.active
           /\ RemovePend(s, t).parent = s.parent /\ t \notin X
<1> DEFINE r == RemovePend(s, t)
<1>0. s \in Frames /\ Placed(s, X) /\ IoSleeps(s) /\ Joined(s, {t}) /\ Pool \subseteq Threads
  BY DEF Good, Fit, Threads
<1>1. /\ r \in Frames /\ r.flag[t] = s.flag[t] \ {"PEND"} /\ Apart(s, r, t)
      /\ r.active = s.active /\ r.runlist = s.runlist /\ r.heap = s.heap
      /\ r.parent = s.parent /\ r.freelist = s.freelist /\ r.made = s.made
  BY <1>0, UnsetFlagIs DEF Flags, RemovePend
<1> HIDE DEF r
<1>2. \A u \in Threads, f \in Flags : f # "PEND" => (f \in r.flag[u] <=> f \in s.flag[u])
  BY <1>1 DEF Apart
<1>3. Placed(r, X \cup {t}) /\ t \notin X
  <2>1. Place(r, t) = Place(s, t) \ {"PEND"} /\ "PEND" \in Lists  BY <1>1 DEF Place, Lists
  <2> QED  BY <1>0, <1>1, <2>1, PlacedOut
<1>4. Fit(r, X \cup {t})
  <2>1. \A u \in Threads : "RUN" \in r.flag[u] <=> "RUN" \in s.flag[u]  BY <1>2 DEF Flags
  <2>2. \A u \in Threads : "FREE" \in r.flag[u] <=> "FREE" \in s.flag[u]  BY <1>2 DEF Flags
  <2>3. \A u \in Threads : "SLEEP" \in r.flag[u] <=> "SLEEP" \in s.flag[u]  BY <1>2 DEF Flags
  <2>4. Holds(r, r.runlist, "RUN") /\ Holds(r, r.freelist, "FREE")
    BY <1>1, <2>1, <2>2, HoldsSame DEF Good, Fit
  <2> QED  BY <1>1, <1>3, <2>3, <2>4 DEF Good, Fit
<1>5. IoSleeps(r)  BY <1>0, <1>2 DEF IoSleeps, Flags
<1>6. Joined(r, {})
  <2>1. \A u \in Threads : SubThreads(r, u) = SubThreads(s, u)  BY <1>1 DEF SubThreads
  <2>2. \A u \in Threads : u # t => ("PEND" \in r.flag[u] <=> "PEND" \in s.flag[u])
    BY <1>1 DEF Apart
  <2>3. \A u \in Threads : /\ "SUB" \in r.flag[u] <=> "SUB" \in s.flag[u]
                           /\ "FREE" \in r.flag[u] <=> "FREE" \in s.flag[u]
    BY <1>2 DEF Flags
  <2>4. "PEND" \notin r.flag[t]  BY <1>1
  <2> QED  BY <1>0, <1>1, <2>1, <2>2, <2>3, <2>4 DEF Joined
<1> QED  BY <1>1, <1>3, <1>4, <1>5, <1>6 DEF Good, r

\* WakeupParent: the thread that ends leaves its parent, the last one wakes it
LEMMA WakeupParentGood ==
    ASSUME NEW s, NEW X, NEW t \in X, t \in Pool, Good(s, X, {})
    PROVE  LET r == WakeupParent(s, t)
           IN  Good(r, X, {}) /\ r.active = s.active /\ r.parent[t] = NULL
<1> DEFINE p == s.parent[t]
           o == UnsetFlag(s, t, "SUB")
           q == [o EXCEPT !.parent[t] = NULL]
<1>0. /\ t \in Threads /\ Place(s, t) = {} /\ s \in Frames /\ Placed(s, X) /\ IoSleeps(s)
      /\ Joined(s, {}) /\ Pool \subseteq Threads
  BY AtHand DEF Good, Fit, Threads
<1>1. CASE p = NULL
  <2>1. WakeupParent(s, t) = s  BY <1>1 DEF WakeupParent
  <2> QED  BY <1>1, <2>1
<1>2. CASE p # NULL
  <2>1. p \in Threads /\ "PEND" \in s.flag[p] /\ p # t
    <3>1. p \in Threads  BY <1>0, <1>2 DEF Frames
    <3>2. t \in SubThreads(s, p)  BY DEF SubThreads
    <3>3. "PEND" \in s.flag[p]  BY <1>0, <3>1, <3>2 DEF Joined
    <3>4. "PEND" \notin s.flag[t]  BY <1>0 DEF Place, Lists
    <3> QED  BY <3>1, <3>3, <3>4
  <2>2. /\ o \in Frames /\ o.flag[t] = s.flag[t] \ {"SUB"} /\ Apart(s, o, t)
        /\ o.active = s.active /\ o.runlist = s.runlist /\ o.heap = s.heap
        /\ o.parent = s.parent /\ o.freelist = s.freelist /\ o.made = s.made
    BY <1>0, UnsetFlagIs DEF Flags
  <2>3. WakeupParent(s, t) = IF SubThreads(q, p) = {} THEN InsertRunable(RemovePend(q, p), p) ELSE q
    BY <1>2 DEF WakeupParent
  <2> HIDE DEF o
  <2>4. /\ q \in Frames /\ q.flag = o.flag /\ q.active = s.active /\ q.runlist = s.runlist
        /\ q.heap = s.heap /\ q.freelist = s.freelist /\ q.made = s.made
        /\ q.parent[t] = NULL /\ \A u \in Threads : u # t => q.parent[u] = s.parent[u]
    BY <1>0, <2>2 DEF Frames
  <2> HIDE DEF q, p
  <2>5. q.flag[t] = s.flag[t] \ {"SUB"} /\ Apart(s, q, t)  BY <2>2, <2>4 DEF Apart
  <2>6. \A u \in Threads, f \in Flags : f # "SUB" => (f \in q.flag[u] <=> f \in s.flag[u])
    BY <1>0, <2>5 DEF Apart
  <2>7. Placed(q, X)
    <3>1. \A u \in Threads : Place(q, u) = Place(s, u)  BY <1>0, <2>5 DEF Apart, Place, Lists
    <3>2. s.made \cup {Primo} \subseteq Threads  BY <1>0 DEF Frames, Threads
    <3> QED  BY <1>0, <2>4, <3>1, <3>2 DEF Placed
  <2>8. Fit(q, X)
    <3>1. \A u \in Threads : "RUN" \in q.flag[u] <=> "RUN" \in s.flag[u]  BY <2>6 DEF Flags
    <3>2. \A u \in Threads : "FREE" \in q.flag[u] <=> "FREE" \in s.flag[u]  BY <2>6 DEF Flags
    <3>3. \A u \in Threads : "SLEEP" \in q.flag[u] <=> "SLEEP" \in s.flag[u]  BY <2>6 DEF Flags
    <3>4. Holds(q, q.runlist, "RUN") /\ Holds(q, q.freelist, "FREE")
      BY <2>4, <3>1, <3>2, HoldsSame DEF Good, Fit
    <3> QED  BY <2>4, <2>7, <3>3, <3>4 DEF Good, Fit
  <2>9. IoSleeps(q)  BY <1>0, <2>6 DEF IoSleeps, Flags
  <2>10. \A u \in Threads : "PEND" \in q.flag[u] <=> "PEND" \in s.flag[u]  BY <2>6 DEF Flags
  <2>11. Joined(q, {p})
    <3>1. \A u \in Threads \ {p} : SubThreads(q, u) = SubThreads(s, u)
      <4> SUFFICES ASSUME NEW u \in Threads, u # p PROVE SubThreads(q, u) = SubThreads(s, u)
        OBVIOUS
      <4>1. u # NULL  BY ThreadAssumption
      <4> QED  BY <1>0, <2>4, <4>1 DEF SubThreads, p
    <3>2. \A u \in Pool : "SUB" \in q.flag[u] <=> q.parent[u] # NULL
      BY <1>0, <2>4, <2>5 DEF Joined, Apart
    <3>3. \A u \in Threads : "FREE" \in q.flag[u] <=> "FREE" \in s.flag[u]  BY <2>6 DEF Flags
    <3> QED  BY <1>0, <2>4, <2>10, <3>1, <3>2, <3>3 DEF Joined
  <2>12. CASE SubThreads(q, p) = {}
    <3>1. PICK r : r = RemovePend(q, p)  OBVIOUS
    <3>2. Good(r, X \cup {p}, {}) /\ r.active = q.active /\ r.parent = q.parent /\ p \notin X
      BY <2>1, <2>8, <2>9, <2>10, <2>11, <2>12, <3>1, UnpendGood DEF Good
    <3>3. PICK w : w = InsertRunable(r, p)  OBVIOUS
    <3>4. Good(w, (X \cup {p}) \ {p}, {}) /\ w.active = r.active /\ w.parent = r.parent
      BY <3>2, <3>3, RunableGood
    <3>5. (X \cup {p}) \ {p} = X  BY <3>2
    <3>6. WakeupParent(s, t) = w  BY <2>3, <2>12, <3>1, <3>3
    <3> QED  BY <2>4, <3>2, <3>4, <3>5, <3>6
  <2>13. CASE SubThreads(q, p) # {}
    <3>1. Joined(q, {})  BY <2>1, <2>10, <2>11, <2>13 DEF Joined
    <3>2. WakeupParent(s, t) = q  BY <2>3, <2>13
    <3> QED  BY <2>4, <2>8, <2>9, <3>1, <3>2 DEF Good
  <2> QED  BY <2>12, <2>13
<1> QED  BY <1>1, <1>2
-----------------------------------------------------------------------------
(***************************************************************************)
(* The actions, on frame.  A thread in user code is at hand, and so is the *)
(* thread that the scheduler has chosen when the action ends.              *)
(***************************************************************************)
\* The thread that runs is at hand.
LEMMA UserAtHand ==
    ASSUME FrameInv, NEW t \in Threads, frame.active = t PROVE Good(frame, {t}, {})
<1>1. {frame.active} \ {Daemon} = {t}  BY ThreadAssumption
<1> QED  BY <1>1 DEF FrameInv

\* While the daemon runs no thread is at hand.
LEMMA DaemonAtHand ==
    ASSUME FrameInv, frame.active = Daemon PROVE Good(frame, {}, {})
<1>1. {frame.active} \ {Daemon} = {}  OBVIOUS
<1> QED  BY <1>1 DEF FrameInv

\* The last thread at hand has gone to a list and the scheduler chooses the next.
LEMMA Schduled ==
    ASSUME NEW s, Good(s, {}, {}), frame' = ThreadSchdule(s) PROVE FrameInv'
<1>1. PICK r : r = ThreadSchdule(s)  OBVIOUS
<1>2. Good(r, {r.active} \ {Daemon}, {})  BY <1>1, SchduleGood
<1> QED  BY <1>1, <1>2 DEF FrameInv

\* mt_start_thread
LEMMA CreateThreadFrame ==
    ASSUME FrameInv, NEW t \in Threads, CreateThread(t) PROVE FrameInv'
<1>1. Good(frame, {t}, {}) /\ CanAlloc(frame) /\ frame.active = t
  BY UserAtHand DEF CreateThread, InUser
<1>2. PICK a, q : a = Allocated(frame) /\ q = AllocThread(frame)  OBVIOUS
<1>3. Good(q, {t} \cup {a}, {}) /\ q.active = frame.active /\ a \notin {t}
  BY <1>1, <1>2, AllocGood
<1>4. PICK r : r = InsertRunable(q, a)  OBVIOUS
<1>5. Good(r, ({t} \cup {a}) \ {a}, {}) /\ r.active = q.active  BY <1>3, <1>4, RunableGood
<1>6. ({t} \cup {a}) \ {a} = {r.active} \ {Daemon}  BY <1>1, <1>3, <1>5, ThreadAssumption
<1>7. frame' = r  BY <1>2, <1>4 DEF CreateThread
<1> QED  BY <1>5, <1>6, <1>7 DEF FrameInv

\* Sleep
LEMMA SleepFrame ==
    ASSUME FrameInv, NEW t \in Threads, NEW ms \in Timeouts, Sleep(t, ms) PROVE FrameInv'
<1>1. Good(frame, {t}, {})  BY UserAtHand DEF Sleep, InUser
<1>2. PICK q : q = InsertSleep(frame, t, ms)  OBVIOUS
<1>3. ms \in Int  BY TimeAssumption
<1>4. Good(q, {t} \ {t}, {})  BY <1>1, <1>2, <1>3, SleepGood
<1>5. {t} \ {t} = {}  OBVIOUS
<1>6. frame' = ThreadSchdule(q)  BY <1>2 DEF Sleep
<1> QED  BY <1>4, <1>5, <1>6, Schduled

\* WaitNotify and KqueueSchedule
LEMMA IoWaitFrame ==
    ASSUME FrameInv, NEW t \in Threads, NEW ms \in Timeouts, frame.active = t,
           frame' = ThreadSchdule(InsertIoWait(frame, t, ms))
    PROVE  FrameInv'
<1>1. Good(frame, {t}, {})  BY UserAtHand
<1>2. PICK q : q = InsertIoWait(frame, t, ms)  OBVIOUS
<1>3. ms \in Int  BY TimeAssumption
<1>4. Good(q, {t} \ {t}, {})  BY <1>1, <1>2, <1>3, IoWaitGood
<1>5. {t} \ {t} = {}  OBVIOUS
<1> QED  BY <1>2, <1>4, <1>5, Schduled

\* NotifyThread, by a thread, and InputNotify and OutputNotify, by the daemon
LEMMA WakeIoFrame ==
    ASSUME FrameInv, NEW u \in Threads, frame' = WakeIo(frame, u)
    PROVE  FrameInv' /\ frame'.active = frame.active
<1>1. PICK r : r = WakeIo(frame, u)  OBVIOUS
<1>2. Good(r, {frame.active} \ {Daemon}, {}) /\ r.active = frame.active
  BY <1>1, WakeIoGood DEF FrameInv
<1> QED  BY <1>1, <1>2 DEF FrameInv

\* The processor is passed on without the scheduler.
LEMMA ActiveIs ==
    ASSUME NEW s, NEW X, NEW Z, Good(s, X, Z), NEW t \in Threads \cup {Daemon}
    PROVE  Good([s EXCEPT !.active = t], X, Z)
<1> DEFINE r == [s EXCEPT !.active = t]
<1>0. s \in Frames  BY DEF Good, Fit
<1>1. /\ r \in Frames /\ r.active = t /\ r.flag = s.flag /\ r.runlist = s.runlist
      /\ r.heap = s.heap /\ r.parent = s.parent /\ r.freelist = s.freelist /\ r.made = s.made
  BY <1>0 DEF Frames
<1> HIDE DEF r
<1>2. Fit(r, X)  BY <1>1 DEF Good, Fit, Placed, Place, Holds
<1>3. IoSleeps(r) /\ Joined(r, Z)  BY <1>1 DEF Good, IoSleeps, Joined, SubThreads
<1> QED  BY <1>2, <1>3 DEF Good, r

\* SwapDaemonThread
LEMMA SwapDaemonFrame ==
    ASSUME FrameInv, NEW t \in Threads, SwapDaemonThread(t) PROVE FrameInv'
<1>1. Good(frame, {t}, {})  BY UserAtHand DEF SwapDaemonThread, InUser
<1>2. PICK q : q = InsertRunable(frame, t)  OBVIOUS
<1>3. Good(q, {t} \ {t}, {})  BY <1>1, <1>2, RunableGood
<1>4. PICK r : r = [q EXCEPT !.active = Daemon]  OBVIOUS
<1>5. Good(r, {t} \ {t}, {})  BY <1>3, <1>4, ActiveIs
<1>6. r.active = Daemon  BY <1>3, <1>4 DEF Good, Fit, Frames
<1>7. {t} \ {t} = {r.active} \ {Daemon}  BY <1>6
<1>8. frame' = r  BY <1>2, <1>4 DEF SwapDaemonThread
<1> QED  BY <1>5, <1>7, <1>8 DEF FrameInv

\* mt_exec_all_task with one task
LEMMA ExecOneFrame ==
    ASSUME FrameInv, NEW t \in Threads, ExecOne(t) PROVE FrameInv'
<1>1. Good(frame, {t}, {}) /\ CanAlloc(frame)  BY UserAtHand DEF ExecOne, InUser
<1>2. PICK a, q : a = Allocated(frame) /\ q = AllocThread(frame)  OBVIOUS
<1>3. /\ Good(q, {t} \cup {a}, {}) /\ q.parent = frame.parent
      /\ a \in Pool /\ a \notin {t} /\ frame.parent[a] = NULL
  BY <1>1, <1>2, AllocGood
<1>4. PICK r : r = StartSub(q, t, a)  OBVIOUS
<1>5. Good(r, ({t} \cup {a}) \ {a}, {} \cup {t}) /\ SubThreads(r, t) # {}
  BY <1>3, <1>4, StartSubGood
<1>6. ({t} \cup {a}) \ {a} = {t} /\ {} \cup {t} = {t}  BY <1>3
<1>7. PICK p : p = InsertPend(r, t)  OBVIOUS
<1>8. Good(p, {t} \ {t}, {})  BY <1>5, <1>6, <1>7, PendGood
<1>9. {t} \ {t} = {}  OBVIOUS
<1>10. frame' = ThreadSchdule(p)  BY <1>2, <1>4, <1>7 DEF ExecOne
<1> QED  BY <1>8, <1>9, <1>10, Schduled

\* mt_exec_all_task with two tasks: both start, or the first is freed
LEMMA ExecTwoFrame ==
    ASSUME FrameInv, NEW t \in Threads, ExecTwo(t) PROVE FrameInv'
<1>1. Good(frame, {t}, {}) /\ CanAlloc(frame) /\ frame.active = t
  BY UserAtHand DEF ExecTwo, InUser
<1>2. PICK a, q : a = Allocated(frame) /\ q = AllocThread(frame)  OBVIOUS
<1>3. /\ Good(q, {t} \cup {a}, {}) /\ q.parent = frame.parent /\ q.active = frame.active
      /\ a \in Pool /\ a \notin {t} /\ frame.parent[a] = NULL
  BY <1>1, <1>2, AllocGood
<1>4. CASE CanAlloc(q)
  <2>1. PICK b, w : b = Allocated(q) /\ w = AllocThread(q)  OBVIOUS
  <2>2. /\ Good(w, ({t} \cup {a}) \cup {b}, {}) /\ w.parent = q.parent
        /\ b \in Pool /\ b \notin {t} \cup {a} /\ q.parent[b] = NULL
    BY <1>3, <1>4, <2>1, AllocGood
  <2>3. PICK r : r = StartSub(w, t, a)  OBVIOUS
  <2>4. /\ Good(r, (({t} \cup {a}) \cup {b}) \ {a}, {} \cup {t})
        /\ \A u \in Pool : u # a => r.parent[u] = w.parent[u]
    <3>1. PICK X : X = ({t} \cup {a}) \cup {b}  OBVIOUS
    <3>2. a \in X /\ w.parent[a] = NULL /\ Good(w, X, {})  BY <1>3, <2>2, <3>1
    <3>3. Good(r, X \ {a}, {} \cup {t}) /\ \A u \in Pool : u # a => r.parent[u] = w.parent[u]
      BY <1>3, <2>3, <3>2, StartSubGood, SMTT(60)
    <3> QED  BY <3>1, <3>3
  <2>5. (({t} \cup {a}) \cup {b}) \ {a} = {t, b} /\ {} \cup {t} = {t}  BY <1>3, <2>2
  <2>6. PICK x : x = StartSub(r, t, b)  OBVIOUS
  <2>7. r.parent[b] = NULL  BY <2>2, <2>4
  <2>8. Good(x, {t, b} \ {b}, {t} \cup {t}) /\ SubThreads(x, t) # {}
    BY <2>2, <2>4, <2>5, <2>6, <2>7, StartSubGood
  <2>9. {t, b} \ {b} = {t} /\ {t} \cup {t} = {t}  BY <2>2
  <2>10. PICK p : p = InsertPend(x, t)  OBVIOUS
  <2>11. Good(p, {t} \ {t}, {})  BY <2>8, <2>9, <2>10, PendGood
  <2>12. {t} \ {t} = {}  OBVIOUS
  <2>13. frame' = ThreadSchdule(p)  BY <1>2, <1>4, <2>1, <2>3, <2>6, <2>10 DEF ExecTwo
  <2> QED  BY <2>11, <2>12, <2>13, Schduled
<1>5. CASE ~CanAlloc(q)
  <2>1. PICK r : r = FreeThread(q, a)  OBVIOUS
  <2>2. q.parent[a] = NULL  BY <1>3
  <2>3. Good(r, ({t} \cup {a}) \ {a}, {}) /\ r.active = q.active  BY <1>3, <2>1, <2>2, FreeGood
  <2>4. ({t} \cup {a}) \ {a} = {r.active} \ {Daemon}  BY <1>1, <1>3, <2>3, ThreadAssumption
  <2>5. frame' = r  BY <1>2, <1>5, <2>1 DEF ExecTwo
  <2> QED  BY <2>3, <2>4, <2>5 DEF FrameInv
<1> QED  BY <1>4, <1>5

\* MicroThread::Run: a thread ends
LEMMA ExitFrame ==
    ASSUME FrameInv, NEW t \in Threads, Exit(t) PROVE FrameInv'
<1>1. Good(frame, {t}, {}) /\ t \in Pool  BY UserAtHand DEF Exit, InUser, Threads
<1>2. PICK q : q = WakeupParent(frame, t)  OBVIOUS
<1>3. Good(q, {t}, {}) /\ q.parent[t] = NULL  BY <1>1, <1>2, WakeupParentGood
<1>4. PICK r : r = FreeThread(q, t)  OBVIOUS
<1>5. Good(r, {t} \ {t}, {})  BY <1>1, <1>3, <1>4, FreeGood
<1>6. {t} \ {t} = {}  OBVIOUS
<1>7. frame' = ThreadSchdule(r)  BY <1>2, <1>4 DEF Exit
<1> QED  BY <1>5, <1>6, <1>7, Schduled

\* The clock moves: only the times left change.
LEMMA TickFrame ==
    ASSUME FrameInv, NEW d \in 1 .. MaxStep, Tick(d)
    PROVE  FrameInv' /\ frame'.active = frame.active
<1> DEFINE left == [t \in Threads |-> IF "SLEEP" \in frame.flag[t] THEN frame.left[t] - d ELSE 0]
<1>1. PICK s, X : s = frame /\ X = {frame.active} \ {Daemon}  OBVIOUS
<1>2. Good(s, X, {}) /\ s \in Frames  BY <1>1 DEF FrameInv, Good, Fit
<1>3. left \in [Threads -> Int]
  <2>1. \A t \in Threads : frame.left[t] \in Int  BY <1>1, <1>2 DEF Frames
  <2>2. d \in Int  BY TimeAssumption
  <2>3. \A t \in Threads : frame.left[t] - d \in Int  BY <2>1, <2>2
  <2> QED  BY <2>3
<1> HIDE DEF left
<1>4. PICK r : r = [s EXCEPT !.left = left]  OBVIOUS
<1>5. /\ r \in Frames /\ r.active = s.active /\ r.flag = s.flag /\ r.runlist = s.runlist
      /\ r.heap = s.heap /\ r.parent = s.parent /\ r.freelist = s.freelist /\ r.made = s.made
  BY <1>2, <1>3, <1>4 DEF Frames
<1>6. Fit(r, X)  BY <1>2, <1>5 DEF Good, Fit, Placed, Place, Holds
<1>7. IoSleeps(r) /\ Joined(r, {})  BY <1>2, <1>5 DEF Good, IoSleeps, Joined, SubThreads
<1>8. frame' = r  BY <1>1, <1>4 DEF Tick, left
<1>9. X = {r.active} \ {Daemon}  BY <1>1, <1>5
<1> QED  BY <1>1, <1>5, <1>6, <1>7, <1>8, <1>9 DEF FrameInv, Good

\* One round of WakeupTimeout: the top of the heap is a thread that sleeps.
LEMMA WakeupFrame ==
    ASSUME FrameInv, WakeupOne PROVE FrameInv' /\ frame'.active = Daemon
<1>1. Good(frame, {}, {}) /\ frame.active = Daemon  BY DaemonAtHand DEF WakeupOne
<1>2. PICK t : t = HeapTop(frame.heap)  OBVIOUS
<1>3. t \in Threads /\ "SLEEP" \in frame.flag[t]
  <2>1. HeapOK(frame.heap, {}) /\ frame.heap \in Heaps  BY <1>1 DEF Good, Fit, HeapOK
  <2>2. ToSet(frame.heap.list) = {e \in Threads : frame.heap.index[e] # 0}  BY <2>1, HeapMembers
  <2>3. frame.heap.list \in Seq(Threads) /\ frame.heap.list # <<>>
    BY <2>1 DEF Heaps, WakeupOne, TopExpired
  <2>4. 1 \in DOMAIN frame.heap.list /\ t = frame.heap.list[1]  BY <1>2, <2>3 DEF HeapTop
  <2>5. t \in ToSet(frame.heap.list)  BY <2>4 DEF ToSet
  <2> QED  BY <1>1, <2>2, <2>5 DEF Good, Fit
<1>4. PICK q : q = IF "IO" \in frame.flag[t] THEN RemoveIoWait(frame, t) ELSE RemoveSleep(frame, t)
  OBVIOUS
<1>5. Good(q, {} \cup {t}, {}) /\ q.active = frame.active
  BY <1>1, <1>3, <1>4, RemoveIoWaitGood, RemoveSleepGood
<1>6. t \in {} \cup {t}  OBVIOUS
<1>7. PICK r : r = InsertRunable(q, t)  OBVIOUS
<1>8. Good(r, ({} \cup {t}) \ {t}, {}) /\ r.active = q.active
  BY <1>5, <1>6, <1>7, RunableGood
<1>9. ({} \cup {t}) \ {t} = {r.active} \ {Daemon}  BY <1>1, <1>5, <1>8
<1>10. frame' = r  BY <1>2, <1>4, <1>7 DEF WakeupOne
<1> QED  BY <1>1, <1>5, <1>8, <1>9, <1>10 DEF FrameInv

\* CheckExpired: the daemon runs a notified thread at once.
LEMMA DaemonNotifyFrame ==
    ASSUME FrameInv, NEW u \in Threads, DaemonNotify(u) PROVE FrameInv'
<1>1. Good(frame, {}, {}) /\ "IO" \in frame.flag[u]  BY DaemonAtHand DEF DaemonNotify
<1>2. PICK q : q = RemoveIoWait(frame, u)  OBVIOUS
<1>3. Good(q, {} \cup {u}, {})  BY <1>1, <1>2, RemoveIoWaitGood
<1>4. PICK r : r = [q EXCEPT !.active = u]  OBVIOUS
<1>5. Good(r, {} \cup {u}, {})  BY <1>3, <1>4, ActiveIs
<1>6. r.active = u  BY <1>3, <1>4 DEF Good, Fit, Frames
<1>7. {} \cup {u} = {r.active} \ {Daemon}  BY <1>6, ThreadAssumption
<1>8. frame' = r  BY <1>2, <1>4 DEF DaemonNotify
<1> QED  BY <1>5, <1>7, <1>8 DEF FrameInv
-----------------------------------------------------------------------------
(***************************************************************************)
(* The descriptors.                                                        *)
(***************************************************************************)
\* What SlotsMatchWaits says of a descriptor: k and l are its _kqobj and _events,
\* w, n and v stand for waits, knotes and evts.
Match(fd, k, l, w, n, v) ==
    /\ \A t \in Threads : k = t <=> fd \in AskedFds(w[t])
    /\ k \in Threads \cup {NULL}
    /\ l = Asked(n, fd)
    /\ l = UNION {Asked(w[t], fd) : t \in Threads}
    /\ Asked(v, fd) \subseteq l

\* The same, event by event.
Slot(fd, k, l, w, n, v) ==
    /\ \A t \in Threads : k = t <=> \E e \in Events : <<fd, e>> \in w[t]
    /\ k \in Threads \cup {NULL}
    /\ \A e \in Events : e \in l <=> <<fd, e>> \in n
    /\ \A e \in Events : e \in l <=> \E t \in Threads : <<fd, e>> \in w[t]
    /\ \A e \in Events : <<fd, e>> \in v => e \in l

\* The descriptors of a set of events.
LEMMA AskedIs ==
    ASSUME NEW w \in SUBSET Notes, NEW fd
    PROVE  fd \in AskedFds(w) <=> \E e \in Events : <<fd, e>> \in w
<1>1. ASSUME fd \in AskedFds(w) PROVE \E e \in Events : <<fd, e>> \in w
  <2>1. PICK n \in w : n[1] = fd  BY <1>1 DEF AskedFds
  <2>2. n[2] \in Events /\ n = <<fd, n[2]>>  BY <2>1 DEF Notes
  <2> QED  BY <2>1, <2>2
<1>2. ASSUME NEW e \in Events, <<fd, e>> \in w PROVE fd \in AskedFds(w)
  <2>1. <<fd, e>>[1] = fd  OBVIOUS
  <2> QED  BY <1>2, <2>1 DEF AskedFds
<1> QED  BY <1>1, <1>2

\* Match and Slot agree.
LEMMA SlotIs ==
    ASSUME NEW fd, NEW k, NEW l \in SUBSET Events, NEW w \in [Threads -> SUBSET Notes], NEW n, NEW v
    PROVE  Match(fd, k, l, w, n, v) <=> Slot(fd, k, l, w, n, v)
<1>1. \A t \in Threads : fd \in AskedFds(w[t]) <=> \E e \in Events : <<fd, e>> \in w[t]
  <2> TAKE t \in Threads
  <2>1. w[t] \in SUBSET Notes  OBVIOUS
  <2> QED  BY <2>1, AskedIs
<1>2. l = Asked(n, fd) <=> \A e \in Events : e \in l <=> <<fd, e>> \in n
  BY DEF Asked
<1>3. l = UNION {Asked(w[t], fd) : t \in Threads}
        <=> \A e \in Events : e \in l <=> \E t \in Threads : <<fd, e>> \in w[t]
  <2> DEFINE U == UNION {Asked(w[t], fd) : t \in Threads}
  <2>1. U \subseteq Events /\ \A e \in Events : e \in U <=> \E t \in Threads : <<fd, e>> \in w[t]
    BY DEF Asked
  <2> HIDE DEF U
  <2>2. l = U <=> \A e \in Events : e \in l <=> e \in U  BY <2>1
  <2> QED  BY <2>1, <2>2 DEF U
<1>4. Asked(v, fd) \subseteq l <=> \A e \in Events : <<fd, e>> \in v => e \in l
  BY DEF Asked
<1> QED  BY <1>1, <1>2, <1>3, <1>4 DEF Match, Slot

\* The invariant before a step, event by event.
LEMMA SlotsBefore ==
    ASSUME KqType, SlotsMatchWaits
    PROVE  \A fd \in Fds \ spoiled : Slot(fd, kqobj[fd], listen[fd], waits, knotes, evts)
<1>1. \A fd \in Fds \ spoiled : listen[fd] \in SUBSET Events  BY DEF KqType
<1>2. waits \in [Threads -> SUBSET Notes]  BY DEF KqType
<1>3. \A fd \in Fds \ spoiled :
          Match(fd, kqobj[fd], listen[fd], waits, knotes, evts)
              <=> Slot(fd, kqobj[fd], listen[fd], waits, knotes, evts)
  BY <1>1, <1>2, SlotIs
<1>4. \A fd \in Fds \ spoiled : Match(fd, kqobj[fd], listen[fd], waits, knotes, evts)
  BY DEF SlotsMatchWaits, Match
<1> QED  BY <1>3, <1>4

\* And after it.
LEMMA SlotsAfter ==
    ASSUME KqType', \A fd \in Fds \ spoiled' : Slot(fd, kqobj'[fd], listen'[fd], waits', knotes', evts')
    PROVE  SlotsMatchWaits'
<1>1. \A fd \in Fds \ spoiled' : listen'[fd] \in SUBSET Events  BY DEF KqType
<1>2. waits' \in [Threads -> SUBSET Notes]  BY DEF KqType
<1>3. \A fd \in Fds \ spoiled' :
          Match(fd, kqobj'[fd], listen'[fd], waits', knotes', evts')
              <=> Slot(fd, kqobj'[fd], listen'[fd], waits', knotes', evts')
  BY <1>1, <1>2, SlotIs
<1>4. \A fd \in Fds \ spoiled' : Match(fd, kqobj'[fd], listen'[fd], waits', knotes', evts')
  BY <1>3
<1> QED  BY <1>4 DEF SlotsMatchWaits, Match

\* KqueueSchedule takes the free slots of its descriptors.
LEMMA ScheduleSlots ==
    ASSUME KqType, KqType', SlotsMatchWaits, evts = {}, NEW t \in Threads,
           NEW w \in SUBSET Notes, NEW ms, KqueueSchedule(t, w, ms)
    PROVE  SlotsMatchWaits'
<1>1. \A fd \in Fds \ spoiled : Slot(fd, kqobj[fd], listen[fd], waits, knotes, evts)
  BY SlotsBefore
<1> SUFFICES ASSUME NEW fd \in Fds \ spoiled
             PROVE  Slot(fd, kqobj'[fd], listen'[fd], waits', knotes', evts')
  <2>1. spoiled' = spoiled  BY DEF KqueueSchedule
  <2> QED  BY <2>1, SlotsAfter
<1>2. Slot(fd, kqobj[fd], listen[fd], waits, knotes, evts)  BY <1>1
<1>3. /\ evts' = {} /\ waits' = [waits EXCEPT ![t] = w] /\ waits[t] = {}
      /\ listen'[fd] = listen[fd] \cup Asked(w, fd)
      /\ kqobj'[fd] = IF fd \in AskedFds(w) THEN t ELSE kqobj[fd]
      /\ knotes' = knotes \cup {n \in w : kqobj[n[1]] = NULL}
  BY DEF KqueueSchedule, loop, InUser
<1>4. waits'[t] = w /\ \A u \in Threads : u # t => waits'[u] = waits[u]
  BY <1>3 DEF KqType
<1>5. fd \in AskedFds(w) <=> \E e \in Events : <<fd, e>> \in w  BY AskedIs
<1>6. \A e \in Events : e \in Asked(w, fd) <=> <<fd, e>> \in w  BY DEF Asked
<1>7. \A e \in Events : <<fd, e>> \in knotes' <=>
          <<fd, e>> \in knotes \/ (<<fd, e>> \in w /\ kqobj[fd] = NULL)
  <2>1. \A e : <<fd, e>>[1] = fd  OBVIOUS
  <2> QED  BY <1>3, <2>1
<1>8. CASE fd \in AskedFds(w)
  <2>1. kqobj[fd] = NULL /\ listen[fd] = {}
    <3>1. MayAttach(t, fd, w)  BY <1>8 DEF KqueueSchedule
    <3>2. kqobj[fd] # Stale(t)  BY <1>2, ThreadAssumption DEF Slot
    <3> QED  BY <3>1, <3>2 DEF MayAttach
  <2>2. \A u \in Threads, e \in Events : <<fd, e>> \notin waits[u]
    BY <1>2, <2>1, ThreadAssumption DEF Slot
  <2>3. \A e \in Events : <<fd, e>> \notin knotes  BY <1>2, <2>1 DEF Slot
  <2>4. kqobj'[fd] = t /\ \A e \in Events : e \in listen'[fd] <=> <<fd, e>> \in w
    BY <1>3, <1>6, <1>8, <2>1
  <2>5. \A e \in Events : <<fd, e>> \in knotes' <=> <<fd, e>> \in w  BY <1>7, <2>1, <2>3
  <2>6. \A u \in Threads, e \in Events : <<fd, e>> \in waits'[u] <=> u = t /\ <<fd, e>> \in w
    BY <1>4, <2>2
  <2>7. \E e \in Events : <<fd, e>> \in w  BY <1>5, <1>8
  <2>8. \A u \in Threads : kqobj'[fd] = u <=> \E e \in Events : <<fd, e>> \in waits'[u]
    BY <2>4, <2>6, <2>7
  <2>9. \A e \in Events : e \in listen'[fd] <=> \E u \in Threads : <<fd, e>> \in waits'[u]
    BY <2>4, <2>6
  <2> QED  BY <1>3, <2>4, <2>5, <2>8, <2>9 DEF Slot
<1>9. CASE fd \notin AskedFds(w)
  <2>1. \A e \in Events : <<fd, e>> \notin w  BY <1>5, <1>9
  <2>2. kqobj'[fd] = kqobj[fd] /\ \A e \in Events : e \in listen'[fd] <=> e \in listen[fd]
    BY <1>3, <1>6, <1>9, <2>1
  <2>3. \A e \in Events : <<fd, e>> \in knotes' <=> <<fd, e>> \in knotes  BY <1>7, <2>1
  <2>4. \A u \in Threads, e \in Events : <<fd, e>> \in waits'[u] <=> <<fd, e>> \in waits[u]
    BY <1>3, <1>4, <2>1
  <2>5. \A u \in Threads : kqobj'[fd] = u <=> \E e \in Events : <<fd, e>> \in waits'[u]
    BY <1>2, <2>2, <2>4 DEF Slot
  <2>6. \A e \in Events : e \in listen'[fd] <=> \E u \in Threads : <<fd, e>> \in waits'[u]
    BY <1>2, <2>2, <2>4 DEF Slot
  <2>7. \A e \in Events : e \in listen'[fd] <=> <<fd, e>> \in knotes'  BY <1>2, <2>2, <2>3 DEF Slot
  <2>8. kqobj'[fd] \in Threads \cup {NULL}  BY <1>2, <2>2 DEF Slot
  <2> QED  BY <1>3, <2>5, <2>6, <2>7, <2>8 DEF Slot
<1> QED  BY <1>8, <1>9

\* KqueueReturn gives them back: EV_DELETE works where nothing was closed.
LEMMA ReturnSlots ==
    ASSUME KqType, KqType', SlotsMatchWaits, evts = {}, NEW t \in Threads, KqueueReturn(t)
    PROVE  SlotsMatchWaits'
<1>1. \A fd \in Fds \ spoiled : Slot(fd, kqobj[fd], listen[fd], waits, knotes, evts)
  BY SlotsBefore
<1> SUFFICES ASSUME NEW fd \in Fds \ spoiled
             PROVE  Slot(fd, kqobj'[fd], listen'[fd], waits', knotes', evts')
  <2>1. spoiled' = spoiled  BY DEF KqueueReturn
  <2> QED  BY <2>1, SlotsAfter
<1> DEFINE w == waits[t]
           mine == AskedFds(w)
           good == {f \in mine : Registered(f)}
<1>2. Slot(fd, kqobj[fd], listen[fd], waits, knotes, evts)  BY <1>1
<1>3. /\ evts' = {} /\ waits' = [waits EXCEPT ![t] = {}] /\ w \in SUBSET Notes
      /\ listen'[fd] = IF fd \in good THEN listen[fd] \ Asked(w, fd) ELSE listen[fd]
      /\ kqobj'[fd] = IF fd \in good THEN NULL ELSE IF fd \in mine THEN Stale(t) ELSE kqobj[fd]
      /\ knotes' = {n \in knotes : ~ (n[1] \in good /\ n \in w)}
  BY DEF KqueueReturn, loop, KqType
<1>4. waits'[t] = {} /\ \A u \in Threads : u # t => waits'[u] = waits[u]
  BY <1>3 DEF KqType
<1>5. fd \in mine <=> \E e \in Events : <<fd, e>> \in w  BY <1>3, AskedIs
<1>6. \A e \in Events : e \in Asked(w, fd) <=> <<fd, e>> \in w  BY DEF Asked
<1>7. fd \in good <=> fd \in mine /\ Registered(fd)  OBVIOUS
<1> HIDE DEF mine, good
<1>8. \A e \in Events : <<fd, e>> \in knotes' <=>
          <<fd, e>> \in knotes /\ ~(fd \in good /\ <<fd, e>> \in w)
  <2>1. \A e : <<fd, e>>[1] = fd  OBVIOUS
  <2> QED  BY <1>3, <2>1
<1>9. CASE fd \in mine
  <2>1. kqobj[fd] = t  BY <1>2, <1>5, <1>9 DEF Slot
  <2>2. Registered(fd)
    <3>1. listen[fd] \subseteq Events  BY DEF KqType
    <3> QED  BY <1>2, <3>1 DEF Slot, Registered
  <2>3. fd \in good  BY <1>7, <1>9, <2>2
  <2>4. \A u \in Threads, e \in Events : u # t => <<fd, e>> \notin waits[u]
    BY <1>2, <2>1 DEF Slot
  <2>5. \A u \in Threads, e \in Events : <<fd, e>> \notin waits'[u]  BY <1>4, <2>4
  <2>6. \A e \in Events : e \in listen[fd] => <<fd, e>> \in w  BY <1>2, <2>4 DEF Slot
  <2>7. \A e \in Events : e \notin listen'[fd]  BY <1>3, <1>6, <2>3, <2>6
  <2>8. \A e \in Events : <<fd, e>> \notin knotes'  BY <1>2, <1>8, <2>3, <2>6 DEF Slot
  <2>9. kqobj'[fd] = NULL  BY <1>3, <2>3
  <2> QED  BY <1>3, <2>5, <2>7, <2>8, <2>9, ThreadAssumption DEF Slot
<1>10. CASE fd \notin mine
  <2>1. \A e \in Events : <<fd, e>> \notin w  BY <1>5, <1>10
  <2>2. kqobj'[fd] = kqobj[fd] /\ listen'[fd] = listen[fd]  BY <1>3, <1>7, <1>10
  <2>3. \A e \in Events : <<fd, e>> \in knotes' <=> <<fd, e>> \in knotes  BY <1>7, <1>8, <1>10
  <2>4. \A u \in Threads, e \in Events : <<fd, e>> \in waits'[u] <=> <<fd, e>> \in waits[u]
    BY <1>4, <2>1
  <2>5. \A u \in Threads : kqobj'[fd] = u <=> \E e \in Events : <<fd, e>> \in waits'[u]
    BY <1>2, <2>2, <2>4 DEF Slot
  <2>6. \A e \in Events : e \in listen'[fd] <=> \E u \in Threads : <<fd, e>> \in waits'[u]
    BY <1>2, <2>2, <2>4 DEF Slot
  <2>7. \A e \in Events : e \in listen'[fd] <=> <<fd, e>> \in knotes'  BY <1>2, <2>2, <2>3 DEF Slot
  <2>8. kqobj'[fd] \in Threads \cup {NULL}  BY <1>2, <2>2 DEF Slot
  <2> QED  BY <1>3, <2>5, <2>6, <2>7, <2>8 DEF Slot
<1> QED  BY <1>9, <1>10

\* A close either meets no waiting thread or spoils the descriptor.
LEMMA CloseSlots ==
    ASSUME KqType, KqType', SlotsMatchWaits, evts = {}, NEW t \in Threads, NEW f \in Fds, Close(t, f)
    PROVE  SlotsMatchWaits'
<1>1. \A fd \in Fds \ spoiled : Slot(fd, kqobj[fd], listen[fd], waits, knotes, evts)
  BY SlotsBefore
<1>2. /\ kqobj' = kqobj /\ listen' = listen /\ waits' = waits /\ evts' = evts
      /\ knotes' = {n \in knotes : n[1] # f}
      /\ spoiled' = IF kqobj[f] = NULL THEN spoiled ELSE spoiled \cup {f}
  BY DEF Close, loop
<1>3. ASSUME NEW fd \in Fds \ spoiled' PROVE Slot(fd, kqobj[fd], listen[fd], waits, knotes', evts)
  <2>1. fd \in Fds \ spoiled /\ Slot(fd, kqobj[fd], listen[fd], waits, knotes, evts)
    BY <1>1, <1>2
  <2>2. \A e \in Events : <<fd, e>> \in knotes' <=> <<fd, e>> \in knotes /\ fd # f
    <3>1. \A e : <<fd, e>>[1] = fd  OBVIOUS
    <3> QED  BY <1>2, <3>1
  <2>3. CASE fd # f  BY <2>1, <2>2, <2>3 DEF Slot
  <2>4. CASE fd = f
    <3>1. kqobj[fd] = NULL  BY <1>2, <2>4
    <3>2. \A e \in Events : e \notin listen[fd]  BY <2>1, <3>1, ThreadAssumption DEF Slot
    <3> QED  BY <2>1, <2>2, <2>4, <3>2 DEF Slot
  <2> QED  BY <2>3, <2>4
<1> QED  BY <1>2, <1>3, SlotsAfter

\* A registration that fails half way spoils the descriptor.
LEMMA AddFailsSlots ==
    ASSUME KqType, KqType', SlotsMatchWaits, evts = {}, NEW t \in Threads, NEW f \in Fds,
           KqueueAddFails(t, f)
    PROVE  SlotsMatchWaits'
<1>1. \A fd \in Fds \ spoiled : Slot(fd, kqobj[fd], listen[fd], waits, knotes, evts)
  BY SlotsBefore
<1>2. /\ kqobj' = kqobj /\ listen' = listen /\ waits' = waits /\ evts' = evts
      /\ knotes' = knotes \cup {<<f, "W">>} /\ spoiled' = spoiled \cup {f}
  BY DEF KqueueAddFails, loop
<1>3. ASSUME NEW fd \in Fds \ spoiled' PROVE Slot(fd, kqobj[fd], listen[fd], waits, knotes', evts)
  <2>1. fd # f /\ Slot(fd, kqobj[fd], listen[fd], waits, knotes, evts)  BY <1>1, <1>2
  <2>2. \A e \in Events : <<fd, e>> \in knotes' <=> <<fd, e>> \in knotes  BY <1>2, <2>1
  <2> QED  BY <2>1, <2>2 DEF Slot
<1> QED  BY <1>2, <1>3, SlotsAfter

\* The daemon deals out events that are registered.
LEMMA EventSlots ==
    ASSUME KqType, KqType', SlotsMatchWaits, UNCHANGED kq, evts' \subseteq evts \cup knotes
    PROVE  SlotsMatchWaits'
<1>1. \A fd \in Fds \ spoiled : Slot(fd, kqobj[fd], listen[fd], waits, knotes, evts)
  BY SlotsBefore
<1>2. kqobj' = kqobj /\ listen' = listen /\ waits' = waits /\ knotes' = knotes /\ spoiled' = spoiled
  BY DEF kq
<1>3. ASSUME NEW fd \in Fds \ spoiled PROVE Slot(fd, kqobj[fd], listen[fd], waits, knotes, evts')
  BY <1>1 DEF Slot
<1> QED  BY <1>2, <1>3, SlotsAfter
-----------------------------------------------------------------------------
(***************************************************************************)
(* The invariant holds in every state.                                     *)
(***************************************************************************)
\* The pool has as many threads as MtFrame starts with.
LEMMA FirstThreads == \E S \in SUBSET Pool : IsFiniteSet(S) /\ Cardinality(S) = DefaultNum - 1
<1> DEFINE n == Cardinality(Pool)
           k == DefaultNum - 1
<1>1. n \in Nat /\ k \in Nat /\ k <= n
  <2>1. n \in Nat  BY ThreadAssumption, FS_CardinalityType
  <2> QED  BY <2>1, PoolNumbers DEF MaxNum
<1>2. PICK b : b \in Bijection(1 .. n, Pool)
  BY ThreadAssumption, FS_CardinalityType DEF ExistsBijection
<1> HIDE DEF n, k
<1>3. 1 .. k \subseteq 1 .. n  BY <1>1
<1>4. b \in [1 .. n -> Pool] /\ \A i, j \in 1 .. n : b[i] = b[j] => i = j
  BY <1>2 DEF Bijection, Injection, IsInjective
<1> DEFINE c == [i \in 1 .. k |-> b[i]]
           S == {b[i] : i \in 1 .. k}
<1>5. S \in SUBSET Pool  BY <1>3, <1>4
<1>6. c \in [1 .. k -> S] /\ (\A i, j \in 1 .. k : c[i] = c[j] => i = j)
      /\ \A x \in S : \E i \in 1 .. k : c[i] = x
  BY <1>3, <1>4
<1> HIDE DEF c, S
<1>7. c \in Bijection(1 .. k, S)  BY <1>6 DEF Bijection, Injection, Surjection, IsInjective
<1>8. ExistsBijection(1 .. k, S)  BY <1>7 DEF ExistsBijection
<1>9. Cardinality(S) = k /\ IsFiniteSet(S)  BY <1>1, <1>8, FS_CountingElements, FS_NatBijection
<1> QED  BY <1>5, <1>9 DEF k

\* MtFrame::InitFrame
LEMMA InitFrame == ASSUME Init PROVE FrameInv
<1> DEFINE S == CHOOSE S \in SUBSET Pool : Cardinality(S) = DefaultNum - 1
<1>1. S \in SUBSET Pool /\ Cardinality(S) = DefaultNum - 1  BY FirstThreads
<1>2. PICK first \in SetToSeqs(S) :
          frame = [active |-> Primo, runlist |-> <<>>, heap |-> EmptyHeap,
                   flag |-> [t \in Threads |-> IF t \in ToSet(first) THEN {"FREE"} ELSE {}],
                   left |-> [t \in Threads |-> 0],
                   parent |-> [t \in Threads |-> NULL],
                   freelist |-> first, made |-> ToSet(first), default |-> DefaultNum]
  BY DEF Init
<1> HIDE DEF S
<1> DEFINE k == DefaultNum - 1
<1>3. k \in Nat  BY PoolNumbers
<1>4. first \in [1 .. k -> S] /\ \A i, j \in 1 .. k : i # j => first[i] # first[j]
  BY <1>1 DEF SetToSeqs
<1> HIDE DEF k
<1>5. first \in Seq(Pool) /\ DOMAIN first = 1 .. k /\ first \in [1 .. k -> Pool]
  BY <1>1, <1>3, <1>4
<1>6. IsInjective(first) /\ ToSet(first) \subseteq Pool
  BY <1>4, <1>5 DEF IsInjective, ToSet
<1> DEFINE flag == [t \in Threads |-> IF t \in ToSet(first) THEN {"FREE"} ELSE {}]
<1>7. Primo \in Threads /\ Pool \subseteq Threads /\ Primo \notin ToSet(first) /\ Primo # Daemon
  BY <1>6, ThreadAssumption DEF Threads
<1>8. HeapOK(EmptyHeap, {}) /\ \A t \in Threads : EmptyHeap.index[t] = 0
  BY DEF HeapOK, EmptyHeap, Heaps
<1>9. flag \in [Threads -> SUBSET Flags]  BY DEF Flags
<1>10. \A t \in Threads : flag[t] = IF t \in ToSet(first) THEN {"FREE"} ELSE {}  OBVIOUS
<1> HIDE DEF flag
<1>11. PICK s : s = frame  OBVIOUS
<1>12. /\ s.active = Primo /\ s.runlist = <<>> /\ s.heap = EmptyHeap /\ s.flag = flag
       /\ s.parent = [t \in Threads |-> NULL] /\ s.freelist = first /\ s.made = ToSet(first)
  BY <1>2, <1>11 DEF flag
<1>13. s \in Frames
  <2>1. DefaultNum \in DefaultNum .. MaxNum  BY PoolNumbers
  <2>2. EmptyHeap \in Heaps  BY <1>8 DEF HeapOK
  <2>3. [t \in Threads |-> 0] \in [Threads -> Int]
        /\ [t \in Threads |-> NULL] \in [Threads -> Threads \cup {NULL}]
    OBVIOUS
  <2>4. <<>> \in Seq(Threads)  OBVIOUS
  <2>5. s = [active |-> Primo, runlist |-> <<>>, heap |-> EmptyHeap, flag |-> flag,
             left |-> [t \in Threads |-> 0], parent |-> [t \in Threads |-> NULL],
             freelist |-> first, made |-> ToSet(first), default |-> DefaultNum]
    BY <1>2, <1>11 DEF flag
  <2> QED  BY <1>5, <1>6, <1>7, <1>9, <2>1, <2>2, <2>3, <2>4, <2>5 DEF Frames
<1>14. Placed(s, {Primo})
  <2>1. \A t \in Threads : Place(s, t) = IF t \in ToSet(first) THEN {"FREE"} ELSE {}
    BY <1>10, <1>12 DEF Place, Lists
  <2>2. "FREE" \in Lists  BY DEF Lists
  <2>3. ToSet(first) \subseteq Threads  BY <1>6, <1>7
  <2> QED  BY <1>7, <1>12, <2>1, <2>2, <2>3 DEF Placed
<1>15. Holds(s, s.runlist, "RUN")
  <2>1. ToSet(s.runlist) = {} /\ IsInjective(s.runlist)  BY <1>12 DEF ToSet, IsInjective
  <2> QED  BY <1>10, <1>12, <2>1 DEF Holds
<1>16. Holds(s, s.freelist, "FREE")  BY <1>6, <1>10, <1>12 DEF Holds
<1>17. Fit(s, {Primo})  BY <1>8, <1>10, <1>12, <1>13, <1>14, <1>15, <1>16 DEF Fit
<1>18. IoSleeps(s)  BY <1>10, <1>12 DEF IoSleeps
<1>19. Joined(s, {})
  <2>1. \A u \in Threads : s.parent[u] = NULL  BY <1>12
  <2>2. \A u \in Threads : SubThreads(s, u) = {}  BY <1>7, <2>1, ThreadAssumption DEF SubThreads
  <2> QED  BY <1>7, <1>10, <1>12, <2>1, <2>2 DEF Joined
<1>20. {s.active} \ {Daemon} = {Primo}  BY <1>7, <1>12
<1> QED  BY <1>11, <1>17, <1>18, <1>19, <1>20 DEF FrameInv, Good

\* The initial state satisfies the invariant.
LEMMA InitInv == ASSUME Init PROVE Inv
<1>1. FrameInv  BY InitFrame
<1>2. KqType  BY DEF Init, KqType
<1>3. DaemonInv  BY DEF Init, DaemonInv
<1>4. SlotsMatchWaits
  <2>1. \A fd : Asked({}, fd) = {}  BY DEF Asked
  <2>2. AskedFds({}) = {}  BY DEF AskedFds
  <2>3. /\ \A fd \in Fds : kqobj[fd] = NULL /\ listen[fd] = {}
        /\ \A t \in Threads : waits[t] = {}
        /\ knotes = {} /\ evts = {}
    BY DEF Init
  <2>4. \A fd : UNION {Asked(waits[t], fd) : t \in Threads} = {}  BY <2>1, <2>3
  <2> QED  BY <2>1, <2>2, <2>3, <2>4, ThreadAssumption DEF SlotsMatchWaits
<1> QED  BY <1>1, <1>2, <1>3, <1>4 DEF Inv

\* A call of the thread that runs, which lets the daemon wait.
LEMMA ThreadStepInv ==
    ASSUME Inv, NEW t \in Threads, ThreadStep(t) PROVE Inv'
<1>1. FrameInv /\ KqType /\ SlotsMatchWaits  BY DEF Inv
<1>2. frame.active = t /\ dpc' = dpc /\ evts' = evts
  BY DEF ThreadStep, Leave, Sleep, WaitNotify, KqueueSchedule, SwapDaemonThread, ExecOne, ExecTwo,
         Exit, KqueueReturn, CreateThread, NotifyThread, KqueueAddFails, Close, InUser, loop
<1>3. dpc \in {"dispatch", "expired"} /\ evts = {}
  BY <1>2, ThreadAssumption DEF Inv, DaemonInv
<1>4. DaemonInv'  BY <1>2, <1>3 DEF DaemonInv
<1>5. ASSUME FrameInv', UNCHANGED kq PROVE Inv'
  <2>1. KqType'  BY <1>1, <1>2, <1>5 DEF KqType, kq
  <2>2. SlotsMatchWaits'  BY <1>1, <1>2, <1>5, <2>1, EventSlots
  <2> QED  BY <1>4, <1>5, <2>1, <2>2 DEF Inv
<1>6. ASSUME NEW ms \in Timeouts, Sleep(t, ms) PROVE Inv'
  BY <1>1, <1>5, <1>6, SleepFrame DEF Sleep
<1>7. ASSUME NEW ms \in Timeouts, WaitNotify(t, ms) PROVE Inv'
  BY <1>1, <1>2, <1>5, <1>7, IoWaitFrame DEF WaitNotify
<1>8. ASSUME NEW ms \in Timeouts, NEW w \in SUBSET Notes \ {{}}, KqueueSchedule(t, w, ms) PROVE Inv'
  <2>1. FrameInv'  BY <1>1, <1>2, <1>8, IoWaitFrame DEF KqueueSchedule
  <2>2. KqType'
    <3>1. \A fd \in Fds : Asked(w, fd) \subseteq Events  BY DEF Asked
    <3>2. kqobj' \in [Fds -> Threads \cup {NULL} \cup {Stale(u) : u \in Threads}]
      BY <1>1, <1>8 DEF KqType, KqueueSchedule
    <3>3. listen' \in [Fds -> SUBSET Events]  BY <1>1, <1>8, <3>1 DEF KqType, KqueueSchedule
    <3>4. waits' \in [Threads -> SUBSET Notes] /\ knotes' \subseteq Notes
      BY <1>1, <1>8 DEF KqType, KqueueSchedule
    <3> QED  BY <1>1, <1>2, <3>2, <3>3, <3>4 DEF KqType
  <2>3. SlotsMatchWaits'  BY <1>1, <1>3, <1>8, <2>2, ScheduleSlots
  <2> QED  BY <1>4, <2>1, <2>2, <2>3 DEF Inv
<1>9. CASE SwapDaemonThread(t)
  BY <1>1, <1>5, <1>9, SwapDaemonFrame DEF SwapDaemonThread
<1>10. CASE ExecOne(t)  BY <1>1, <1>5, <1>10, ExecOneFrame DEF ExecOne
<1>11. CASE ExecTwo(t)  BY <1>1, <1>5, <1>11, ExecTwoFrame DEF ExecTwo
<1>12. CASE Exit(t)  BY <1>1, <1>5, <1>12, ExitFrame DEF Exit
<1>13. CASE KqueueReturn(t)
  <2>1. FrameInv'  BY <1>1, <1>13 DEF KqueueReturn, FrameInv
  <2>2. KqType'
    <3>1. kqobj' \in [Fds -> Threads \cup {NULL} \cup {Stale(u) : u \in Threads}]
      BY <1>1, <1>13 DEF KqType, KqueueReturn
    <3>2. listen' \in [Fds -> SUBSET Events]  BY <1>1, <1>13 DEF KqType, KqueueReturn
    <3>3. waits' \in [Threads -> SUBSET Notes] /\ knotes' \subseteq Notes
      BY <1>1, <1>13 DEF KqType, KqueueReturn
    <3> QED  BY <1>1, <1>2, <3>1, <3>2, <3>3 DEF KqType
  <2>3. SlotsMatchWaits'  BY <1>1, <1>3, <1>13, <2>2, ReturnSlots
  <2> QED  BY <1>4, <2>1, <2>2, <2>3 DEF Inv
<1>14. CASE CreateThread(t)  BY <1>1, <1>5, <1>14, CreateThreadFrame DEF CreateThread
<1>15. ASSUME NEW u \in Threads, NotifyThread(t, u) PROVE Inv'
  BY <1>1, <1>5, <1>15, WakeIoFrame DEF NotifyThread
<1>16. ASSUME NEW fd \in Fds, Close(t, fd) PROVE Inv'
  <2>1. FrameInv'  BY <1>1, <1>16 DEF Close, FrameInv
  <2>2. KqType'  BY <1>1, <1>2, <1>16 DEF KqType, Close
  <2>3. SlotsMatchWaits'  BY <1>1, <1>3, <1>16, <2>2, CloseSlots
  <2> QED  BY <1>4, <2>1, <2>2, <2>3 DEF Inv
<1>17. ASSUME NEW fd \in Fds, KqueueAddFails(t, fd) PROVE Inv'
  <2>1. FrameInv'  BY <1>1, <1>17 DEF KqueueAddFails, FrameInv
  <2>2. KqType'
    <3>1. <<fd, "W">> \in Notes  BY DEF Notes, Events
    <3> QED  BY <1>1, <1>2, <1>17, <3>1 DEF KqType, KqueueAddFails
  <2>3. SlotsMatchWaits'  BY <1>1, <1>3, <1>17, <2>2, AddFailsSlots
  <2> QED  BY <1>4, <2>1, <2>2, <2>3 DEF Inv
<1> QED
  BY <1>6, <1>7, <1>8, <1>9, <1>10, <1>11, <1>12, <1>13, <1>14, <1>15, <1>16, <1>17
  DEF ThreadStep, Leave

\* A step of the daemon's loop.
LEMMA DaemonStepInv ==
    ASSUME Inv, DaemonStep \/ \E u \in Threads : DaemonNotify(u) PROVE Inv'
<1>1. FrameInv /\ KqType /\ SlotsMatchWaits /\ DaemonInv  BY DEF Inv
<1>2. frame.active = Daemon /\ UNCHANGED kq
  BY DEF DaemonStep, Dispatch, RcvEvent, DispatchDone, WakeupOne, WakeupDone, DaemonSwitch, DaemonNotify
<1>3. ASSUME FrameInv', DaemonInv', evts' \subseteq evts \cup knotes,
             dpc' \in {"dispatch", "events", "timeout", "expired"}
      PROVE  Inv'
  <2>1. KqType'  BY <1>1, <1>2, <1>3 DEF KqType, kq
  <2>2. SlotsMatchWaits'  BY <1>1, <1>2, <1>3, <2>1, EventSlots
  <2> QED  BY <1>3, <2>1, <2>2 DEF Inv
<1>4. ASSUME NEW ready \in SUBSET knotes, Dispatch(ready) PROVE Inv'
  <2>1. FrameInv'  BY <1>1, <1>4 DEF Dispatch, FrameInv
  <2>2. DaemonInv'  BY <1>2, <1>4 DEF Dispatch, DaemonInv
  <2> QED  BY <1>3, <1>4, <2>1, <2>2 DEF Dispatch
<1>5. ASSUME NEW n \in evts, RcvEvent(n) PROVE Inv'
  <2>1. FrameInv' /\ frame'.active = Daemon
    <3>1. CASE kqobj[n[1]] \in Threads
      <4>1. frame' = WakeIo(frame, kqobj[n[1]])  BY <1>5, <3>1 DEF RcvEvent
      <4>2. PICK u \in Threads : u = kqobj[n[1]]  BY <3>1
      <4>3. frame' = WakeIo(frame, u)  BY <4>1, <4>2
      <4> QED  BY <1>1, <1>2, <4>3, WakeIoFrame
    <3>2. CASE kqobj[n[1]] \notin Threads
      <4>1. frame' = frame  BY <1>5, <3>2 DEF RcvEvent
      <4> QED  BY <1>1, <1>2, <4>1 DEF FrameInv
    <3> QED  BY <3>1, <3>2
  <2>2. dpc' = "events" /\ evts' \subseteq evts  BY <1>5 DEF RcvEvent
  <2>3. DaemonInv'  BY <2>1, <2>2 DEF DaemonInv
  <2> QED  BY <1>3, <2>1, <2>2, <2>3
<1>6. CASE DispatchDone
  <2>1. FrameInv' /\ frame'.active = Daemon  BY <1>1, <1>2, <1>6 DEF DispatchDone, FrameInv
  <2>2. dpc' = "timeout" /\ evts' = evts /\ evts = {}  BY <1>6 DEF DispatchDone
  <2>3. DaemonInv'  BY <2>1, <2>2 DEF DaemonInv
  <2> QED  BY <1>3, <2>1, <2>2, <2>3
<1>7. CASE WakeupOne
  <2>1. FrameInv' /\ frame'.active = Daemon  BY <1>1, <1>7, WakeupFrame
  <2>2. dpc' = "timeout" /\ evts' = evts /\ dpc = "timeout"  BY <1>7 DEF WakeupOne, loop
  <2>3. DaemonInv'  BY <1>1, <2>1, <2>2 DEF DaemonInv
  <2> QED  BY <1>3, <2>1, <2>2, <2>3
<1>8. CASE WakeupDone
  <2>1. FrameInv'  BY <1>1, <1>8 DEF WakeupDone, FrameInv
  <2>2. dpc' = "expired" /\ evts' = evts /\ dpc = "timeout"  BY <1>8 DEF WakeupDone
  <2>3. DaemonInv'  BY <1>1, <2>2 DEF DaemonInv
  <2> QED  BY <1>3, <2>1, <2>2, <2>3
<1>9. CASE DaemonSwitch
  <2>1. Good(frame, {}, {})  BY <1>1, <1>2, DaemonAtHand
  <2>2. PICK s : s = frame  OBVIOUS
  <2>3. FrameInv'
    <3>1. frame' = ThreadSchdule(s)  BY <1>9, <2>2 DEF DaemonSwitch
    <3> QED  BY <2>1, <2>2, <3>1, Schduled
  <2>4. dpc' = "dispatch" /\ evts' = evts /\ dpc = "expired"  BY <1>9 DEF DaemonSwitch
  <2>5. DaemonInv'  BY <1>1, <2>4 DEF DaemonInv
  <2> QED  BY <1>3, <2>3, <2>4, <2>5
<1>10. ASSUME NEW u \in Threads, DaemonNotify(u) PROVE Inv'
  <2>1. FrameInv'  BY <1>1, <1>10, DaemonNotifyFrame
  <2>2. dpc' = "expired" /\ evts' = evts /\ dpc = "expired"  BY <1>10 DEF DaemonNotify, loop
  <2>3. DaemonInv'  BY <1>1, <2>2 DEF DaemonInv
  <2> QED  BY <1>3, <2>1, <2>2, <2>3
<1> QED  BY <1>4, <1>5, <1>6, <1>7, <1>8, <1>9, <1>10 DEF DaemonStep

\* A tick of the clock, whoever runs.
LEMMA TickInv == ASSUME Inv, NEW d \in 1 .. MaxStep, Tick(d) PROVE Inv'
<1>1. FrameInv /\ KqType /\ SlotsMatchWaits /\ DaemonInv  BY DEF Inv
<1>2. UNCHANGED <<kq, loop>>  BY DEF Tick
<1>3. FrameInv' /\ frame'.active = frame.active  BY <1>1, TickFrame
<1>4. KqType'  BY <1>1, <1>2 DEF KqType, kq, loop
<1>5. DaemonInv'  BY <1>1, <1>2, <1>3 DEF DaemonInv, loop
<1>6. SlotsMatchWaits'
  <2>1. UNCHANGED kq /\ evts' \subseteq evts \cup knotes  BY <1>2 DEF loop
  <2> QED  BY <1>1, <1>4, <2>1, EventSlots
<1> QED  BY <1>3, <1>4, <1>5, <1>6 DEF Inv

\* A step that changes nothing.
LEMMA StutterInv == ASSUME Inv, UNCHANGED vars PROVE Inv'
BY DEF Inv, vars, kq, loop, FrameInv, KqType, DaemonInv, SlotsMatchWaits, Asked, AskedFds

\* The scheduler's invariant: every thread is where its flags say, a parent
\* waits for sub threads that live, and a slot belongs to the thread that waits.
THEOREM ThreadInvariance == Spec => []Inv
<1>1. Init => Inv  BY InitInv
<1>2. Inv /\ [Next]_vars => Inv'
  BY ThreadStepInv, DaemonStepInv, TickInv, StutterInv DEF Next
<1> QED  BY <1>1, <1>2, PTL DEF Spec

\* Types of MtFrame, its threads, the descriptor slots and the daemon's loop.
THEOREM ThreadTypes == Spec => []TypeOK
<1>1. Inv => TypeOK
  <2> SUFFICES ASSUME Inv PROVE TypeOK  OBVIOUS
  <2>1. frame \in Frames /\ KqType  BY DEF Inv, FrameInv, Good, Fit
  <2>2. /\ frame.active \in Threads \cup {Daemon}
        /\ frame.runlist \in Seq(Threads) /\ frame.heap \in Heaps
        /\ frame.flag \in [Threads -> SUBSET Flags] /\ frame.left \in [Threads -> Int]
        /\ frame.parent \in [Threads -> Threads \cup {NULL}]
        /\ frame.freelist \in Seq(Pool) /\ frame.made \subseteq Pool
        /\ frame.default \in DefaultNum .. MaxNum
    BY <2>1 DEF Frames
  <2> QED  BY <2>1, <2>2 DEF TypeOK, KqType
<1> QED  BY <1>1, ThreadInvariance, PTL

\* No thread is lost and none is in two lists, whatever threads and daemon do.
THEOREM OneListEach == Spec => []OneList
<1>1. Inv => OneList
  <2> SUFFICES ASSUME Inv PROVE OneList  OBVIOUS
  <2> DEFINE X == {frame.active} \ {Daemon}
  <2>1. Fit(frame, X) /\ IoSleeps(frame)  BY DEF Inv, FrameInv, Good
  <2>2. frame \in Frames /\ Placed(frame, X) /\ HeapOK(frame.heap, {})  BY <2>1 DEF Fit
  <2>3. ASSUME NEW t \in Threads
        PROVE  Cardinality(In(t))
                   = IF frame.active # t /\ t \in frame.made \cup {Primo} THEN 1 ELSE 0
    <3>1. In(t) = Place(frame, t)  BY DEF In, Place
    <3>2. t # Daemon  BY ThreadAssumption
    <3>3. t \in X <=> frame.active = t  BY <3>2
    <3> HIDE DEF X
    <3>4. CASE frame.active # t /\ t \in frame.made \cup {Primo}
      <4>1. PICK f \in Lists : In(t) = {f}  BY <2>2, <3>1, <3>3, <3>4 DEF Placed
      <4> QED  BY <3>4, <4>1, FS_Singleton
    <3>5. CASE ~(frame.active # t /\ t \in frame.made \cup {Primo})
      <4>1. In(t) = {}  BY <2>2, <3>1, <3>3, <3>5 DEF Placed
      <4> QED  BY <3>5, <4>1, FS_EmptySet
    <3> QED  BY <3>4, <3>5
  <2>4. \A t \in Threads : "IO" \in frame.flag[t] => "SLEEP" \in frame.flag[t]
    BY <2>1 DEF IoSleeps
  <2>5. /\ IsInjective(frame.runlist)
        /\ ToSet(frame.runlist) = {t \in Threads : "RUN" \in frame.flag[t]}
    <3>1. Holds(frame, frame.runlist, "RUN") /\ frame.runlist \in Seq(Threads)
      BY <2>1, <2>2 DEF Fit, Frames
    <3>2. ToSet(frame.runlist) \subseteq Threads  BY <3>1 DEF ToSet
    <3> QED  BY <3>1, <3>2 DEF Holds
  <2>6. /\ IsInjective(frame.freelist)
        /\ ToSet(frame.freelist) = {t \in Threads : "FREE" \in frame.flag[t]}
    <3>1. Holds(frame, frame.freelist, "FREE") /\ frame.freelist \in Seq(Pool)
      BY <2>1, <2>2 DEF Fit, Frames
    <3>2. ToSet(frame.freelist) \subseteq Threads  BY <3>1 DEF ToSet, Threads
    <3> QED  BY <3>1, <3>2 DEF Holds
  <2>7. /\ IsInjective(frame.heap.list)
        /\ ToSet(frame.heap.list) = {t \in Threads : "SLEEP" \in frame.flag[t]}
    <3>1. /\ IsInjective(frame.heap.list)
          /\ ToSet(frame.heap.list) = {e \in Threads : frame.heap.index[e] # 0}
      BY <2>2, HeapMembers
    <3>2. \A t \in Threads : frame.heap.index[t] # 0 <=> "SLEEP" \in frame.flag[t]
      BY <2>1 DEF Fit
    <3> QED  BY <3>1, <3>2
  <2> QED  BY <2>3, <2>4, <2>5, <2>6, <2>7 DEF OneList
<1> QED  BY <1>1, ThreadInvariance, PTL

\* mt_exec_all_task returns after the last of its sub threads and not before.
THEOREM JoinSafe == Spec => []JoinWaitsForAll
<1>1. Inv => JoinWaitsForAll  BY DEF Inv, FrameInv, Good, Joined, JoinWaitsForAll
<1> QED  BY <1>1, ThreadInvariance, PTL

\* A descriptor's slot tells who waits for it, unless it was closed meanwhile or a
\* registration failed half way.
THEOREM SlotsSafe == Spec => []SlotsMatchWaits
<1>1. Inv => SlotsMatchWaits  BY DEF Inv
<1> QED  BY <1>1, ThreadInvariance, PTL
=============================================================================
