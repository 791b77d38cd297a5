---------------------------- MODULE MicroThread ----------------------------
(***************************************************************************)
(* The cooperative micro threads of adapter/micro_thread: the thread that  *)
(* runs calls the scheduler to start, wait for, notify and join others; a  *)
(* daemon thread runs when nobody else can, polls the kqueue, wakes the    *)
(* threads whose events or times have come and switches to them.           *)
(*                                                                         *)
(* frame holds the lists of MtFrame and the flags of the threads, which    *)
(* the code changes together; the TAILQs _iolist, _pend_list and _sub_list *)
(* are the flags IO, PEND and SUB with parent.  Times are relative to the  *)
(* system clock: _realtime is 1 and nothing changes it, so GetLastClock    *)
(* never returns _last_clock.  A thread's KqueuerObjs live on its stack    *)
(* while it waits: KqFdRef's _kqobj is the waiting thread, or Stale(t)     *)
(* when it still points to what was an object of t.  The received events,  *)
(* the reference counts of KqFdRef (only UDP sessions use them) and calls  *)
(* that fail without a trace are left out; the failures of KqueueSchedule  *)
(* that leave a trace are in KqueueAddFails.                               *)
(*                                                                         *)
(* An operator BugX is a slip somebody could make in X; no action uses it: *)
(* it stands in for X when a property is tried for its strength.           *)
(***************************************************************************)
EXTENDS Integers, Sequences, FiniteSets, SequencesExt

CONSTANTS
    Daemon, Primo,   \* the daemon and the primordial thread
    Pool,            \* the threads that can be made besides the daemon
    DefaultNum,      \* DEFAULT_THREAD_NUM
    Fds,             \* file descriptors
    Timeouts,        \* the timeouts of waits and sleeps, in ms
    MaxStep,         \* bound: ms the clock moves at once
    MaxLate,         \* bound: ms a thread sleeps past its time
    NULL

Threads == Pool \cup {Primo}
MaxNum == Cardinality(Pool) + 1       \* _max_num counts the daemon
Events == {"R", "W"}
Notes == Fds \X Events

INSTANCE HeapList WITH Entries <- Threads, HeapMax <- 2 * MaxNum

\* a pointer to what was an object of t
Stale(t) == <<"stale", t>>

ASSUME ThreadAssumption ==
    /\ Primo \notin Pool /\ Daemon \notin Threads /\ NULL \notin Threads \cup {Daemon}
    /\ \A t \in Threads : Stale(t) \notin Threads \cup {NULL}
    /\ IsFiniteSet(Pool) /\ DefaultNum \in 1 .. MaxNum
ASSUME TimeAssumption == Timeouts \subseteq Nat /\ MaxStep \in Nat \ {0} /\ MaxLate \in Nat

VARIABLES
    frame,      \* active, runlist, heap, flag, left, parent, freelist, made, default
    kqobj,      \* KqFdRef: _kqobj of a descriptor
    listen,     \* KqFdRef: _events of a descriptor
    waits,      \* the fd set of a thread inside KqueueSchedule, as events of descriptors
    knotes,     \* the events registered in the kernel's kqueue
    dpc, evts,  \* the daemon in MtFrame::Loop, the events it has still to deal out
    spoiled     \* history: descriptors closed while a thread was waiting for them,
                \* or whose registration failed half way

kq   == <<kqobj, listen, waits, knotes, spoiled>>
loop == <<dpc, evts>>
vars == <<frame, kq, loop>>

-----------------------------------------------------------------------------
(***************************************************************************)
(* The lists of MtFrame, as operators on frame.                            *)
(***************************************************************************)
SetFlag(s, t, f)   == [s EXCEPT !.flag[t] = @ \cup {f}]
UnsetFlag(s, t, f) == [s EXCEPT !.flag[t] = @ \ {f}]

InsertRunable(s, t) == [SetFlag(s, t, "RUN") EXCEPT !.runlist = Append(@, t)]

InsertSleep(s, t, ms) ==
    LET r == [SetFlag(s, t, "SLEEP") EXCEPT !.left[t] = ms]
    IN  [r EXCEPT !.heap = HeapPush(@, t, r.left)]

\* left is 0 outside the heap: nobody reads it there
RemoveSleep(s, t) ==
    [UnsetFlag(s, t, "SLEEP") EXCEPT !.heap = HeapDelete(@, t, s.left), !.left[t] = 0]

InsertIoWait(s, t, ms) == InsertSleep(SetFlag(s, t, "IO"), t, ms)
RemoveIoWait(s, t) == RemoveSleep(UnsetFlag(s, t, "IO"), t)

InsertPend(s, t) == SetFlag(s, t, "PEND")
RemovePend(s, t) == UnsetFlag(s, t, "PEND")

ThreadSchdule(s) ==
    IF s.runlist = <<>> THEN [s EXCEPT !.active = Daemon]
    ELSE LET t == Head(s.runlist)
         IN  [UnsetFlag(s, t, "RUN") EXCEPT !.active = t, !.runlist = Tail(@)]

\* what InputNotify, OutputNotify and NotifyThread do for a thread that waits
WakeIo(s, t) == IF "IO" \in s.flag[t] THEN InsertRunable(RemoveIoWait(s, t), t) ELSE s

SubThreads(s, t) == {u \in Pool : s.parent[u] = t}

-----------------------------------------------------------------------------
(***************************************************************************)
(* ThreadPool.                                                             *)
(***************************************************************************)
UseNum(s) == Cardinality(s.made \ ToSet(s.freelist)) + 1
CanAlloc(s) == s.freelist # <<>> \/ s.made # Pool
Allocated(s) == IF s.freelist # <<>> THEN Head(s.freelist) ELSE CHOOSE t \in Pool \ s.made : TRUE

BugAllocThread(s) ==
    LET t == Allocated(s)
    IN  IF s.freelist # <<>>
        THEN [UnsetFlag(s, t, "FREE") EXCEPT !.freelist = Tail(@)]
        ELSE [s EXCEPT !.made = @ \cup {t},
                       !.default = IF UseNum(s) + 1 > @ THEN 2 * @ ELSE @]

\* the frame after AllocThread has returned Allocated(s)
AllocThread(s) ==
    LET t == Allocated(s)
    IN  IF s.freelist # <<>>
        THEN [UnsetFlag(s, t, "FREE") EXCEPT !.freelist = Tail(@)]
        ELSE [s EXCEPT !.made = @ \cup {t},
                       !.default = IF UseNum(s) + 1 > @ /\ 2 * @ < MaxNum THEN 2 * @ ELSE @]

\* t is reset and goes to the free list
Freed(s, t) ==
    [s EXCEPT !.flag[t] = {"FREE"}, !.parent[t] = NULL, !.left[t] = 0, !.freelist = Append(@, t)]

\* the first thread of a free list that is too long is deleted
Trim(s) ==
    LET n == Len(s.freelist)
        x == Head(s.freelist)
        d == s.default \div 2
    IN  IF n > s.default /\ n > 1
        THEN [UnsetFlag(s, x, "FREE") EXCEPT
                 !.freelist = Tail(@), !.made = @ \ {x}, !.default = IF d >= DefaultNum THEN d ELSE @]
        ELSE s

FreeThread(s, t) == Trim(Freed(s, t))

-----------------------------------------------------------------------------
\* the pool holds DefaultNum threads, of which the daemon is one
Init ==
    /\ \E first \in SetToSeqs(CHOOSE S \in SUBSET Pool : Cardinality(S) = DefaultNum - 1) :
           frame = [active |-> Primo, runlist |-> <<>>, heap |-> EmptyHeap,
                    flag |-> [t \in Threads |-> IF t \in ToSet(first) THEN {"FREE"} ELSE {}],
                    left |-> [t \in Threads |-> 0],
                    parent |-> [t \in Threads |-> NULL],
                    freelist |-> first, made |-> ToSet(first), default |-> DefaultNum]
    /\ kqobj = [fd \in Fds |-> NULL]
    /\ listen = [fd \in Fds |-> {}]
    /\ waits = [t \in Threads |-> {}]
    /\ knotes = {}
    /\ dpc = "dispatch"
    /\ evts = {}
    /\ spoiled = {}

(***************************************************************************)
(* The thread that runs.                                                   *)
(***************************************************************************)
InUser(t) == frame.active = t /\ waits[t] = {}

\* mt_start_thread
CreateThread(t) ==
    /\ InUser(t)
    /\ CanAlloc(frame)
    /\ frame' = InsertRunable(AllocThread(frame), Allocated(frame))
    /\ UNCHANGED <<kq, loop>>

Sleep(t, ms) ==
    /\ InUser(t)
    /\ frame' = ThreadSchdule(InsertSleep(frame, t, ms))
    /\ UNCHANGED <<kq, loop>>

WaitNotify(t, ms) ==
    /\ InUser(t)
    /\ frame' = ThreadSchdule(InsertIoWait(frame, t, ms))
    /\ UNCHANGED <<kq, loop>>

BugNotify(t, u) ==
    /\ InUser(t)
    /\ "SLEEP" \in frame.flag[u]
    /\ frame' = InsertRunable(frame, u)
    /\ UNCHANGED <<kq, loop>>

\* NotifyThread, of a thread in WaitNotify or in KqueueSchedule
NotifyThread(t, u) ==
    /\ InUser(t)
    /\ "IO" \in frame.flag[u]
    /\ frame' = WakeIo(frame, u)
    /\ UNCHANGED <<kq, loop>>

BugSwap(t) ==
    /\ InUser(t)
    /\ frame' = [SetFlag(frame, t, "RUN") EXCEPT !.runlist = <<t>> \o @, !.active = Daemon]
    /\ UNCHANGED <<kq, loop>>

SwapDaemonThread(t) ==
    /\ InUser(t)
    /\ frame' = [InsertRunable(frame, t) EXCEPT !.active = Daemon]
    /\ UNCHANGED <<kq, loop>>

\* AddSubThread and InsertRunable of a new thread
StartSub(s, t, sub) == InsertRunable([SetFlag(s, sub, "SUB") EXCEPT !.parent[sub] = t], sub)

\* mt_exec_all_task with one task and with two
ExecOne(t) ==
    /\ InUser(t)
    /\ CanAlloc(frame)
    /\ LET s == StartSub(AllocThread(frame), t, Allocated(frame))
       IN  frame' = ThreadSchdule(InsertPend(s, t))
    /\ UNCHANGED <<kq, loop>>

ExecTwo(t) ==
    /\ InUser(t)
    /\ CanAlloc(frame)
    /\ LET s == AllocThread(frame)
           a == Allocated(frame)
       IN  frame' = IF CanAlloc(s)
                    THEN ThreadSchdule(InsertPend(
                             StartSub(StartSub(AllocThread(s), t, a), t, Allocated(s)), t))
                    ELSE FreeThread(s, a)
    /\ UNCHANGED <<kq, loop>>

BugWakeupParent(s, t) ==
    LET p == s.parent[t]
        r == [UnsetFlag(s, t, "SUB") EXCEPT !.parent[t] = NULL]
    IN  IF p = NULL \/ "PEND" \notin s.flag[p] THEN s
        ELSE InsertRunable(RemovePend(r, p), p)

\* a sub thread that ends, the last one wakes its parent
WakeupParent(s, t) ==
    LET p == s.parent[t]
        r == [UnsetFlag(s, t, "SUB") EXCEPT !.parent[t] = NULL]
    IN  IF p = NULL THEN s
        ELSE IF SubThreads(r, p) = {} THEN InsertRunable(RemovePend(r, p), p) ELSE r

\* MicroThread::Run after the thread's function has returned
Exit(t) ==
    /\ InUser(t)
    /\ t # Primo
    /\ frame' = ThreadSchdule(FreeThread(WakeupParent(frame, t), t))
    /\ UNCHANGED <<kq, loop>>

(***************************************************************************)
(* Waiting for descriptors.                                                *)
(***************************************************************************)
Asked(w, fd) == {e \in Events : <<fd, e>> \in w}
AskedFds(w) == {n[1] : n \in w}

\* KqueueCtlAdd: the slot is free, or its pointer happens to be the address of
\* the new object, which a stale pointer to the same stack may be.  With events
\* the slot has, nothing is registered; else what it had is deleted first.
MayAttach(t, fd, w) ==
    \/ kqobj[fd] = NULL /\ listen[fd] = {}
    \/ kqobj[fd] = Stale(t) /\ Asked(w, fd) \subseteq listen[fd]

KqueueSchedule(t, w, ms) ==
    /\ InUser(t)
    /\ \A fd \in AskedFds(w) : MayAttach(t, fd, w)
    /\ kqobj' = [fd \in Fds |-> IF fd \in AskedFds(w) THEN t ELSE kqobj[fd]]
    /\ listen' = [fd \in Fds |-> listen[fd] \cup Asked(w, fd)]
    /\ knotes' = knotes \cup {n \in w : kqobj[n[1]] = NULL}
    /\ waits' = [waits EXCEPT ![t] = w]
    /\ frame' = ThreadSchdule(InsertIoWait(frame, t, ms))
    /\ UNCHANGED <<spoiled, loop>>

\* KqueueCtrlAdd of both events: the second EV_ADD fails.  KqueueSchedule returns an
\* error and forgets the descriptor, but the first event stays registered.
KqueueAddFails(t, fd) ==
    /\ InUser(t)
    /\ kqobj[fd] = NULL /\ listen[fd] = {}
    /\ knotes' = knotes \cup {<<fd, "W">>}
    /\ spoiled' = spoiled \cup {fd}
    /\ UNCHANGED <<frame, kqobj, listen, waits, loop>>

\* EV_DELETE works on every event the slot has
Registered(fd) == \A e \in listen[fd] : <<fd, e>> \in knotes

BugReturn(t) ==
    /\ frame.active = t
    /\ waits[t] # {}
    /\ kqobj' = [fd \in Fds |-> IF kqobj[fd] = t THEN NULL ELSE kqobj[fd]]
    /\ knotes' = knotes \ waits[t]
    /\ waits' = [waits EXCEPT ![t] = {}]
    /\ UNCHANGED <<listen, frame, spoiled, loop>>

\* KqueueSchedule goes on: KqueueDel of the fd set.  A slot whose EV_DELETE
\* fails keeps its pointer to the object, which is gone when the call returns.
KqueueReturn(t) ==
    LET mine == AskedFds(waits[t])
        good == {fd \in mine : Registered(fd)}
    IN  /\ frame.active = t
        /\ waits[t] # {}
        /\ kqobj' = [fd \in Fds |-> IF fd \in good THEN NULL
                                    ELSE IF fd \in mine THEN Stale(t) ELSE kqobj[fd]]
        /\ listen' = [fd \in Fds |-> IF fd \in good THEN listen[fd] \ Asked(waits[t], fd)
                                     ELSE listen[fd]]
        /\ knotes' = {n \in knotes : ~ (n[1] \in good /\ n \in waits[t])}
        /\ waits' = [waits EXCEPT ![t] = {}]
        /\ UNCHANGED <<frame, spoiled, loop>>

\* close of a descriptor, by any thread; its number is in use again at once
Close(t, fd) ==
    /\ InUser(t)
    /\ knotes' = {n \in knotes : n[1] # fd}
    /\ spoiled' = IF kqobj[fd] = NULL THEN spoiled ELSE spoiled \cup {fd}
    /\ UNCHANGED <<frame, kqobj, listen, waits, loop>>

(***************************************************************************)
(* The daemon: MtFrame::Loop.                                              *)
(***************************************************************************)
\* KqueueDispatch: ff_kevent returns some of the registered events
Dispatch(ready) ==
    /\ frame.active = Daemon
    /\ dpc = "dispatch"
    /\ evts' = ready
    /\ dpc' = "events"
    /\ UNCHANGED <<frame, kq>>

\* one round of KqueueRcvEventList, with InputNotify or OutputNotify.  Of a slot without
\* an object KqueueCtrlDel would delete the events listened for, and it has none.
RcvEvent(n) ==
    /\ frame.active = Daemon
    /\ dpc = "events"
    /\ n \in evts
    /\ evts' = evts \ {n}
    /\ frame' = IF kqobj[n[1]] \in Threads THEN WakeIo(frame, kqobj[n[1]]) ELSE frame
    /\ UNCHANGED <<kq, dpc>>

\* the end of KqueueDispatch, SetLastClock (nobody reads it), the start of WakeupTimeout
DispatchDone ==
    /\ frame.active = Daemon
    /\ dpc = "events"
    /\ evts = {}
    /\ dpc' = "timeout"
    /\ UNCHANGED <<frame, kq, evts>>

BugTopExpired == frame.heap.list # <<>> /\ frame.left[HeapTop(frame.heap)] = 0
TopExpired == frame.heap.list # <<>> /\ frame.left[HeapTop(frame.heap)] <= 0

\* one round of WakeupTimeout
WakeupOne ==
    /\ frame.active = Daemon
    /\ dpc = "timeout"
    /\ TopExpired
    /\ LET t == HeapTop(frame.heap)
           s == IF "IO" \in frame.flag[t] THEN RemoveIoWait(frame, t) ELSE RemoveSleep(frame, t)
       IN  frame' = InsertRunable(s, t)
    /\ UNCHANGED <<kq, loop>>

WakeupDone ==
    /\ frame.active = Daemon
    /\ dpc = "timeout"
    /\ ~ TopExpired
    /\ dpc' = "expired"
    /\ UNCHANGED <<frame, kq, evts>>

\* CheckExpired: a timer's callback notifies a thread, which the daemon runs at once
DaemonNotify(u) ==
    /\ frame.active = Daemon
    /\ dpc = "expired"
    /\ "IO" \in frame.flag[u]
    /\ frame' = [RemoveIoWait(frame, u) EXCEPT !.active = u]
    /\ UNCHANGED <<kq, loop>>

\* the end of Loop: SwitchContext
DaemonSwitch ==
    /\ frame.active = Daemon
    /\ dpc = "expired"
    /\ frame' = ThreadSchdule(frame)
    /\ dpc' = "dispatch"
    /\ UNCHANGED <<kq, evts>>

(***************************************************************************)
(* The clock: GetSystemMS moves at any time, whoever runs.  WakeupTimeout  *)
(* reads it once, before its loop, and nobody reads it during the loop.    *)
(***************************************************************************)
Tick(d) ==
    /\ dpc # "timeout"
    /\ \A t \in Threads : "SLEEP" \in frame.flag[t] => frame.left[t] - d >= -MaxLate
    /\ frame' = [frame EXCEPT !.left = [t \in Threads |->
                    IF "SLEEP" \in frame.flag[t] THEN frame.left[t] - d ELSE 0]]
    /\ UNCHANGED <<kq, loop>>

-----------------------------------------------------------------------------
\* the calls by which a thread gives up the processor
Leave(t) ==
    \/ \E ms \in Timeouts :
           \/ Sleep(t, ms)
           \/ WaitNotify(t, ms)
           \/ \E w \in SUBSET Notes \ {{}} : KqueueSchedule(t, w, ms)
    \/ SwapDaemonThread(t)
    \/ ExecOne(t)
    \/ ExecTwo(t)
    \/ Exit(t)

ThreadStep(t) ==
    \/ Leave(t)
    \/ KqueueReturn(t)
    \/ CreateThread(t)
    \/ \E u \in Threads : NotifyThread(t, u)
    \/ \E fd \in Fds : KqueueAddFails(t, fd) \/ Close(t, fd)

DaemonStep ==
    \/ \E ready \in SUBSET knotes : Dispatch(ready)
    \/ \E n \in evts : RcvEvent(n)
    \/ DispatchDone
    \/ WakeupOne
    \/ WakeupDone
    \/ DaemonSwitch

Next ==
    \/ \E t \in Threads : ThreadStep(t)
    \/ DaemonStep
    \/ \E u \in Threads : DaemonNotify(u)
    \/ \E d \in 1 .. MaxStep : Tick(d)

Spec == Init /\ [][Next]_vars

(* A thread that runs gives up the processor in the end, the daemon goes   *)
(* on, a round of timers ends, and the clock moves (strong fairness only   *)
(* because its bound MaxLate stops it now and then).                       *)
Fairness ==
    /\ WF_vars(\E t \in Threads : Leave(t))
    /\ WF_vars(\E t \in Threads : KqueueReturn(t))
    /\ WF_vars(DaemonStep)
    /\ SF_vars(DaemonSwitch)
    /\ SF_vars(\E d \in 1 .. MaxStep : Tick(d))

FairSpec == Spec /\ Fairness

-----------------------------------------------------------------------------
Flags == {"FREE", "IO", "SLEEP", "RUN", "PEND", "SUB"}

TypeOK ==
    /\ frame.active \in Threads \cup {Daemon}
    /\ frame.runlist \in Seq(Threads)
    /\ frame.heap \in Heaps
    /\ frame.flag \in [Threads -> SUBSET Flags]
    /\ frame.left \in [Threads -> Int]
    /\ frame.parent \in [Threads -> Threads \cup {NULL}]
    /\ frame.freelist \in Seq(Pool)
    /\ frame.made \subseteq Pool
    /\ frame.default \in DefaultNum .. MaxNum
    /\ kqobj \in [Fds -> Threads \cup {NULL} \cup {Stale(t) : t \in Threads}]
    /\ listen \in [Fds -> SUBSET Events]
    /\ waits \in [Threads -> SUBSET Notes]
    /\ knotes \subseteq Notes
    /\ dpc \in {"dispatch", "events", "timeout", "expired"}
    /\ evts \subseteq Notes

\* the lists a thread can be in; IO goes with SLEEP and SUB with any
Lists == {"FREE", "SLEEP", "RUN", "PEND"}
In(t) == frame.flag[t] \cap Lists

\* No thread is lost and none is in two places: the thread that runs is in no
\* list, every other thread that exists is in exactly one, its flags agree with
\* the queue, the heap and the free list, and a deleted thread is in none (the
\* ASSERTs of the Insert and Remove functions, which the build leaves out).
OneList ==
    /\ \A t \in Threads :
           Cardinality(In(t)) = IF frame.active # t /\ t \in frame.made \cup {Primo} THEN 1 ELSE 0
    /\ \A t \in Threads : "IO" \in frame.flag[t] => "SLEEP" \in frame.flag[t]
    /\ IsInjective(frame.runlist)
    /\ ToSet(frame.runlist) = {t \in Threads : "RUN" \in frame.flag[t]}
    /\ IsInjective(frame.heap.list)
    /\ ToSet(frame.heap.list) = {t \in Threads : "SLEEP" \in frame.flag[t]}
    /\ IsInjective(frame.freelist)
    /\ ToSet(frame.freelist) = {t \in Threads : "FREE" \in frame.flag[t]}

\* A thread in mt_exec_all_task is pending exactly as long as one of its sub
\* threads lives: none is freed or reused while the parent counts on it, and
\* the parent is not woken before the last.
JoinWaitsForAll ==
    /\ \A t \in Threads : "PEND" \in frame.flag[t] <=> SubThreads(frame, t) # {}
    /\ \A u \in Pool : "SUB" \in frame.flag[u] <=> frame.parent[u] # NULL
    /\ \A u \in Pool : frame.parent[u] # NULL => u \in frame.made /\ "FREE" \notin frame.flag[u]

\* The slot of a descriptor that nobody closed under a waiting thread, and whose
\* registrations did not fail half way, tells who waits for it and what is
\* registered, so it is free when nobody waits and an event finds a live object.
SlotsMatchWaits ==
    \A fd \in Fds \ spoiled :
        /\ \A t \in Threads : kqobj[fd] = t <=> fd \in AskedFds(waits[t])
        /\ kqobj[fd] \in Threads \cup {NULL}
        /\ listen[fd] = Asked(knotes, fd)
        /\ listen[fd] = UNION {Asked(waits[t], fd) : t \in Threads}
        /\ Asked(evts, fd) \subseteq listen[fd]

\* A runnable thread runs: the run list is fair however threads swap, notify and
\* start others, and although the daemon runs a notified thread out of turn.
RunnableRuns == \A t \in Threads : "RUN" \in frame.flag[t] ~> frame.active = t

\* As long as the daemon gets its turns, a thread that sleeps or waits does not
\* do so for ever, whatever happens to its descriptors and however far the clock
\* has moved past its time when the daemon looks.
TimeoutWakes ==
    []<>(frame.active = Daemon) =>
        \A t \in Threads : "SLEEP" \in frame.flag[t] ~> "SLEEP" \notin frame.flag[t]
=============================================================================
