----------------------------- MODULE CallWheel -----------------------------
(***************************************************************************)
(* The callout wheel of one stack thread (ff_kern_timeout.c): the TCP and  *)
(* other timers of the FreeBSD stack hang in buckets by their tick, and    *)
(* callout_tick, called from the thread's DPDK timer, runs the ones whose  *)
(* tick has passed.  The handlers run inside the walk over a bucket and    *)
(* arm, re-arm and stop callouts, the ones next in the same bucket         *)
(* included.  ticks belongs to the main thread and moves at any moment of  *)
(* a worker's walk.                                                        *)
(*                                                                         *)
(* The wheel, its lock and every callout on it are used by one thread only *)
(* (cc_cpu is __thread).  CALLOUT_PROCESSED, CALLOUT_DFRMIGRATION and      *)
(* CALLOUT_LOCAL_ALLOC are never set in this build, the locks of callouts  *)
(* are no-ops, and cc_exec_cancel and cc_exec_waiting are looked at only   *)
(* for a running callout that has a lock or is drained by its own handler. *)
(*                                                                         *)
(* An operator BugX is a slip somebody could make in X; no action uses it: *)
(* it stands in for X when a property is tried for its strength.           *)
(***************************************************************************)
EXTENDS Integers, Sequences, SequencesExt

CONSTANTS
    Callouts,    \* the struct callouts the thread uses
    Direct,      \* those armed with C_DIRECT_EXEC
    ToTicks,     \* the to_ticks arguments of callout_reset
    TickMod,     \* ticks and cc_softticks wrap at TickMod (2^32 in the code)
    WheelSize,   \* callwheelsize, a power of two that divides TickMod
    MaxLag,      \* bound: ticks are at most this far ahead of cc_softticks
    NULL

Delays == {IF n <= 0 THEN 1 ELSE n : n \in ToTicks}
MaxDelay == CHOOSE n \in Delays : \A m \in Delays : m <= n
Reach == MaxLag + MaxDelay

ASSUME CalloutAssumption == NULL \notin Callouts /\ Direct \subseteq Callouts
ASSUME TickAssumption ==
    /\ ToTicks \subseteq Int
    /\ \E n \in Delays : \A m \in Delays : m <= n     \* to_ticks is an int
    /\ MaxLag \in Nat /\ TickMod \in Nat /\ Reach + 1 < TickMod
    /\ 2 * MaxLag <= TickMod                          \* a lag does not look negative
ASSUME SizeAssumption == WheelSize \in Nat \ {0} /\ TickMod % WheelSize = 0

VARIABLES
    ticks,        \* the global tick counter
    softticks,    \* cc_softticks: the first tick whose bucket was not walked yet
    wheel,        \* cc_callwheel: a list of callouts per bucket
    time,         \* c_time; nobody reads it unless the callout is pending: 0 then
    pending,      \* the callouts with CALLOUT_PENDING
    active,       \* the callouts with CALLOUT_ACTIVE
    next,         \* cc_next: where the walk goes on after a handler
    bucket,       \* cc_bucket: the bucket of the callout run last
    curr,         \* cc_exec_curr for direct = 0 and 1
    pc,           \* where the thread is: the stack's own code is "idle"
    curticks, c   \* softclock's locals, 0 and NULL outside softclock's walk

clock  == <<softticks, pc, curticks, c>>
flags  == <<time, pending, active>>
vars   == <<ticks, wheel, next, bucket, curr, clock, flags>>

Buckets == 0 .. WheelSize - 1
callout_get_bucket(t) == t % WheelSize

\* LIST_FIRST, LIST_NEXT and LIST_REMOVE on a bucket
First(list) == IF list = <<>> THEN NULL ELSE Head(list)
NextIn(list, x) ==
    IF \E i \in 1 .. Len(list) - 1 : list[i] = x
    THEN list[1 + CHOOSE i \in 1 .. Len(list) - 1 : list[i] = x]
    ELSE NULL
Remaining(list, x) ==
    IF \E i \in 1 .. Len(list) : list[i] = x
    THEN RemoveAt(list, CHOOSE i \in 1 .. Len(list) : list[i] = x)
    ELSE list
Unlink(w, x) == [b \in Buckets |-> Remaining(w[b], x)]

\* the distance of two tick counters, which wrap
Ahead(t, from) == (t - from) % TickMod
Lag == Ahead(ticks, softticks)

-----------------------------------------------------------------------------
\* A worker builds its wheel with softticks 0 when ticks may have moved on.
Init ==
    /\ ticks \in 0 .. MaxLag
    /\ softticks = 0
    /\ wheel = [b \in Buckets |-> <<>>]
    /\ time = [x \in Callouts |-> 0]
    /\ pending = {}
    /\ active = {}
    /\ next = NULL
    /\ bucket = 0
    /\ curr = [d \in {0, 1} |-> NULL]
    /\ pc = "idle"
    /\ curticks = 0
    /\ c = NULL

\* ff_hardclock on the main thread
Tick ==
    /\ Lag < MaxLag
    /\ ticks' = (ticks + 1) % TickMod
    /\ UNCHANGED <<wheel, next, bucket, curr, clock, flags>>

(***************************************************************************)
(* The clock of the thread.                                                *)
(***************************************************************************)
ff_hardclock_worker ==
    /\ pc = "idle"
    /\ pc' = "tick"
    /\ UNCHANGED <<ticks, wheel, next, bucket, curr, flags, softticks, curticks, c>>

BugScan ==
    /\ pc = "tick"
    /\ \/ Lag = 0 /\ pc' = "idle" /\ UNCHANGED softticks
       \/ Lag > 0 /\ pc' = "tick" /\ softticks' = (softticks + 1) % TickMod
    /\ UNCHANGED <<ticks, wheel, next, bucket, curr, flags, curticks, c>>

BugBound ==
    /\ pc = "tick"
    /\ \/ /\ wheel[callout_get_bucket(softticks)] # <<>>
          /\ pc' = "soft"
          /\ UNCHANGED softticks
       \/ /\ wheel[callout_get_bucket(softticks)] = <<>>
          /\ softticks' = (softticks + 1) % TickMod
          /\ pc' = IF Lag = 0 THEN "idle" ELSE "tick"
    /\ UNCHANGED <<ticks, wheel, next, bucket, curr, flags, curticks, c>>

\* cc_softticks - ticks < 0, of ints that wrap: true up to half the range
Behind == Lag > 0 /\ 2 * Lag <= TickMod

\* one round of the loop in callout_tick
callout_tick ==
    /\ pc = "tick"
    /\ \/ ~Behind /\ pc' = "idle" /\ UNCHANGED softticks
       \/ /\ Behind
          /\ wheel[callout_get_bucket(softticks)] # <<>>
          /\ pc' = "soft"
          /\ UNCHANGED softticks
       \/ /\ Behind
          /\ wheel[callout_get_bucket(softticks)] = <<>>
          /\ softticks' = (softticks + 1) % TickMod
          /\ UNCHANGED pc
    /\ UNCHANGED <<ticks, wheel, next, bucket, curr, flags, curticks, c>>

\* the outer loop of softclock
softclock ==
    /\ pc = "soft"
    /\ \/ softticks = ticks /\ pc' = "idle" /\ UNCHANGED <<softticks, curticks, c>>
       \/ /\ softticks # ticks
          /\ curticks' = softticks
          /\ softticks' = (softticks + 1) % TickMod
          /\ c' = First(wheel[callout_get_bucket(softticks)])
          /\ pc' = "walk"
    /\ UNCHANGED <<ticks, wheel, next, bucket, curr, flags>>

Walked == wheel[callout_get_bucket(curticks)]

\* the walk ends, or passes a callout of another round of the wheel
WalkOn ==
    /\ pc = "walk"
    /\ \/ c = NULL /\ pc' = "soft" /\ curticks' = 0 /\ UNCHANGED c
       \/ /\ c # NULL
          /\ time[c] # curticks
          /\ c' = NextIn(Walked, c)
          /\ UNCHANGED <<pc, curticks>>
    /\ UNCHANGED <<ticks, wheel, next, bucket, curr, flags, softticks>>

Run ==
    /\ next' = NextIn(Walked, c)
    /\ bucket' = callout_get_bucket(curticks)
    /\ wheel' = Unlink(wheel, c)
    /\ pending' = pending \ {c}
    /\ time' = [time EXCEPT ![c] = 0]
    /\ curr' = [curr EXCEPT ![1] = c]
    /\ pc' = "handler"
    /\ UNCHANGED <<ticks, softticks, curticks, c, active>>

BugCall == pc = "walk" /\ c # NULL /\ Run

\* softclock_call_cc up to the call of c_func
CallHandler == pc = "walk" /\ c # NULL /\ time[c] = curticks /\ Run

\* c_func returns; softclock goes on where cc_next points
HandlerReturn ==
    /\ pc = "handler"
    /\ curr' = [curr EXCEPT ![1] = NULL]
    /\ c' = next
    /\ next' = NULL
    /\ pc' = "walk"
    /\ UNCHANGED <<ticks, wheel, bucket, flags, softticks, curticks>>

(***************************************************************************)
(* The calls of the stack's code, from its own loop or from a handler.     *)
(***************************************************************************)
Calling == pc \in {"idle", "handler"}
Dir(x) == IF x \in Direct THEN 1 ELSE 0

\* cc_next once x has left its bucket
NextWithout(x) ==
    IF x \in pending /\ next = x
    THEN NextIn(wheel[callout_get_bucket(time[x])], x) ELSE next

\* x is armed for n ticks from now, on the wheel w and with cc_next = nx
callout_cc_add(x, n, w, nx) ==
    LET t == (ticks + n) % TickMod
        b == callout_get_bucket(t)
    IN  /\ wheel' = [w EXCEPT ![b] = <<x>> \o @]
        /\ next' = IF bucket = b THEN x ELSE nx
        /\ time' = [time EXCEPT ![x] = t]
        /\ pending' = pending \cup {x}
        /\ active' = active \cup {x}

BugReset(x, n) ==
    /\ Calling
    /\ callout_cc_add(x, n, Unlink(wheel, x), NextWithout(x))
    /\ UNCHANGED <<ticks, bucket, curr, clock>>

BugResetNext(x, n) ==
    /\ Calling
    /\ callout_cc_add(x, IF n <= 0 THEN 1 ELSE n, Unlink(wheel, x), next)
    /\ UNCHANGED <<ticks, bucket, curr, clock>>

callout_reset(x, n) ==
    /\ Calling
    /\ callout_cc_add(x, IF n <= 0 THEN 1 ELSE n, Unlink(wheel, x), NextWithout(x))
    /\ UNCHANGED <<ticks, bucket, curr, clock>>

\* callout_stop, and callout_drain of a callout that is not running.  The
\* handlers run with direct = 1, so only a callout of Direct is seen running.
callout_stop(x) ==
    /\ Calling
    /\ active' = IF curr[Dir(x)] = x \/ x \in pending THEN active \ {x} ELSE active
    /\ wheel' = IF x \in pending THEN Unlink(wheel, x) ELSE wheel
    /\ next' = NextWithout(x)
    /\ pending' = pending \ {x}
    /\ time' = [time EXCEPT ![x] = 0]
    /\ UNCHANGED <<ticks, bucket, curr, clock>>

-----------------------------------------------------------------------------
ClockStep ==
    \/ ff_hardclock_worker
    \/ callout_tick
    \/ softclock
    \/ WalkOn
    \/ CallHandler
    \/ HandlerReturn

StackCall == \E x \in Callouts : callout_stop(x) \/ \E n \in ToTicks : callout_reset(x, n)

Next == Tick \/ ClockStep \/ StackCall

Spec == Init /\ [][Next]_vars

\* The thread's main loop keeps calling rte_timer_manage, and handlers return.
FairSpec == Spec /\ WF_vars(ClockStep)

-----------------------------------------------------------------------------
TypeOK ==
    /\ ticks \in 0 .. TickMod - 1
    /\ softticks \in 0 .. TickMod - 1
    /\ Lag <= MaxLag
    /\ wheel \in [Buckets -> Seq(Callouts)]
    /\ time \in [Callouts -> 0 .. TickMod - 1]
    /\ pending \subseteq Callouts
    /\ active \subseteq Callouts
    /\ next \in Callouts \cup {NULL}
    /\ bucket \in Buckets
    /\ curr \in [{0, 1} -> Callouts \cup {NULL}]
    /\ pc \in {"idle", "tick", "soft", "walk", "handler"}
    /\ curticks \in 0 .. TickMod - 1
    /\ c \in Callouts \cup {NULL}

\* A callout is on the wheel exactly when CALLOUT_PENDING says so, once, in the
\* bucket of its time, and it is active then (the KASSERTs of softclock_call_cc).
\* The pointers of the walk, cc_next and softclock's c, never leave the bucket
\* that is walked, whatever the handlers arm, re-arm and stop.
WalkStaysOnWheel ==
    /\ \A b \in Buckets : IsInjective(wheel[b])
    /\ \A b \in Buckets, x \in Callouts :
           x \in ToSet(wheel[b]) <=> x \in pending /\ b = callout_get_bucket(time[x])
    /\ pending \subseteq active
    /\ next # NULL => next \in ToSet(wheel[bucket])
    /\ pc = "walk" /\ c # NULL => c \in ToSet(Walked)
    /\ pc = "handler" => curr[1] = c /\ bucket = callout_get_bucket(curticks)

\* x and what comes after it in a list
Rest(list, x) ==
    {list[i] : i \in {j \in 1 .. Len(list) : \E k \in 1 .. j : list[k] = x}}

\* the callouts the current walk will still look at
InWalk ==
    IF pc \in {"walk", "handler"}
    THEN Rest(Walked, IF pc = "walk" THEN c ELSE next)
    ELSE {}

\* No pending callout is ever left behind: its time is a tick whose bucket is
\* still to be walked, or it is the tick walked now and the walk has not passed
\* it.  A callout left behind would sleep until ticks wraps, 2^32 ticks later.
NothingMissed ==
    \A x \in pending :
        \/ Ahead(time[x], softticks) <= Reach
        \/ x \in InWalk /\ time[x] = curticks

\* ticks until the time of a pending callout, negative once it has passed
Left(x) ==
    LET d == Ahead(time[x], ticks)
    IN  IF x \notin pending THEN 0 ELSE IF d <= MaxDelay THEN d ELSE d - TickMod

T == INSTANCE Timers WITH None <- NULL, armed <- pending,
         left <- [x \in Callouts |-> Left(x)], running <- curr[1]

\* The wheel implements Timers: no handler runs early, twice for one arming or
\* after a stop, through every interleaving of ticks, handlers and stack calls.
ImplementsTimers == T!Spec

\* A callout whose time has passed runs, or is stopped or armed anew.
DueFires ==
    \A x \in Callouts : (x \in pending /\ Left(x) < 0) ~> ~(x \in pending /\ Left(x) < 0)
=============================================================================
