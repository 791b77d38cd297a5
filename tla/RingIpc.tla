------------------------------- MODULE RingIpc -------------------------------
(***************************************************************************)
(* The ring IPC of the LD_PRELOAD adapter (FF_USE_RING_IPC): an            *)
(* application thread puts its context into req_ring and spins on          *)
(* sc->completion; the fstack instance takes the ring's entries in bursts  *)
(* and handles one after the other, without locks and without a status.    *)
(*                                                                         *)
(* There is one application thread and so one context, as the single       *)
(* producer mode of the ring demands; then every entry of the ring is that *)
(* context, and the ring is the number of its entries.  The sc that a      *)
(* handler works on is whatever the application has written to it by then. *)
(*                                                                         *)
(* An operator BugX is a slip somebody could make in X; no action uses it: *)
(* it stands in for X when a property is tried for its strength.           *)
(***************************************************************************)
EXTENDS Integers

CONSTANTS
    RingSize,    \* FF_RING_SIZE: rte_ring_create gives room for RingSize - 1 entries
    ObjsMax,     \* SOCKET_OPS_CONTEXT_MAX_NUM: places of fstack's local array objs
    CallSet,     \* the calls the thread makes, a subset of Calls
    MaxCuts,     \* bound: waits that time out
    MaxAlarms    \* bound: calls of alarm_event_sem

Capacity == RingSize - 1

\* timeout is the sign of timeout_us: SYSCALL always waits for ever
Calls ==
    [op: {"syscall"}, timeout: {"neg"}]
    \cup [op: {"epoll", "kevent"}, timeout: {"neg", "zero", "pos"}]

ASSUME RingAssumption == RingSize \in Nat /\ RingSize > 1 /\ ObjsMax \in 1 .. Capacity
ASSUME CallAssumption == CallSet \subseteq Calls /\ CallSet # {}
ASSUME BoundAssumption == MaxCuts \in Nat /\ MaxAlarms \in Nat

VARIABLES
    pc, call, ret,         \* the application thread
    completion, result,    \* sc->completion; sc->result and whether it is the current call's
    queued,                \* entries of req_ring
    burst,                 \* entries fstack has dequeued and not handled yet
    fsPc, fresh,           \* ff_handle_socket_ops_ring; whether it runs the current call
    executed, cuts, alarms \* history: see below

appVars == <<pc, call, ret>>
scVars  == <<completion, result>>
fsVars  == <<burst, fsPc, fresh>>
history == <<executed, cuts, alarms>>
vars == <<appVars, scVars, queued, fsVars, history>>

(* executed: how often the handler finished for the current submission, up  *)
(* to 2; cuts: waits that have timed out; alarms: calls of alarm_event_sem. *)
Saturate(n) == IF n >= 2 THEN 2 ELSE n + 1

Results == {-1, 0, 1}        \* the sign of a handler's return value
Zero == [own |-> FALSE, val |-> 0]

-----------------------------------------------------------------------------
Init ==
    /\ pc = "run"
    /\ call \in CallSet
    /\ ret = Zero
    /\ completion = FALSE
    /\ result = Zero
    /\ queued = 0
    /\ burst = 0
    /\ fsPc = "poll"
    /\ fresh = FALSE
    /\ executed = 0
    /\ cuts = 0
    /\ alarms = 0

(***************************************************************************)
(* The application thread.                                                 *)
(***************************************************************************)
\* A call writes sc->ops and sc->args and resets result and error.
Fill(k) ==
    /\ pc = "run" \/ (pc = "retry" /\ k = call)
    /\ pc' = "clear"
    /\ call' = k
    /\ ret' = Zero
    /\ result' = Zero
    /\ executed' = 0
    /\ fresh' = FALSE
    /\ UNCHANGED <<completion, queued, burst, fsPc, cuts, alarms>>

\* The flag a submission starts with
BugCompletionCleared == completion
CompletionCleared == FALSE

\* ff_ring_submit_and_wait clears the flag before it enqueues ...
Clear ==
    /\ pc = "clear"
    /\ pc' = "enqueue"
    /\ completion' = CompletionCleared
    /\ UNCHANGED <<call, ret, result, queued, fsVars, history>>

\* rte_ring_sp_enqueue's free entries
BugHasRoom == queued <= Capacity
HasRoom == queued < Capacity

\* ... and spins while the ring is full.
Enqueue ==
    /\ pc = "enqueue"
    /\ HasRoom
    /\ queued' = queued + 1
    /\ pc' = "wait"
    /\ UNCHANGED <<call, ret, scVars, fsVars, history>>

\* epoll_wait without a time limit, 0 included, starts over when it has no event.
AfterWait(v) ==
    IF call.op = "epoll" /\ call.timeout \in {"neg", "zero"} /\ v = 0 THEN "retry" ELSE "run"

Complete ==
    /\ pc = "wait"
    /\ completion
    /\ ret' = result
    /\ pc' = AfterWait(result.val)
    /\ UNCHANGED <<call, scVars, queued, fsVars, history>>

\* -ETIMEDOUT: 0 events; the request stays where it is
TimeOut ==
    /\ pc = "wait"
    /\ ~completion
    /\ call.timeout # "neg"
    /\ cuts < MaxCuts
    /\ ret' = Zero
    /\ cuts' = cuts + 1
    /\ pc' = AfterWait(0)
    /\ UNCHANGED <<call, scVars, queued, fsVars, executed, alarms>>

\* alarm_event_sem, from another thread or a signal handler of the process.  Nobody
\* reads rsp_ring, where it also puts the context.
Alarm ==
    /\ alarms < MaxAlarms
    /\ alarms' = alarms + 1
    /\ completion' = TRUE
    /\ UNCHANGED <<appVars, result, queued, fsVars, executed, cuts>>

(***************************************************************************)
(* The fstack instance: ff_handle_each_context.                            *)
(***************************************************************************)
\* the loop over the dequeued entries
BugHandled(nb) == nb - 1
Handled(nb) == nb

\* A burst takes all the entries of the ring: it asks for FF_RING_SIZE of them ...
Dequeue ==
    /\ fsPc = "poll"
    /\ burst = 0
    /\ queued > 0
    /\ burst' = Handled(queued)
    /\ queued' = 0
    /\ UNCHANGED <<appVars, scVars, fsPc, fresh, history>>

\* ... and copies them to objs.  What lies behind objs on the stack is overwritten by the
\* entries it has no place for: fstack goes on (Dequeue), or it does not.
Overrun ==
    /\ fsPc = "poll"
    /\ burst = 0
    /\ queued > ObjsMax
    /\ queued' = 0
    /\ fsPc' = "dead"
    /\ UNCHANGED <<appVars, scVars, burst, fresh, history>>

\* The completion flag while the handler works: it is the result that is published
BugCompletionAtStart == TRUE
CompletionAtStart == completion

\* ff_so_handler reads sc->ops and sc->args ...
HandlerStart ==
    /\ fsPc = "poll"
    /\ burst > 0
    /\ burst' = burst - 1
    /\ fsPc' = "handle"
    /\ fresh' = TRUE
    /\ completion' = CompletionAtStart
    /\ UNCHANGED <<appVars, result, queued, history>>

\* ff_ring_send_response answers every call, whatever its result is
BugCompletionAtEnd(v) == completion \/ v >= 0
CompletionAtEnd(v) == TRUE

\* ... and has a result when it returns: it is stored, then the flag is set.
HandlerEnd(v) ==
    /\ fsPc = "handle"
    /\ fsPc' = "respond"
    /\ result' = [own |-> fresh, val |-> v]
    /\ executed' = IF fresh THEN Saturate(executed) ELSE executed
    /\ UNCHANGED <<appVars, completion, queued, burst, fresh, cuts, alarms>>

SendResponse ==
    /\ fsPc = "respond"
    /\ completion' = CompletionAtEnd(result.val)
    /\ fsPc' = "poll"
    /\ UNCHANGED <<appVars, result, queued, burst, fresh, history>>

-----------------------------------------------------------------------------
AppStep == Clear \/ Enqueue \/ Complete \/ TimeOut \/ (pc = "retry" /\ Fill(call))
FsStep == Dequeue \/ HandlerStart \/ (\E v \in Results : HandlerEnd(v)) \/ SendResponse

Next == AppStep \/ Alarm \/ FsStep \/ Overrun \/ \E k \in CallSet : Fill(k)

Spec == Init /\ [][Next]_vars

(***************************************************************************)
(* The fstack instance polls for ever, and a thread that is inside a call  *)
(* keeps running.                                                          *)
(***************************************************************************)
FairSpec == Spec /\ WF_vars(AppStep) /\ WF_vars(FsStep)

-----------------------------------------------------------------------------
TypeOK ==
    /\ pc \in {"run", "clear", "enqueue", "wait", "retry"}
    /\ call \in CallSet
    /\ ret \in [own: BOOLEAN, val: Results]
    /\ completion \in BOOLEAN
    /\ result \in [own: BOOLEAN, val: Results]
    /\ queued \in 0 .. Capacity
    /\ burst \in 0 .. Capacity
    /\ fsPc \in {"poll", "handle", "respond", "dead"}
    /\ fresh \in BOOLEAN
    /\ executed \in 0 .. 2
    /\ cuts \in 0 .. MaxCuts
    /\ alarms \in 0 .. MaxAlarms

\* how often the context is on its way to a handler or in one
InFlight == queued + burst + (IF fsPc \in {"handle", "respond"} THEN 1 ELSE 0)

(***************************************************************************)
(* A thread never spins on a flag that nobody will set: while it waits and *)
(* the flag is clear, its context is in the ring or with fstack.  (The     *)
(* flag is cleared before the context is enqueued for this reason.)  Only  *)
(* an fstack that did not survive its burst leaves a thread alone.         *)
(***************************************************************************)
WaitIsServed == pc = "wait" /\ ~completion /\ fsPc # "dead" => InFlight > 0

(***************************************************************************)
(* "No lock needed - SPSC dequeue guarantees mutual exclusion": while the  *)
(* handler works on a context, the application is waiting for that call.   *)
(***************************************************************************)
HandlerExclusive == fsPc = "handle" => pc = "wait" /\ fresh

(***************************************************************************)
(* As long as no wait has timed out and alarm_event_sem was not called,    *)
(* the ring does give exclusive access: the context is in flight at most   *)
(* once, only for a waiting application, and not after it was answered.    *)
(***************************************************************************)
ExclusiveUntilDisturbed ==
    cuts = 0 /\ alarms = 0 =>
        /\ HandlerExclusive
        /\ InFlight <= 1
        /\ InFlight = 1 => pc = "wait" /\ ~completion

(***************************************************************************)
(* Under the same condition a call that returns has been executed once,    *)
(* and what it returns is the result of that execution.                    *)
(***************************************************************************)
OwnReplyUntilDisturbed ==
    [][pc = "wait" /\ pc' # "wait" /\ cuts' = 0 /\ alarms = 0 =>
           executed = 1 /\ ret'.own]_vars

(***************************************************************************)
(* Stale entries do not multiply: besides the entry of the call that is    *)
(* waiting, the ring and fstack hold at most one for every wait that was   *)
(* cut short, however the retries of epoll_wait, late answers and alarms   *)
(* follow each other.  So req_ring fills, and a burst outgrows objs, only  *)
(* after as many cut waits as there are places.                            *)
(***************************************************************************)
StaleBounded == InFlight <= cuts + alarms + (IF pc = "wait" THEN 1 ELSE 0)

(***************************************************************************)
(* A SYSCALL returns, whatever stale entries it meets in the ring and      *)
(* whatever late answer ends its wait, as long as every burst fits into    *)
(* objs.                                                                   *)
(***************************************************************************)
SyscallReturns ==
    [](queued <= ObjsMax) => ((pc = "clear" /\ call.op = "syscall") ~> (pc = "run"))

(***************************************************************************)
(* epoll_wait with timeout 0 returns at once when no event is ready (test  *)
(* FT-024 of the ring's test specification).                               *)
(***************************************************************************)
EpollPollReturns ==
    (pc = "clear" /\ call.op = "epoll" /\ call.timeout = "zero") ~> (pc = "run")
=============================================================================
