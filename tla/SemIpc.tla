------------------------------- MODULE SemIpc -------------------------------
(***************************************************************************)
(* The default IPC of the LD_PRELOAD adapter: application threads hand     *)
(* socket calls to the fstack instance through ff_so_context structures in *)
(* shared memory.  A context is guarded by a spinlock and moves through    *)
(* FF_SC_IDLE -> FF_SC_REQ -> FF_SC_REP -> FF_SC_IDLE; epoll_wait and      *)
(* kevent sleep on the context's semaphore instead of spinning.            *)
(*                                                                         *)
(* One context is shared by all the threads of a process (the default      *)
(* PIPELINE mode), and by the processes forked from it.  The payload of a  *)
(* call is not modelled: sc->ops and sc->args together are the thread      *)
(* whose (thread local) argument block they point to, and the block's      *)
(* fields that steer the protocol are call[t] and changes[t].  (A forked   *)
(* child inherits the thread local pointers of the thread that forked, so  *)
(* these two share one block in the code; the model keeps them apart.)     *)
(*                                                                         *)
(* An operator BugX is a slip somebody could make in X; no action uses it: *)
(* it stands in for X when a property is tried for its strength.           *)
(***************************************************************************)
EXTENDS Integers, FiniteSets

CONSTANTS
    NCtx,        \* number of contexts of the zone, all of them attached
    Procs,       \* application processes
    Threads,     \* application threads
    CtxOf,       \* [Procs -> Contexts]: the process variable sc
    ProcOf,      \* [Threads -> Procs]
    CallSet,     \* the calls the threads make, a subset of Calls
    PollingMode, \* FF_PRELOAD_POLLING_MODE
    MaxDisturb,  \* bound: inherited tokens, alarms and failed semaphore waits, per context
    FStack,      \* the fstack instance as a lock holder
    NoOne

Contexts == 0 .. NCtx - 1

(***************************************************************************)
(* What a call tells the protocol: op is any call made with the SYSCALL    *)
(* macro, epoll_wait or kevent; timeout is "none" for a SYSCALL, the sign  *)
(* of epoll_wait's timeout, "null" or "pos" for kevent; want says that     *)
(* maxevents (nevents) is not 0; chg that kevent has a change list.        *)
(***************************************************************************)
Calls ==
    [op: {"syscall"}, timeout: {"none"}, want: {FALSE}, chg: {FALSE}]
    \cup [op: {"epoll"}, timeout: {"neg", "zero", "pos"}, want: BOOLEAN, chg: {FALSE}]
    \cup [op: {"kevent"}, timeout: {"null", "pos"}, want: BOOLEAN, chg: BOOLEAN]

ASSUME NCtxAssumption == NCtx \in Nat \ {0}
ASSUME ProcAssumption == CtxOf \in [Procs -> Contexts] /\ ProcOf \in [Threads -> Procs]
ASSUME CallAssumption == CallSet \subseteq Calls /\ CallSet # {}
ASSUME ModeAssumption == PollingMode \in BOOLEAN
ASSUME BoundAssumption == MaxDisturb \in Nat
ASSUME NameAssumption ==
    /\ FStack \notin Threads \cup Procs
    /\ NoOne \notin Threads \cup Procs \cup {FStack, -1, 0, 1}
    /\ Threads \cap Procs = {}

VARIABLES
    status,     \* sc->status
    lock,       \* sc->lock: who holds it
    args,       \* sc->ops and sc->args: the thread whose call they describe
    result,     \* sc->result with the thread it was computed for
    sem,        \* sc->wait_sem
    need_alarm_sem,  \* per process
    pc, call, changes, outcome, ret,   \* per thread
    fsPc, fsIdx,                       \* ff_handle_each_context
    executed, applied, disturbed       \* history: see below

scVars     == <<status, lock, args, result, sem>>
threadVars == <<pc, call, changes, outcome, ret>>
fsVars     == <<fsPc, fsIdx>>
history    == <<executed, applied, disturbed>>
vars == <<scVars, need_alarm_sem, threadVars, fsVars, history>>

(* executed[t]: how often the handler ran for t's current submission, up    *)
(* to 2; applied[t]: how often t's change list was applied, up to 2;        *)
(* disturbed[c]: alarm_event_sem calls and failed semaphore waits on c, and *)
(* the tokens c had when it was attached.                                   *)
Saturate(n) == IF n >= 2 THEN 2 ELSE n + 1

Results == {-1, 0, 1}        \* the sign of a handler's return value
NoResult == [by |-> NoOne, val |-> 0]
ResultType == [by: Threads \cup {NoOne}, val: Results]
Ctx(t) == CtxOf[ProcOf[t]]
AnyCall == CHOOSE k \in CallSet : TRUE

IsEvent(k) == k.op \in {"epoll", "kevent"}
\* epoll_wait and kevent sleep on the semaphore; polling epoll_wait spins
Sleeps(k) == k.op = "kevent" \/ (k.op = "epoll" /\ ~PollingMode)
\* timeout <= 0 (epoll_wait), timeout == NULL (kevent): sem_wait, not sem_timedwait
Blocking(k) == k.timeout \in {"neg", "zero", "null"}

-----------------------------------------------------------------------------
\* ff_attach_so_context leaves the semaphore and the result of a context as the process
\* that had it before left them.
Init ==
    /\ status = [c \in Contexts |-> "IDLE"]
    /\ lock = [c \in Contexts |-> NoOne]
    /\ args = [c \in Contexts |-> NoOne]
    /\ result \in [Contexts -> [by: {NoOne}, val: Results]]
    /\ sem \in [Contexts -> 0 .. MaxDisturb]
    /\ need_alarm_sem = [p \in Procs |-> FALSE]
    /\ pc = [t \in Threads |-> "run"]
    /\ call \in [Threads -> {AnyCall}]
    /\ changes = [t \in Threads |-> FALSE]
    /\ outcome = [t \in Threads |-> "none"]
    /\ ret = [t \in Threads |-> NoResult]
    /\ fsPc = "scan"
    /\ fsIdx = 0
    /\ executed = [t \in Threads |-> 0]
    /\ applied = [t \in Threads |-> 0]
    /\ disturbed = sem

(***************************************************************************)
(* The application side.                                                   *)
(***************************************************************************)
\* A hooked call fills its argument block.
Invoke(t, k) ==
    /\ pc[t] = "run"
    /\ pc' = [pc EXCEPT ![t] = "idle_spin"]
    /\ call' = [call EXCEPT ![t] = k]
    /\ changes' = [changes EXCEPT ![t] = k.chg]
    /\ applied' = [applied EXCEPT ![t] = 0]
    /\ ret' = [ret EXCEPT ![t] = NoResult]
    /\ UNCHANGED <<scVars, need_alarm_sem, outcome, fsVars, executed, disturbed>>

\* ACQUIRE_ZONE_LOCK(exp): the dirty read
DirtyRead(t) ==
    /\ \/ pc[t] = "idle_spin" /\ status[Ctx(t)] = "IDLE" /\ pc' = [pc EXCEPT ![t] = "idle_lock"]
       \/ pc[t] = "rep_spin" /\ status[Ctx(t)] = "REP" /\ pc' = [pc EXCEPT ![t] = "rep_lock"]
    /\ UNCHANGED <<scVars, need_alarm_sem, call, changes, outcome, ret, fsVars, history>>

\* rte_spinlock_lock, in ACQUIRE_ZONE_LOCK and after the semaphore wait
SpinLock(t) ==
    /\ lock[Ctx(t)] = NoOne
    /\ lock' = [lock EXCEPT ![Ctx(t)] = t]
    /\ \/ pc[t] = "idle_lock" /\ pc' = [pc EXCEPT ![t] = "idle_check"]
       \/ pc[t] = "rep_lock" /\ pc' = [pc EXCEPT ![t] = "rep_check"]
       \/ pc[t] = "done_lock" /\ pc' = [pc EXCEPT ![t] = "done"]
    /\ UNCHANGED <<status, args, result, sem, need_alarm_sem, call, changes, outcome,
                   ret, fsVars, history>>

\* The real read under the lock
BugNoRecheck(c, exp) == TRUE
StillIs(c, exp) == status[c] = exp

\* It agrees with the dirty one, or else: unlock, spin again.
Recheck(t, exp, check, agreed, spin) ==
    /\ pc[t] = check
    /\ IF StillIs(Ctx(t), exp)
       THEN pc' = [pc EXCEPT ![t] = agreed] /\ lock' = lock
       ELSE pc' = [pc EXCEPT ![t] = spin] /\ lock' = [lock EXCEPT ![Ctx(t)] = NoOne]
    /\ UNCHANGED <<status, args, result, sem, need_alarm_sem, call, changes, outcome,
                   ret, fsVars, history>>
RecheckIdle(t) == Recheck(t, "IDLE", "idle_check", "idle_set", "idle_spin")
RecheckRep(t) == Recheck(t, "REP", "rep_check", "rep_take", "rep_spin")

\* epoll_wait and kevent reset the result the last call left behind.
BugNoReset(k, c) == result[c]
ResultBefore(k, c) == IF IsEvent(k) THEN NoResult ELSE result[c]

\* The request is written and published: status is FF_SC_REQ, the lock is free.
Submit(t) ==
    LET c == Ctx(t)
        k == call[t]
    IN  /\ pc[t] = "idle_set"
        /\ args' = [args EXCEPT ![c] = t]
        /\ result' = [result EXCEPT ![c] = ResultBefore(k, c)]
        /\ need_alarm_sem' = IF Sleeps(k) /\ Blocking(k)
                             THEN [need_alarm_sem EXCEPT ![ProcOf[t]] = TRUE]
                             ELSE need_alarm_sem
        /\ status' = [status EXCEPT ![c] = "REQ"]
        /\ lock' = [lock EXCEPT ![c] = NoOne]
        /\ executed' = [executed EXCEPT ![t] = 0]
        /\ pc' = [pc EXCEPT ![t] = IF Sleeps(k) THEN "sem_wait" ELSE "rep_spin"]
        /\ UNCHANGED <<sem, call, changes, outcome, ret, fsVars, applied, disturbed>>

\* SYSCALL's end, and a round of the polling epoll_wait, which starts over while
\* there is no event and its time has not run out.
TakeReply(t) ==
    LET c == Ctx(t)
        k == call[t]
    IN  /\ pc[t] = "rep_take"
        /\ ret' = [ret EXCEPT ![t] = result[c]]
        /\ status' = [status EXCEPT ![c] = "IDLE"]
        /\ lock' = [lock EXCEPT ![c] = NoOne]
        /\ \/ /\ k.op = "epoll" /\ result[c].val = 0 /\ k.timeout # "zero"
              /\ pc' = [pc EXCEPT ![t] = "idle_spin"]
           \/ /\ ~(k.op = "epoll" /\ result[c].val = 0 /\ k.timeout = "neg")
              /\ pc' = [pc EXCEPT ![t] = "run"]
        /\ UNCHANGED <<args, result, sem, need_alarm_sem, call, changes, outcome,
                       fsVars, history>>

\* sem_wait and sem_timedwait take a token ...
BugHasToken(c) == sem[c] >= 0
HasToken(c) == sem[c] > 0

SemTake(t) ==
    /\ pc[t] = "sem_wait"
    /\ HasToken(Ctx(t))
    /\ sem' = [sem EXCEPT ![Ctx(t)] = @ - 1]
    /\ outcome' = [outcome EXCEPT ![t] = "token"]
    /\ pc' = [pc EXCEPT ![t] = "done_lock"]
    /\ UNCHANGED <<status, lock, args, result, need_alarm_sem, call, changes, ret,
                   fsVars, history>>

\* ... or there is none until the time is up ...
SemTimeout(t) ==
    /\ pc[t] = "sem_wait"
    /\ ~Blocking(call[t])
    /\ ~HasToken(Ctx(t))
    /\ outcome' = [outcome EXCEPT ![t] = "timeout"]
    /\ pc' = [pc EXCEPT ![t] = "done_lock"]
    /\ UNCHANGED <<scVars, need_alarm_sem, call, changes, ret, fsVars, history>>

\* ... or the wait fails: a signal interrupts it, or the absolute time is not a valid
\* one (a sum of exactly NS_PER_SECOND nanoseconds is not carried, kevent does not
\* wait at all for a negative one).
SemError(t) ==
    /\ pc[t] = "sem_wait"
    /\ disturbed[Ctx(t)] < MaxDisturb
    /\ disturbed' = [disturbed EXCEPT ![Ctx(t)] = @ + 1]
    /\ outcome' = [outcome EXCEPT ![t] = "error"]
    /\ pc' = [pc EXCEPT ![t] = "done_lock"]
    /\ UNCHANGED <<scVars, need_alarm_sem, call, changes, ret, fsVars, executed, applied>>

\* The wait is over: the flag for alarm_event_sem is taken back, and the context becomes
\* FF_SC_IDLE whatever its status was.
BugAlarmKept(t) == need_alarm_sem[ProcOf[t]]
AlarmAfter(t) == need_alarm_sem[ProcOf[t]] /\ ~Blocking(call[t])
BugStatusAfter(c) == IF status[c] = "REP" THEN "IDLE" ELSE status[c]
StatusAfter(c) == "IDLE"

\* Under the lock after the wait: only a wait that returned 0 may use the result.
\* epoll_wait without a time limit (0 included) retries until it has an event.
Finish(t) ==
    LET c == Ctx(t)
        k == call[t]
        r == IF outcome[t] = "token" THEN result[c]
             ELSE [by |-> NoOne, val |-> IF outcome[t] = "timeout" THEN 0 ELSE -1]
    IN  /\ pc[t] = "done"
        /\ need_alarm_sem' = [need_alarm_sem EXCEPT ![ProcOf[t]] = AlarmAfter(t)]
        /\ ret' = [ret EXCEPT ![t] = r]
        /\ outcome' = [outcome EXCEPT ![t] = "none"]
        /\ status' = [status EXCEPT ![c] = StatusAfter(c)]
        /\ lock' = [lock EXCEPT ![c] = NoOne]
        /\ pc' = [pc EXCEPT ![t] = IF k.op = "epoll" /\ Blocking(k) /\ r.val = 0
                                   THEN "idle_spin" ELSE "run"]
        /\ UNCHANGED <<args, result, sem, call, changes, fsVars, history>>

(***************************************************************************)
(* alarm_event_sem, called by a thread of the process that is not inside a *)
(* call: wake the thread that sleeps without a time limit.                 *)
(***************************************************************************)
AlarmLock(p) ==
    /\ lock[CtxOf[p]] = NoOne
    /\ disturbed[CtxOf[p]] < MaxDisturb
    /\ disturbed' = [disturbed EXCEPT ![CtxOf[p]] = @ + 1]
    /\ lock' = [lock EXCEPT ![CtxOf[p]] = p]
    /\ UNCHANGED <<status, args, result, sem, need_alarm_sem, threadVars, fsVars,
                   executed, applied>>

BugAlarmPosts(p) == need_alarm_sem[p] /\ status[CtxOf[p]] = "REP"
AlarmPosts(p) == need_alarm_sem[p]

AlarmPost(p) ==
    /\ lock[CtxOf[p]] = p
    /\ sem' = IF AlarmPosts(p) THEN [sem EXCEPT ![CtxOf[p]] = @ + 1] ELSE sem
    /\ need_alarm_sem' = [need_alarm_sem EXCEPT ![p] = FALSE]
    /\ lock' = [lock EXCEPT ![CtxOf[p]] = NoOne]
    /\ UNCHANGED <<status, args, result, threadVars, fsVars, history>>

(***************************************************************************)
(* The fstack instance: ff_handle_each_context goes round the contexts.    *)
(***************************************************************************)
NextContext ==
    /\ fsIdx' = (fsIdx + 1) % NCtx
    /\ fsPc' = "scan"

\* The dirty read of a context's status
FsScan ==
    /\ fsPc = "scan"
    /\ IF status[fsIdx] = "REQ" THEN fsPc' = "try" /\ fsIdx' = fsIdx ELSE NextContext
    /\ UNCHANGED <<scVars, need_alarm_sem, threadVars, history>>

\* ff_handle_socket_ops gives up when somebody else has the lock
FsTryLock ==
    /\ fsPc = "try"
    /\ IF lock[fsIdx] = NoOne
       THEN lock' = [lock EXCEPT ![fsIdx] = FStack] /\ fsPc' = "check" /\ fsIdx' = fsIdx
       ELSE NextContext /\ lock' = lock
    /\ UNCHANGED <<status, args, result, sem, need_alarm_sem, threadVars, history>>

\* The status under the lock may not be FF_SC_REQ any more
FsRecheck ==
    /\ fsPc = "check"
    /\ IF status[fsIdx] = "REQ"
       THEN fsPc' = "handle" /\ UNCHANGED <<fsIdx, lock>>
       ELSE lock' = [lock EXCEPT ![fsIdx] = NoOne] /\ NextContext
    /\ UNCHANGED <<status, args, result, sem, need_alarm_sem, threadVars, history>>

\* sem_flag = 0: the request stays, and is executed again in the next round
KeepRequest(k, v) ==
    /\ v = 0
    /\ \/ k.op = "epoll" /\ ~PollingMode /\ k.timeout = "zero" /\ k.want
       \/ k.op = "epoll" /\ PollingMode /\ k.timeout = "neg"
       \/ k.op = "kevent" /\ k.timeout = "null" /\ k.want

\* After the handler: who is answered (polling mode never answers kevent) and who is
\* also woken
BugAnswered(k, v) == v # -1 /\ ~KeepRequest(k, v)
Answered(k, v) == ~IsEvent(k) \/ (~KeepRequest(k, v) /\ ~(PollingMode /\ k.op = "kevent"))
BugPostedNotError(k, v) == IsEvent(k) /\ ~PollingMode /\ ~KeepRequest(k, v) /\ v # -1
BugPostedAlways(k, v) == IsEvent(k) /\ ~PollingMode
Posted(k, v) == IsEvent(k) /\ ~PollingMode /\ ~KeepRequest(k, v)

\* kevent's change list is used up by the first execution: nchanges = 0.
BugChangesAfter(t) == changes[t]
ChangesAfter(t) == FALSE

\* ff_so_handler runs the call and its result is published.
FsHandle(v) ==
    LET c == fsIdx
        t == args[c]
        k == call[t]
    IN  /\ fsPc = "handle"
        /\ result' = [result EXCEPT ![c] = [by |-> t, val |-> v]]
        /\ applied' = IF changes[t] THEN [applied EXCEPT ![t] = Saturate(@)] ELSE applied
        /\ changes' = [changes EXCEPT ![t] = ChangesAfter(t)]
        /\ executed' = [executed EXCEPT ![t] = Saturate(@)]
        /\ status' = IF Answered(k, v) THEN [status EXCEPT ![c] = "REP"] ELSE status
        /\ sem' = IF Posted(k, v) THEN [sem EXCEPT ![c] = @ + 1] ELSE sem
        /\ lock' = [lock EXCEPT ![c] = NoOne]
        /\ NextContext
        /\ UNCHANGED <<args, need_alarm_sem, pc, call, outcome, ret, disturbed>>

-----------------------------------------------------------------------------
\* what a thread does of its own accord; a failing wait is somebody else's signal
RunStep(t) ==
    \/ DirtyRead(t) \/ SpinLock(t) \/ RecheckIdle(t) \/ RecheckRep(t) \/ Submit(t) \/ TakeReply(t)
    \/ SemTake(t) \/ SemTimeout(t) \/ Finish(t)
ThreadStep(t) == RunStep(t) \/ SemError(t)
FsStep == FsScan \/ FsTryLock \/ FsRecheck \/ \E v \in Results : FsHandle(v)

Next ==
    \/ \E t \in Threads : ThreadStep(t) \/ \E k \in CallSet : Invoke(t, k)
    \/ \E p \in Procs : AlarmLock(p) \/ AlarmPost(p)
    \/ FsStep

Spec == Init /\ [][Next]_vars

(***************************************************************************)
(* The fstack instance polls for ever, and a thread that is inside a call  *)
(* keeps running, alarm_event_sem included; no thread has to make a call,  *)
(* and no signal has to come.                                              *)
(* A thread spinning on a spinlock that is free again and again gets it at *)
(* last (strong fairness): rte_spinlock_lock retries its compare-and-swap  *)
(* without pause, and the lock is free while fstack scans and while it is  *)
(* in the rest of its main loop.                                           *)
(***************************************************************************)
Fairness ==
    /\ WF_vars(FsStep)
    /\ \A t \in Threads : WF_vars(RunStep(t)) /\ SF_vars(SpinLock(t))
    /\ \A p \in Procs : WF_vars(AlarmPost(p))
FairSpec == Spec /\ Fairness

-----------------------------------------------------------------------------
TypeOK ==
    /\ status \in [Contexts -> {"IDLE", "REQ", "REP"}]
    /\ lock \in [Contexts -> Threads \cup Procs \cup {FStack, NoOne}]
    /\ args \in [Contexts -> Threads \cup {NoOne}]
    /\ result \in [Contexts -> ResultType]
    /\ sem \in [Contexts -> Nat]
    /\ need_alarm_sem \in [Procs -> BOOLEAN]
    /\ pc \in [Threads -> {"run", "idle_spin", "idle_lock", "idle_check", "idle_set",
                           "rep_spin", "rep_lock", "rep_check", "rep_take", "sem_wait", "done_lock", "done"}]
    /\ call \in [Threads -> CallSet]
    /\ changes \in [Threads -> BOOLEAN]
    /\ outcome \in [Threads -> {"none", "token", "timeout", "error"}]
    /\ ret \in [Threads -> ResultType]
    /\ fsPc \in {"scan", "try", "check", "handle"}
    /\ fsIdx \in Contexts
    /\ executed \in [Threads -> 0 .. 2]
    /\ applied \in [Threads -> 0 .. 2]
    /\ disturbed \in [Contexts -> 0 .. MaxDisturb]

\* t has published a request and has not given the context back
Owns(t) == pc[t] \in {"rep_spin", "rep_lock", "rep_check", "rep_take", "sem_wait",
                      "done_lock", "done"}

(***************************************************************************)
(* The IDLE/REQ/REP protocol gives a shared context to one call at a time: *)
(* a thread that waits for its answer finds its own request in the context *)
(* and the context in use, and a context in use always has such a thread   *)
(* (nobody else would ever set it to FF_SC_IDLE again).                    *)
(***************************************************************************)
SingleOwner ==
    /\ \A t \in Threads : Owns(t) => status[Ctx(t)] # "IDLE" /\ args[Ctx(t)] = t
    /\ \A c \in Contexts :
          status[c] # "IDLE" => \E t \in Threads : Ctx(t) = c /\ Owns(t)

(***************************************************************************)
(* The handler runs for a thread that is still waiting for it, from its    *)
(* check of the status to its last write: the argument block it works on   *)
(* is not one a returned call has left (epoll_wait and kevent return on a  *)
(* timeout without asking fstack).                                         *)
(***************************************************************************)
HandlerHasOwner ==
    fsPc = "handle" =>
        status[fsIdx] = "REQ" /\ args[fsIdx] \in Threads /\ Owns(args[fsIdx])

(***************************************************************************)
(* No lost wakeup: an answered thread that sleeps on the semaphore, or is  *)
(* about to, finds a token there, whatever other threads, processes and    *)
(* earlier timed-out calls did with the same semaphore.                    *)
(***************************************************************************)
NoLostWakeup ==
    \A t \in Threads :
        pc[t] = "sem_wait" /\ status[Ctx(t)] = "REP" => sem[Ctx(t)] > 0

(***************************************************************************)
(* A late sem_post after a timeout leaves a token behind, which lets a     *)
(* later wait return at once; such tokens do not pile up: at rest there is *)
(* at most one more than there were inherited tokens, alarms and failed    *)
(* waits.                                                                  *)
(***************************************************************************)
TokensBounded ==
    \A c \in Contexts :
        sem[c] <= disturbed[c] + IF status[c] = "REP" THEN 2 ELSE 1

(***************************************************************************)
(* need_alarm_sem is set only while a thread of the process is in a wait   *)
(* without time limit, so alarm_event_sem posts only to a waiting thread.  *)
(***************************************************************************)
AlarmHasSleeper ==
    \A p \in Procs : need_alarm_sem[p] =>
        \E t \in Threads : /\ ProcOf[t] = p
                           /\ pc[t] \in {"sem_wait", "done_lock", "done"}
                           /\ Blocking(call[t])

(***************************************************************************)
(* kevent's change list is applied at most once, although a request that   *)
(* finds no event is executed again in every round.                        *)
(***************************************************************************)
ChangesOnce == \A t \in Threads : applied[t] <= 1

ReturnsOwn ==
    \A t \in Threads :
        /\ pc[t] = "rep_take" /\ pc'[t] # pc[t] =>
               /\ ret'[t].by = t
               /\ executed[t] >= 1
               /\ call[t].op = "syscall" => executed[t] = 1
        /\ pc[t] = "done" /\ pc'[t] # pc[t] /\ outcome[t] = "token" =>
               ret'[t].val = 0 \/ (ret'[t].by = t /\ executed[t] >= 1)

(***************************************************************************)
(* What a call returns is its own: a SYSCALL returns the result of the one *)
(* execution of its request, and an event count or an error that comes     *)
(* from the context was computed for this very submission, even when the   *)
(* wait was ended by a token of an earlier call.                           *)
(***************************************************************************)
OwnReply == [][ReturnsOwn]_vars

\* The refinement mapping
servingBar == [c \in Contexts |-> IF status[c] = "IDLE" THEN NoOne ELSE args[c]]
eventBar == [t \in Threads |-> Owns(t) /\ IsEvent(call[t])]
answerBar == [t \in Threads |-> IF Owns(t) /\ executed[t] > 0 THEN result[Ctx(t)].val ELSE NoOne]
gotBar == [t \in Threads |-> ret[t].val]
Rpc == INSTANCE SyscallRpc WITH
    ContextOf <- [t \in Threads |-> Ctx(t)],
    serving <- servingBar, event <- eventBar, answer <- answerBar, got <- gotBar

(***************************************************************************)
(* The protocol implements the abstract service: the thread served is the  *)
(* one whose request is in a context that is not FF_SC_IDLE.               *)
(***************************************************************************)
ImplementsRpc == Rpc!Spec

(***************************************************************************)
(* A submitted SYSCALL gives the context back, whoever else uses it; so do *)
(* an event wait with a time limit and one that has been answered.         *)
(***************************************************************************)
CallCompletes ==
    \A t \in Threads :
        (Owns(t) /\ (~IsEvent(call[t]) \/ ~Blocking(call[t]) \/ status[Ctx(t)] = "REP"))
            ~> ~Owns(t)

\* alarm_event_sem gets a kevent out of its wait without time limit.
AlarmWakes ==
    \A t \in Threads :
        (pc[t] = "sem_wait" /\ lock[Ctx(t)] = ProcOf[t] /\ need_alarm_sem[ProcOf[t]]
             /\ call[t].op = "kevent")
            ~> (pc[t] = "run")
=============================================================================
