----------------------------- MODULE SoContext ------------------------------
(***************************************************************************)
(* The zone of ff_so_context structures that application processes and the *)
(* fstack instance share: processes attach a context when they first use   *)
(* the adapter, share it with the children they fork, and detach it when   *)
(* they exit, while fstack goes round the attached contexts holding the    *)
(* zone lock.  SemIpc models what happens inside one attached context.     *)
(*                                                                         *)
(* An operator BugX is a slip somebody could make in X; no action uses it: *)
(* it stands in for X when a property is tried for its strength.           *)
(***************************************************************************)
EXTENDS Integers, FiniteSets

CONSTANTS
    Count,          \* ff_max_so_context, contexts of the zone
    Procs,          \* process slots: a slot is reused after the process has ended
    ThreadHandle,   \* FF_USE_THREAD_STRUCT_HANDLE: a forked child has its own context
    MaxRef,         \* bound: references to a context
    MaxKills,       \* bound: processes that end without running ff_adapter_exit
    FStack, NoOne

Contexts == 0 .. Count - 1

ASSUME CountAssumption == Count \in {1, 2, 4, 8, 16, 32}
ASSUME ProcsAssumption == IsFiniteSet(Procs)
ASSUME FlagAssumption == ThreadHandle \in BOOLEAN /\ MaxKills \in Nat /\ MaxRef \in Nat
ASSUME NamesAssumption ==
    FStack \notin Procs /\ NoOne \notin Procs \cup Contexts \cup {FStack}

VARIABLES
    zlock,                     \* ff_so_zone->lock
    free, idx, inuse,          \* the zone's fields of these names
    lock, refcount, forking,   \* per context: sc->lock, sc->refcount, sc->forking
    pc, sc,                    \* per process: where it is, its variable sc
    parent_sc,                 \* the forked child's local of this name
    child,                     \* history: the child a forking parent waits for
    fsPc, tmp,                 \* ff_handle_each_context and its local tmp
    kills                      \* how many processes were killed

zoneVars == <<free, idx, inuse>>
scVars   == <<lock, refcount, forking>>
procVars == <<pc, sc, parent_sc, child>>
fsVars   == <<fsPc, tmp>>
vars == <<zlock, zoneVars, scVars, procVars, fsVars, kills>>

Live(p) == pc[p] # "none"
InUse == {c \in Contexts : inuse[c]}
Holders(c) == {p \in Procs : sc[p] = c}

-----------------------------------------------------------------------------
Init ==
    /\ zlock = NoOne
    /\ free = Count
    /\ idx = 0
    /\ inuse = [c \in Contexts |-> FALSE]
    /\ lock = [c \in Contexts |-> NoOne]
    /\ refcount = [c \in Contexts |-> 0]
    /\ forking = [c \in Contexts |-> FALSE]
    /\ pc = [p \in Procs |-> "none"]
    /\ sc = [p \in Procs |-> NoOne]
    /\ parent_sc = [p \in Procs |-> NoOne]
    /\ child = [p \in Procs |-> NoOne]
    /\ fsPc = "out"
    /\ tmp = 0
    /\ kills = 0

(***************************************************************************)
(* ff_attach_so_context takes the first free context at or after idx.  The *)
(* body runs under the zone lock and is one step: it is enabled when the   *)
(* lock can be taken, and leaves it free.                                  *)
(***************************************************************************)
Slot(i) == (idx + i) % Count
BugFirstFree == CHOOSE i \in Contexts : ~inuse[Slot(i + 1)]
FirstFree == CHOOSE i \in Contexts :
    ~inuse[Slot(i)] /\ \A j \in 0 .. i - 1 : inuse[Slot(j)]

CanAttach == free # 0 /\ InUse # Contexts

BugFreeOnAttach(c) == free
FreeOnAttach(c) == free - 1

TakeContext(c) ==
    /\ inuse' = [inuse EXCEPT ![c] = TRUE]
    /\ lock' = [lock EXCEPT ![c] = NoOne]
    /\ refcount' = [refcount EXCEPT ![c] = 1]
    /\ free' = FreeOnAttach(c)
    /\ idx' = c + 1
    /\ UNCHANGED forking

\* A process uses a hooked socket call for the first time: ff_adapter_init.
Start(p) ==
    /\ pc[p] = "none"
    /\ pc' = [pc EXCEPT ![p] = "attach"]
    /\ UNCHANGED <<zlock, zoneVars, scVars, sc, parent_sc, child, fsVars, kills>>

\* ff_adapter_init, and ff_adapter_child_process_init in a forked child; where every
\* process has a thread handle, fstack is then asked for one
Attach(p) ==
    LET c == Slot(FirstFree)
    IN  /\ pc[p] \in {"attach", "child_attach"}
        /\ zlock = NoOne
        /\ CanAttach
        /\ TakeContext(c)
        /\ sc' = [sc EXCEPT ![p] = c]
        /\ pc' = [pc EXCEPT ![p] = IF pc[p] = "child_attach" THEN "child_call"
                                   ELSE IF ThreadHandle THEN "reg_call" ELSE "run"]
        /\ UNCHANGED <<zlock, parent_sc, child, fsVars, kills>>

\* No context is free.  ff_adapter_init returns -1 and the process stays without a
\* context; a forked child goes on with sc == NULL, and SYSCALL dereferences it.
AttachFails(p) ==
    /\ pc[p] \in {"attach", "child_attach"}
    /\ zlock = NoOne
    /\ ~CanAttach
    /\ sc' = [sc EXCEPT ![p] = NoOne]
    /\ pc' = [pc EXCEPT ![p] = IF pc[p] = "attach" THEN "run" ELSE "none"]
    /\ UNCHANGED <<zlock, zoneVars, scVars, parent_sc, child, fsVars, kills>>

(***************************************************************************)
(* ff_hook_fork: the parent holds its context's lock from before the fork  *)
(* until the reference is counted (and the child has its own context, when *)
(* every process has a thread handle).                                     *)
(***************************************************************************)
ForkLock(p) ==
    /\ pc[p] = "run"
    /\ sc[p] # NoOne
    /\ lock[sc[p]] = NoOne
    /\ refcount[sc[p]] < MaxRef
    /\ lock' = [lock EXCEPT ![sc[p]] = p]
    /\ pc' = [pc EXCEPT ![p] = "fork"]
    /\ UNCHANGED <<zlock, zoneVars, refcount, forking, sc, parent_sc, child, fsVars, kills>>

\* ff_linux_fork: the child q starts with a copy of the variable sc
Fork(p, q) ==
    /\ pc[p] = "fork"
    /\ pc[q] = "none"
    /\ pc' = [pc EXCEPT ![p] = "forked", ![q] = IF ThreadHandle THEN "child_attach" ELSE "run"]
    /\ sc' = [sc EXCEPT ![q] = IF ThreadHandle THEN NoOne ELSE sc[p]]
    /\ parent_sc' = [parent_sc EXCEPT ![q] = IF ThreadHandle THEN sc[p] ELSE NoOne]
    /\ child' = [child EXCEPT ![p] = q]
    /\ UNCHANGED <<zlock, zoneVars, scVars, fsVars, kills>>

\* A process without a context forks without locking anything.
ForkNoContext(p, q) ==
    /\ pc[p] = "run" /\ sc[p] = NoOne
    /\ pc[q] = "none"
    /\ pc' = [pc EXCEPT ![q] = "run"]
    /\ UNCHANGED <<zlock, zoneVars, scVars, sc, parent_sc, child, fsVars, kills>>

ForkFails(p) ==
    /\ pc[p] = "fork"
    /\ lock' = [lock EXCEPT ![sc[p]] = NoOne]
    /\ pc' = [pc EXCEPT ![p] = "run"]
    /\ UNCHANGED <<zlock, zoneVars, refcount, forking, sc, parent_sc, child, fsVars, kills>>

BugRefAfterFork(c) == refcount[c]
RefAfterFork(c) == refcount[c] + 1

\* In the parent, after ff_linux_fork has returned the child's pid
ForkParent(p) ==
    /\ pc[p] = "forked"
    /\ refcount' = [refcount EXCEPT ![sc[p]] = RefAfterFork(sc[p])]
    /\ IF ThreadHandle
       THEN /\ forking' = [forking EXCEPT ![sc[p]] = TRUE]
            /\ pc' = [pc EXCEPT ![p] = "fork_spin"]
            /\ UNCHANGED <<lock, child>>
       ELSE /\ lock' = [lock EXCEPT ![sc[p]] = NoOne]
            /\ pc' = [pc EXCEPT ![p] = "run"]
            /\ child' = [child EXCEPT ![p] = NoOne]
            /\ UNCHANGED forking
    /\ UNCHANGED <<zlock, zoneVars, sc, parent_sc, fsVars, kills>>

BugScLockAfterFork(c) == lock[c]
ScLockAfterFork(c) == NoOne

ForkSpinEnds(p) ==
    /\ pc[p] = "fork_spin"
    /\ ~forking[sc[p]]
    /\ lock' = [lock EXCEPT ![sc[p]] = ScLockAfterFork(sc[p])]
    /\ pc' = [pc EXCEPT ![p] = "run"]
    /\ child' = [child EXCEPT ![p] = NoOne]
    /\ UNCHANGED <<zlock, zoneVars, refcount, forking, sc, parent_sc, fsVars, kills>>

\* fstack has served the child's FF_SO_FORK: the parent may go on
ChildDone(q) ==
    /\ pc[q] = "child_served"
    /\ forking' = [forking EXCEPT ![parent_sc[q]] = FALSE]
    /\ parent_sc' = [parent_sc EXCEPT ![q] = NoOne]
    /\ pc' = [pc EXCEPT ![q] = "run"]
    /\ UNCHANGED <<zlock, zoneVars, lock, refcount, sc, child, fsVars, kills>>

(***************************************************************************)
(* The end of a process: ff_adapter_exit calls ff_detach_so_context, which *)
(* takes the zone lock and then the context's.                             *)
(***************************************************************************)
Exit(p) ==
    /\ pc[p] = "run"
    /\ pc' = [pc EXCEPT ![p] = IF sc[p] = NoOne THEN "none"
                               ELSE IF ThreadHandle THEN "exit_call" ELSE "exit_zone"]
    /\ UNCHANGED <<zlock, zoneVars, scVars, sc, parent_sc, child, fsVars, kills>>

DetachZoneLock(p) ==
    /\ pc[p] = "exit_zone"
    /\ zlock = NoOne
    /\ zlock' = p
    /\ pc' = [pc EXCEPT ![p] = "exit_sc"]
    /\ UNCHANGED <<zoneVars, scVars, sc, parent_sc, child, fsVars, kills>>

\* The context goes back to the pool with its last reference.
BugLastRef(c) == TRUE
BugLastRefZero(c) == refcount[c] < 1
LastRef(c) == refcount[c] <= 1
BugFreeOnDetach(c) == free
FreeOnDetach(c) == IF inuse[c] THEN free + 1 ELSE free
ZoneLockAfterDetach(c) == NoOne

\* Under both locks; both are free afterwards and the process is gone
Detach(p) ==
    LET c == sc[p]
    IN  /\ pc[p] = "exit_sc"
        /\ lock[c] = NoOne
        /\ IF ~LastRef(c)
           THEN refcount' = [refcount EXCEPT ![c] = @ - 1] /\ UNCHANGED zoneVars
           ELSE /\ inuse' = [inuse EXCEPT ![c] = FALSE]
                /\ free' = FreeOnDetach(c)
                /\ idx' = IF inuse[c] THEN c ELSE idx
                /\ UNCHANGED refcount
        /\ zlock' = ZoneLockAfterDetach(c)
        /\ sc' = [sc EXCEPT ![p] = NoOne]
        /\ pc' = [pc EXCEPT ![p] = "none"]
        /\ UNCHANGED <<lock, forking, parent_sc, child, fsVars, kills>>

\* A process is killed outside the adapter: nothing is detached.
Kill(p) ==
    /\ pc[p] = "run"
    /\ kills < MaxKills
    /\ kills' = kills + 1
    /\ pc' = [pc EXCEPT ![p] = "none"]
    /\ sc' = [sc EXCEPT ![p] = NoOne]
    /\ UNCHANGED <<zlock, zoneVars, scVars, parent_sc, child, fsVars>>

(***************************************************************************)
(* ff_handle_each_context: it counts the contexts in use once, goes round  *)
(* as many of them until its time is up, and opens a window in the lock    *)
(* only when there were none.                                              *)
(***************************************************************************)
FsEnter ==
    /\ fsPc = "out"
    /\ zlock = NoOne
    /\ zlock' = FStack
    /\ tmp' = Count - free
    /\ fsPc' = "drain"
    /\ UNCHANGED <<zoneVars, scVars, procVars, kills>>

\* The loop over the contexts visits the first tmp that are in use.
Visited == {c \in InUse : Cardinality({d \in InUse : d < c}) < tmp}

\* A visited context with a request is served; only the calls that move a process
\* through this module are followed here.
FsServe(p) ==
    /\ fsPc = "drain"
    /\ pc[p] \in {"reg_call", "child_call", "exit_call"}
    /\ sc[p] \in Visited
    /\ lock[sc[p]] = NoOne
    /\ pc' = [pc EXCEPT ![p] = CASE pc[p] = "reg_call" -> "run"
                                 [] pc[p] = "child_call" -> "child_served"
                                 [] pc[p] = "exit_call" -> "exit_zone"]
    /\ UNCHANGED <<zlock, zoneVars, scVars, sc, parent_sc, child, fsVars, kills>>

BugIdleRound == TRUE
BugNeverIdle == FALSE
IdleRound == tmp = 0

FsWindow ==
    /\ fsPc = "drain"
    /\ IdleRound
    /\ zlock' = NoOne
    /\ fsPc' = "window"
    /\ UNCHANGED <<zoneVars, scVars, procVars, tmp, kills>>

FsRelock ==
    /\ fsPc = "window"
    /\ zlock = NoOne
    /\ zlock' = FStack
    /\ fsPc' = "drain"
    /\ UNCHANGED <<zoneVars, scVars, procVars, tmp, kills>>

FsLeave ==
    /\ fsPc = "drain"
    /\ zlock' = NoOne
    /\ fsPc' = "out"
    /\ UNCHANGED <<zoneVars, scVars, procVars, tmp, kills>>

-----------------------------------------------------------------------------
ProcStep(p) ==
    \/ Attach(p) \/ AttachFails(p) \/ ForkFails(p) \/ ForkParent(p) \/ ForkSpinEnds(p)
    \/ ChildDone(p) \/ DetachZoneLock(p) \/ Detach(p) \/ \E q \in Procs : Fork(p, q)
\* the steps that begin with rte_spinlock_lock
SpinStep(p) == Attach(p) \/ AttachFails(p) \/ DetachZoneLock(p) \/ Detach(p)
FsStep == FsEnter \/ FsWindow \/ FsRelock \/ FsLeave

Next ==
    \/ \E p \in Procs : Start(p) \/ ForkLock(p) \/ Exit(p) \/ Kill(p) \/ ProcStep(p) \/ FsServe(p)
    \/ \E p, q \in Procs : ForkNoContext(p, q)
    \/ FsStep

Spec == Init /\ [][Next]_vars

(***************************************************************************)
(* A process inside the adapter keeps running, and fstack keeps calling    *)
(* ff_handle_each_context, whose drain time runs out and is longer than    *)
(* one idle round (pkt_tx_delay is not 0).  rte_spinlock promises nothing  *)
(* to a process that waits for the zone lock, so nothing is assumed of the *)
(* gap between two calls; the window exists to let a waiting attach in,    *)
(* and one that meets it again and again gets the lock there.              *)
(***************************************************************************)
Fairness ==
    /\ WF_vars(FsStep) /\ SF_vars(FsLeave) /\ SF_vars(FsWindow)
    /\ \A p \in Procs :
          /\ WF_vars(ProcStep(p)) /\ SF_vars(FsServe(p))
          /\ SF_vars(fsPc = "window" /\ (Attach(p) \/ AttachFails(p)))
FairSpec == Spec /\ Fairness

-----------------------------------------------------------------------------
TypeOK ==
    /\ zlock \in Procs \cup {FStack, NoOne}
    /\ free \in 0 .. Count
    /\ idx \in 0 .. Count
    /\ inuse \in [Contexts -> BOOLEAN]
    /\ lock \in [Contexts -> Procs \cup {NoOne}]
    /\ refcount \in [Contexts -> Nat]
    /\ forking \in [Contexts -> BOOLEAN]
    /\ pc \in [Procs -> {"none", "attach", "reg_call", "run", "fork", "forked", "fork_spin",
                         "child_attach", "child_call", "child_served",
                         "exit_call", "exit_zone", "exit_sc"}]
    /\ sc \in [Procs -> Contexts \cup {NoOne}]
    /\ parent_sc \in [Procs -> Contexts \cup {NoOne}]
    /\ child \in [Procs -> Procs \cup {NoOne}]
    /\ fsPc \in {"out", "drain", "window"}
    /\ tmp \in 0 .. Count
    /\ kills \in 0 .. MaxKills

(***************************************************************************)
(* The zone's counter agrees with the flags it summarises, so the branch   *)
(* that logs "fetel error of so status" is dead and fstack's assertion     *)
(* count >= free holds.                                                    *)
(***************************************************************************)
FreeMatches == free = Count - Cardinality(InUse)

(***************************************************************************)
(* A live process's context stays attached until that process detaches it: *)
(* an exiting parent, child or stranger never puts it back into the pool,  *)
(* where ff_attach_so_context would hand it to somebody else.              *)
(***************************************************************************)
HeldInUse == \A p \in Procs : sc[p] # NoOne => Live(p) /\ inuse[sc[p]]

\* p has forked and not counted its child yet
ForkPending(c) == \E p \in Procs : pc[p] = "forked" /\ sc[p] = c

(***************************************************************************)
(* The reference count covers the processes that hold the context, except  *)
(* for a child just forked: its parent still has the context's lock, which *)
(* keeps the child from detaching before it is counted.                    *)
(***************************************************************************)
RefCovers ==
    \A c \in Contexts :
        Cardinality(Holders(c)) <= IF ~inuse[c] THEN 0
                                   ELSE refcount[c] + (IF ForkPending(c) THEN 1 ELSE 0)

(***************************************************************************)
(* A context nobody holds is back in the pool, unless a process was killed *)
(* (or every process has a thread handle: a parent's reference count then  *)
(* also counts children that have contexts of their own).                  *)
(***************************************************************************)
NoLeak ==
    kills = 0 /\ ~ThreadHandle => \A c \in Contexts : inuse[c] => Holders(c) # {}

(***************************************************************************)
(* A round of fstack that counted any context in use visits all of them,   *)
(* although it counts once and stops after that many: nobody can attach or *)
(* detach before it gives the zone lock back.                              *)
(***************************************************************************)
ScanComplete == fsPc = "drain" /\ tmp # 0 => Visited = InUse

(***************************************************************************)
(* "Loop until child fork done": a parent that waits for its child waits   *)
(* for a child that has not finished its part of the fork yet.             *)
(***************************************************************************)
LoopUntilChildForkDone ==
    \A p \in Procs : pc[p] = "fork_spin" /\ forking[sc[p]] =>
        pc[child[p]] \in {"child_attach", "child_call", "child_served"}

(***************************************************************************)
(* While no context is in use, an attaching process is not starved of the  *)
(* zone lock that fstack takes again at once: it gets it in the window, or *)
(* somebody else does.  And ff_adapter_init, once attached, gets its       *)
(* registration served: the new context is visited in a later call.        *)
(***************************************************************************)
AttachReturns ==
    \A p \in Procs :
        /\ (pc[p] = "attach" /\ InUse = {}) ~> (pc[p] # "attach" \/ InUse # {})
        /\ (pc[p] = "reg_call") ~> (pc[p] # "reg_call")

(***************************************************************************)
(* A process that exits ends: ff_detach_so_context waits for the zone lock *)
(* and then, holding it, for the lock of the context; a forking process    *)
(* holds a context's lock while its child waits for the zone lock.  This   *)
(* is about locks never given back and waits in a circle, not about        *)
(* starvation, so spinning processes are taken to get a lock that is free  *)
(* again and again.                                                        *)
(***************************************************************************)
ExitCompletes ==
    (\A p \in Procs : SF_vars(SpinStep(p)))
    => \A p \in Procs : (pc[p] \in {"exit_call", "exit_zone"}) ~> (pc[p] = "none")
=============================================================================
