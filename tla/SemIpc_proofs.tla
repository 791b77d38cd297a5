--------------------------- MODULE SemIpc_proofs ----------------------------
(* Proofs about SemIpc for any number of contexts, processes and threads. *)
EXTENDS SemIpc, TLAPS

(***************************************************************************)
(* The inductive invariant.  A thread holds the spinlock of its context    *)
(* exactly while it is between rte_spinlock_lock and _unlock, and so does  *)
(* fstack; alarm_event_sem holds only the lock of its process's context.   *)
(***************************************************************************)
Holds(t) == pc[t] \in {"idle_check", "idle_set", "rep_check", "rep_take", "done"}

LockInv ==
    /\ \A t \in Threads : Holds(t) <=> lock[Ctx(t)] = t
    /\ \A c \in Contexts : lock[c] = FStack <=> fsPc \in {"check", "handle"} /\ fsIdx = c

\* What was read under the lock stays true until the lock is released.
StatusInv ==
    /\ \A t \in Threads : pc[t] = "idle_set" => status[Ctx(t)] = "IDLE"
    /\ \A t \in Threads : pc[t] = "rep_take" => status[Ctx(t)] = "REP"
    /\ fsPc = "handle" => status[fsIdx] = "REQ"

\* Only the calls that sleep wait on the semaphore.
WaitInv ==
    \A t \in Threads :
        /\ pc[t] \in {"sem_wait", "done_lock", "done"} => Sleeps(call[t])
        /\ pc[t] \in {"rep_spin", "rep_lock", "rep_check", "rep_take"} => ~Sleeps(call[t])

Inv == TypeOK /\ LockInv /\ StatusInv /\ SingleOwner /\ WaitInv

-----------------------------------------------------------------------------
USE DEF Contexts

\* The variables of processes and threads lead to contexts of the zone.
LEMMA CtxType ==
    /\ \A t \in Threads : ProcOf[t] \in Procs /\ Ctx(t) \in Contexts
    /\ \A p \in Procs : CtxOf[p] \in Contexts
BY ProcAssumption DEF Ctx

\* fstack's index stays in the zone.
LEMMA NextIdx == ASSUME NEW i \in Contexts PROVE (i + 1) % NCtx \in Contexts
BY NCtxAssumption, SMT

\* The zone starts with every variable in its type.
LEMMA InitType == Init => TypeOK
<1> SUFFICES ASSUME Init PROVE TypeOK  OBVIOUS
<1>1. AnyCall \in CallSet  BY CallAssumption DEF AnyCall
<1>2. 0 \in Contexts  BY NCtxAssumption
<1> QED  BY <1>1, <1>2, BoundAssumption DEF Init, TypeOK, NoResult, ResultType, Results

\* A handler works for a thread.
LEMMA HandlerOwner == Inv => HandlerHasOwner
<1> SUFFICES ASSUME Inv, fsPc = "handle"
             PROVE  status[fsIdx] = "REQ" /\ args[fsIdx] \in Threads /\ Owns(args[fsIdx])
  BY DEF HandlerHasOwner
<1>1. fsIdx \in Contexts /\ status[fsIdx] = "REQ"  BY DEF Inv, TypeOK, StatusInv
<1>2. PICK t \in Threads : Ctx(t) = fsIdx /\ Owns(t)  BY <1>1 DEF Inv, SingleOwner
<1> QED  BY <1>1, <1>2 DEF Inv, SingleOwner

\* Every action keeps the types, given that the handler works for a thread.
LEMMA StepType == TypeOK /\ HandlerHasOwner /\ [Next]_vars => TypeOK'
<1> SUFFICES ASSUME TypeOK, HandlerHasOwner, [Next]_vars PROVE TypeOK'  OBVIOUS
<1> USE CtxType DEF TypeOK, scVars, threadVars, fsVars, history
<1>1. ASSUME NEW t \in Threads, NEW k \in CallSet, Invoke(t, k) PROVE TypeOK'
  <2>1. k.chg \in BOOLEAN  BY CallAssumption DEF Calls
  <2> QED  BY <1>1, <2>1 DEF Invoke, NoResult, ResultType, Results
<1>2. ASSUME NEW t \in Threads, DirtyRead(t) PROVE TypeOK'
  BY <1>2 DEF DirtyRead
<1>3. ASSUME NEW t \in Threads, SpinLock(t) PROVE TypeOK'
  BY <1>3 DEF SpinLock
<1>4. ASSUME NEW t \in Threads, RecheckIdle(t) PROVE TypeOK'
  BY <1>4 DEF RecheckIdle, Recheck
<1>5. ASSUME NEW t \in Threads, RecheckRep(t) PROVE TypeOK'
  BY <1>5 DEF RecheckRep, Recheck
<1>6. ASSUME NEW t \in Threads, Submit(t) PROVE TypeOK'
  BY <1>6 DEF Submit, ResultBefore, NoResult, ResultType, Results
<1>7. ASSUME NEW t \in Threads, TakeReply(t) PROVE TypeOK'
  BY <1>7 DEF TakeReply
<1>8. ASSUME NEW t \in Threads, SemTake(t) PROVE TypeOK'
  BY <1>8 DEF SemTake, HasToken
<1>9. ASSUME NEW t \in Threads, SemTimeout(t) PROVE TypeOK'
  BY <1>9 DEF SemTimeout
<1>10. ASSUME NEW t \in Threads, SemError(t) PROVE TypeOK'
  <2>1. disturbed' \in [Contexts -> 0 .. MaxDisturb]  BY <1>10, BoundAssumption DEF SemError
  <2> QED  BY <1>10, <2>1 DEF SemError
<1>11. ASSUME NEW t \in Threads, Finish(t) PROVE TypeOK'
  BY <1>11 DEF Finish, AlarmAfter, StatusAfter, NoResult, ResultType, Results
<1>12. ASSUME NEW p \in Procs, AlarmLock(p) PROVE TypeOK'
  <2>1. disturbed' \in [Contexts -> 0 .. MaxDisturb]  BY <1>12, BoundAssumption DEF AlarmLock
  <2> QED  BY <1>12, <2>1 DEF AlarmLock
<1>13. ASSUME NEW p \in Procs, AlarmPost(p) PROVE TypeOK'
  BY <1>13 DEF AlarmPost
<1>14. CASE FsScan
  BY <1>14, NextIdx DEF FsScan, NextContext
<1>15. CASE FsTryLock
  BY <1>15, NextIdx DEF FsTryLock, NextContext
<1>16. CASE FsRecheck
  BY <1>16, NextIdx DEF FsRecheck, NextContext
<1>17. ASSUME NEW v \in Results, FsHandle(v) PROVE TypeOK'
  <2> DEFINE t == args[fsIdx]
  <2>1. t \in Threads  BY <1>17 DEF HandlerHasOwner, FsHandle
  <2>2. \A n \in 0 .. 2 : Saturate(n) \in 0 .. 2  BY DEF Saturate
  <2>3. executed' \in [Threads -> 0 .. 2] /\ applied' \in [Threads -> 0 .. 2]
    BY <1>17, <2>1, <2>2 DEF FsHandle
  <2>4. fsPc' \in {"scan", "try", "check", "handle"} /\ fsIdx' \in Contexts
    BY <1>17, NextIdx DEF FsHandle, NextContext
  <2>5. result' \in [Contexts -> ResultType]
    BY <1>17, <2>1 DEF FsHandle, ResultType
  <2>6. status' \in [Contexts -> {"IDLE", "REQ", "REP"}] /\ sem' \in [Contexts -> Nat]
    <3>1. status' = [status EXCEPT ![fsIdx] = "REP"] \/ status' = status
      BY <1>17 DEF FsHandle
    <3>2. sem' = [sem EXCEPT ![fsIdx] = @ + 1] \/ sem' = sem
      BY <1>17 DEF FsHandle
    <3>3. status' \in [Contexts -> {"IDLE", "REQ", "REP"}]  BY <3>1
    <3>4. sem' \in [Contexts -> Nat]  BY <3>2
    <3> QED  BY <3>3, <3>4
  <2>7. changes' \in [Threads -> BOOLEAN]  BY <1>17 DEF FsHandle, ChangesAfter
  <2>8. lock' \in [Contexts -> Threads \cup Procs \cup {FStack, NoOne}]  BY <1>17 DEF FsHandle
  <2>9. UNCHANGED <<args, need_alarm_sem, pc, call, outcome, ret, disturbed>>
    BY <1>17 DEF FsHandle
  <2> QED  BY <2>3, <2>4, <2>5, <2>6, <2>7, <2>8, <2>9
<1>18. CASE UNCHANGED vars
  BY <1>18 DEF vars
<1> QED
  BY <1>1, <1>2, <1>3, <1>4, <1>5, <1>6, <1>7, <1>8, <1>9, <1>10, <1>11, <1>12, <1>13,
     <1>14, <1>15, <1>16, <1>17, <1>18 DEF Next, ThreadStep, RunStep, FsStep

\* Spinlock, recheck and trylock keep LockInv: who is between lock and unlock holds the lock.
LEMMA StepLock == Inv /\ [Next]_vars => LockInv'
<1> SUFFICES ASSUME Inv, [Next]_vars PROVE LockInv'  OBVIOUS
<1> USE CtxType, NameAssumption
        DEF Inv, TypeOK, scVars, threadVars, fsVars, history, Ctx, LockInv, Holds
<1>1. ASSUME NEW t \in Threads, NEW k \in CallSet, Invoke(t, k) PROVE LockInv'
  BY <1>1 DEF Invoke
<1>2. ASSUME NEW t \in Threads, DirtyRead(t) PROVE LockInv'
  BY <1>2 DEF DirtyRead
<1>3. ASSUME NEW t \in Threads, SpinLock(t) PROVE LockInv'
  BY <1>3 DEF SpinLock
<1>4. ASSUME NEW t \in Threads, RecheckIdle(t) PROVE LockInv'
  <2>1. CASE StillIs(Ctx(t), "IDLE")  BY <1>4, <2>1 DEF RecheckIdle, Recheck
  <2>2. CASE ~StillIs(Ctx(t), "IDLE")
    <3>1. /\ Holds(t) /\ pc' = [pc EXCEPT ![t] = "idle_spin"]
          /\ lock' = [lock EXCEPT ![Ctx(t)] = NoOne] /\ UNCHANGED <<fsPc, fsIdx>>
      BY <1>4, <2>2 DEF RecheckIdle, Recheck
    <3> QED  BY <3>1, SMTT(60)
  <2> QED  BY <2>1, <2>2
<1>5. ASSUME NEW t \in Threads, RecheckRep(t) PROVE LockInv'
  <2>1. CASE StillIs(Ctx(t), "REP")  BY <1>5, <2>1 DEF RecheckRep, Recheck
  <2>2. CASE ~StillIs(Ctx(t), "REP")
    <3>1. /\ Holds(t) /\ pc' = [pc EXCEPT ![t] = "rep_spin"]
          /\ lock' = [lock EXCEPT ![Ctx(t)] = NoOne] /\ UNCHANGED <<fsPc, fsIdx>>
      BY <1>5, <2>2 DEF RecheckRep, Recheck
    <3>2. \A u \in Threads : (Holds(u) <=> lock[Ctx(u)] = u)'  BY <3>1
    <3>3. \A c \in Contexts : (lock[c] = FStack <=> fsPc \in {"check", "handle"} /\ fsIdx = c)'
      BY <3>1
    <3> QED  BY <3>2, <3>3
  <2> QED  BY <2>1, <2>2
<1>6. ASSUME NEW t \in Threads, Submit(t) PROVE LockInv'
  BY <1>6 DEF Submit
<1>7. ASSUME NEW t \in Threads, TakeReply(t) PROVE LockInv'
  BY <1>7 DEF TakeReply
<1>8. ASSUME NEW t \in Threads, SemTake(t) PROVE LockInv'
  BY <1>8 DEF SemTake
<1>9. ASSUME NEW t \in Threads, SemTimeout(t) PROVE LockInv'
  <2>1. /\ pc[t] = "sem_wait" /\ pc' = [pc EXCEPT ![t] = "done_lock"]
        /\ UNCHANGED <<lock, fsPc, fsIdx>>
    BY <1>9 DEF SemTimeout
  <2> QED  BY <2>1
<1>10. ASSUME NEW t \in Threads, SemError(t) PROVE LockInv'
  BY <1>10 DEF SemError
<1>11. ASSUME NEW t \in Threads, Finish(t) PROVE LockInv'
  BY <1>11 DEF Finish, StatusAfter
<1>12. ASSUME NEW p \in Procs, AlarmLock(p) PROVE LockInv'
  BY <1>12 DEF AlarmLock
<1>13. ASSUME NEW p \in Procs, AlarmPost(p) PROVE LockInv'
  BY <1>13 DEF AlarmPost
<1>14. CASE FsScan
  BY <1>14 DEF FsScan, NextContext
<1>15. CASE FsTryLock
  <2>1. CASE lock[fsIdx] = NoOne
    <3>1. /\ lock' = [lock EXCEPT ![fsIdx] = FStack] /\ UNCHANGED <<pc, fsIdx>>
          /\ fsPc = "try" /\ fsPc' = "check"
      BY <1>15, <2>1 DEF FsTryLock
    <3> QED  BY <2>1, <3>1
  <2>2. CASE lock[fsIdx] # NoOne  BY <1>15, <2>2 DEF FsTryLock, NextContext
  <2> QED  BY <2>1, <2>2
<1>16. CASE FsRecheck
  <2>1. CASE status[fsIdx] = "REQ"  BY <1>16, <2>1 DEF FsRecheck
  <2>2. CASE status[fsIdx] # "REQ"
    <3>1. /\ lock' = [lock EXCEPT ![fsIdx] = NoOne] /\ UNCHANGED pc
          /\ fsPc = "check" /\ fsPc' = "scan"
      BY <1>16, <2>2 DEF FsRecheck, NextContext
    <3>2. \A u \in Threads : (Holds(u) <=> lock[Ctx(u)] = u)'  BY <3>1
    <3>3. \A c \in Contexts : (lock[c] = FStack <=> fsPc \in {"check", "handle"} /\ fsIdx = c)'
      BY <3>1
    <3> QED  BY <3>2, <3>3
  <2> QED  BY <2>1, <2>2
<1>17. ASSUME NEW v \in Results, FsHandle(v) PROVE LockInv'
  BY <1>17 DEF FsHandle, NextContext
<1>18. CASE UNCHANGED vars
  BY <1>18 DEF vars
<1> QED
  BY <1>1, <1>2, <1>3, <1>4, <1>5, <1>6, <1>7, <1>8, <1>9, <1>10, <1>11, <1>12, <1>13,
     <1>14, <1>15, <1>16, <1>17, <1>18 DEF Next, ThreadStep, RunStep, FsStep

\* What a lock holder has read of the status under the lock stays true until it unlocks.
LEMMA StepStatus == Inv /\ [Next]_vars => StatusInv'
<1> SUFFICES ASSUME Inv, [Next]_vars PROVE StatusInv'  OBVIOUS
<1> USE CtxType, NameAssumption
        DEF Inv, TypeOK, scVars, threadVars, fsVars, history, Ctx, LockInv, Holds, StatusInv
<1>1. ASSUME NEW t \in Threads, NEW k \in CallSet, Invoke(t, k) PROVE StatusInv'
  BY <1>1 DEF Invoke
<1>2. ASSUME NEW t \in Threads, DirtyRead(t) PROVE StatusInv'
  BY <1>2 DEF DirtyRead
<1>3. ASSUME NEW t \in Threads, SpinLock(t) PROVE StatusInv'
  BY <1>3 DEF SpinLock
<1>4. ASSUME NEW t \in Threads, RecheckIdle(t) PROVE StatusInv'
  BY <1>4 DEF RecheckIdle, Recheck, StillIs
<1>5. ASSUME NEW t \in Threads, RecheckRep(t) PROVE StatusInv'
  BY <1>5 DEF RecheckRep, Recheck, StillIs
<1>6. ASSUME NEW t \in Threads, Submit(t) PROVE StatusInv'
  BY <1>6 DEF Submit
<1>7. ASSUME NEW t \in Threads, TakeReply(t) PROVE StatusInv'
  BY <1>7 DEF TakeReply
<1>8. ASSUME NEW t \in Threads, SemTake(t) PROVE StatusInv'
  BY <1>8 DEF SemTake
<1>9. ASSUME NEW t \in Threads, SemTimeout(t) PROVE StatusInv'
  BY <1>9 DEF SemTimeout
<1>10. ASSUME NEW t \in Threads, SemError(t) PROVE StatusInv'
  BY <1>10 DEF SemError
<1>11. ASSUME NEW t \in Threads, Finish(t) PROVE StatusInv'
  BY <1>11 DEF Finish, StatusAfter
<1>12. ASSUME NEW p \in Procs, AlarmLock(p) PROVE StatusInv'
  BY <1>12 DEF AlarmLock
<1>13. ASSUME NEW p \in Procs, AlarmPost(p) PROVE StatusInv'
  BY <1>13 DEF AlarmPost
<1>14. CASE FsScan
  BY <1>14 DEF FsScan, NextContext
<1>15. CASE FsTryLock
  BY <1>15 DEF FsTryLock, NextContext
<1>16. CASE FsRecheck
  BY <1>16 DEF FsRecheck, NextContext
<1>17. ASSUME NEW v \in Results, FsHandle(v) PROVE StatusInv'
  BY <1>17 DEF FsHandle, NextContext
<1>18. CASE UNCHANGED vars
  BY <1>18 DEF vars
<1> QED
  BY <1>1, <1>2, <1>3, <1>4, <1>5, <1>6, <1>7, <1>8, <1>9, <1>10, <1>11, <1>12, <1>13,
     <1>14, <1>15, <1>16, <1>17, <1>18 DEF Next, ThreadStep, RunStep, FsStep

\* A step that changes neither a status, nor a request, nor who owns a context
LEMMA OwnersKept ==
    ASSUME SingleOwner, UNCHANGED <<status, args>>,
           \A u \in Threads : Owns(u)' <=> Owns(u)
    PROVE  SingleOwner'
BY DEF SingleOwner, Ctx

\* A thread that owns its context gives it back: no other thread owned it.
LEMMA OwnerLeaves ==
    ASSUME TypeOK, SingleOwner, NEW t \in Threads, Owns(t), ~Owns(t)',
           status' = [status EXCEPT ![Ctx(t)] = "IDLE"], UNCHANGED args,
           \A u \in Threads \ {t} : Owns(u)' <=> Owns(u)
    PROVE  SingleOwner'
<1>1. \A u \in Threads \ {t} : Owns(u) => Ctx(u) # Ctx(t)  BY DEF SingleOwner
<1>2. \A u \in Threads : Owns(u)' => status'[Ctx(u)] # "IDLE" /\ args'[Ctx(u)] = u
  BY <1>1, CtxType DEF SingleOwner, TypeOK
<1>3. \A c \in Contexts : status'[c] # "IDLE" => \E u \in Threads : Ctx(u) = c /\ Owns(u)'
  BY <1>1, CtxType DEF SingleOwner, TypeOK
<1> QED  BY <1>2, <1>3 DEF SingleOwner, Ctx

\* Every action keeps the context with the one call it serves.
LEMMA StepOwner == Inv /\ [Next]_vars => SingleOwner'
<1> SUFFICES ASSUME Inv, [Next]_vars PROVE SingleOwner'  OBVIOUS
<1> USE CtxType DEF Inv, TypeOK, scVars, threadVars, fsVars, history
<1>1. ASSUME NEW t \in Threads, NEW k \in CallSet, Invoke(t, k) PROVE SingleOwner'
  <2>1. UNCHANGED <<status, args>> /\ \A u \in Threads : Owns(u)' <=> Owns(u)
    BY <1>1 DEF Invoke, Owns
  <2> QED  BY <2>1, OwnersKept
<1>2. ASSUME NEW t \in Threads, DirtyRead(t) PROVE SingleOwner'
  <2>1. UNCHANGED <<status, args>> /\ \A u \in Threads : Owns(u)' <=> Owns(u)
    BY <1>2 DEF DirtyRead, Owns
  <2> QED  BY <2>1, OwnersKept
<1>3. ASSUME NEW t \in Threads, SpinLock(t) PROVE SingleOwner'
  <2>1. UNCHANGED <<status, args>> /\ \A u \in Threads : Owns(u)' <=> Owns(u)
    BY <1>3 DEF SpinLock, Owns
  <2> QED  BY <2>1, OwnersKept
<1>4. ASSUME NEW t \in Threads, RecheckIdle(t) PROVE SingleOwner'
  <2>1. UNCHANGED <<status, args>> /\ \A u \in Threads : Owns(u)' <=> Owns(u)
    BY <1>4 DEF RecheckIdle, Recheck, Owns
  <2> QED  BY <2>1, OwnersKept
<1>5. ASSUME NEW t \in Threads, RecheckRep(t) PROVE SingleOwner'
  <2>1. UNCHANGED <<status, args>> /\ \A u \in Threads : Owns(u)' <=> Owns(u)
    BY <1>5 DEF RecheckRep, Recheck, Owns
  <2> QED  BY <2>1, OwnersKept
<1>6. ASSUME NEW t \in Threads, Submit(t) PROVE SingleOwner'
  <2>1. ~Owns(t) /\ status[Ctx(t)] = "IDLE"  BY <1>6 DEF Submit, Owns, StatusInv
  <2>2. Owns(t)'  BY <1>6 DEF Submit, Owns
  <2>3. \A u \in Threads \ {t} : (Owns(u)' <=> Owns(u)) /\ (Owns(u) => Ctx(u) # Ctx(t))
    BY <1>6, <2>1 DEF Submit, Owns, SingleOwner
  <2>4. status' = [status EXCEPT ![Ctx(t)] = "REQ"] /\ args' = [args EXCEPT ![Ctx(t)] = t]
    BY <1>6 DEF Submit
  <2>5. \A u \in Threads : Owns(u)' => status'[Ctx(u)] # "IDLE" /\ args'[Ctx(u)] = u
    BY <2>2, <2>3, <2>4 DEF SingleOwner
  <2>6. \A c \in Contexts : status'[c] # "IDLE" => \E u \in Threads : Ctx(u) = c /\ Owns(u)'
    BY <2>1, <2>2, <2>3, <2>4 DEF SingleOwner
  <2> QED  BY <2>5, <2>6 DEF SingleOwner, Ctx
<1>7. ASSUME NEW t \in Threads, TakeReply(t) PROVE SingleOwner'
  <2>1. Owns(t) /\ ~Owns(t)' /\ \A u \in Threads \ {t} : Owns(u)' <=> Owns(u)
    BY <1>7 DEF TakeReply, Owns
  <2>2. status' = [status EXCEPT ![Ctx(t)] = "IDLE"] /\ UNCHANGED args
    BY <1>7 DEF TakeReply
  <2> QED  BY <2>1, <2>2, OwnerLeaves
<1>8. ASSUME NEW t \in Threads, SemTake(t) PROVE SingleOwner'
  <2>1. UNCHANGED <<status, args>> /\ \A u \in Threads : Owns(u)' <=> Owns(u)
    BY <1>8 DEF SemTake, Owns
  <2> QED  BY <2>1, OwnersKept
<1>9. ASSUME NEW t \in Threads, SemTimeout(t) PROVE SingleOwner'
  <2>1. UNCHANGED <<status, args>> /\ \A u \in Threads : Owns(u)' <=> Owns(u)
    BY <1>9 DEF SemTimeout, Owns
  <2> QED  BY <2>1, OwnersKept
<1>10. ASSUME NEW t \in Threads, SemError(t) PROVE SingleOwner'
  <2>1. UNCHANGED <<status, args>> /\ \A u \in Threads : Owns(u)' <=> Owns(u)
    BY <1>10 DEF SemError, Owns
  <2> QED  BY <2>1, OwnersKept
<1>11. ASSUME NEW t \in Threads, Finish(t) PROVE SingleOwner'
  <2>1. Owns(t) /\ ~Owns(t)' /\ \A u \in Threads \ {t} : Owns(u)' <=> Owns(u)
    BY <1>11 DEF Finish, Owns
  <2>2. status' = [status EXCEPT ![Ctx(t)] = "IDLE"] /\ UNCHANGED args
    BY <1>11 DEF Finish, StatusAfter
  <2> QED  BY <2>1, <2>2, OwnerLeaves
<1>12. ASSUME NEW p \in Procs, AlarmLock(p) PROVE SingleOwner'
  <2>1. UNCHANGED <<status, args>> /\ \A u \in Threads : Owns(u)' <=> Owns(u)
    BY <1>12 DEF AlarmLock, Owns
  <2> QED  BY <2>1, OwnersKept
<1>13. ASSUME NEW p \in Procs, AlarmPost(p) PROVE SingleOwner'
  <2>1. UNCHANGED <<status, args>> /\ \A u \in Threads : Owns(u)' <=> Owns(u)
    BY <1>13 DEF AlarmPost, Owns
  <2> QED  BY <2>1, OwnersKept
<1>14. CASE FsScan
  <2>1. UNCHANGED <<status, args>> /\ \A u \in Threads : Owns(u)' <=> Owns(u)
    BY <1>14 DEF FsScan, Owns
  <2> QED  BY <2>1, OwnersKept
<1>15. CASE FsTryLock
  <2>1. UNCHANGED <<status, args>> /\ \A u \in Threads : Owns(u)' <=> Owns(u)
    BY <1>15 DEF FsTryLock, Owns
  <2> QED  BY <2>1, OwnersKept
<1>16. CASE FsRecheck
  <2>1. UNCHANGED <<status, args>> /\ \A u \in Threads : Owns(u)' <=> Owns(u)
    BY <1>16 DEF FsRecheck, Owns
  <2> QED  BY <2>1, OwnersKept
<1>17. ASSUME NEW v \in Results, FsHandle(v) PROVE SingleOwner'
  <2>1. status[fsIdx] = "REQ" /\ UNCHANGED <<args, pc>>  BY <1>17 DEF FsHandle, StatusInv
  <2>2. status' = [status EXCEPT ![fsIdx] = "REP"] \/ status' = status  BY <1>17 DEF FsHandle
  <2>3. \A c \in Contexts : status'[c] # "IDLE" <=> status[c] # "IDLE"  BY <2>1, <2>2
  <2>4. \A u \in Threads : Owns(u)' <=> Owns(u)  BY <2>1 DEF Owns
  <2> QED  BY <2>1, <2>3, <2>4 DEF SingleOwner, Ctx
<1>18. CASE UNCHANGED vars
  <2>1. UNCHANGED <<status, args>> /\ \A u \in Threads : Owns(u)' <=> Owns(u)
    BY <1>18 DEF vars, Owns
  <2> QED  BY <2>1, OwnersKept
<1> QED
  BY <1>1, <1>2, <1>3, <1>4, <1>5, <1>6, <1>7, <1>8, <1>9, <1>10, <1>11, <1>12, <1>13,
     <1>14, <1>15, <1>16, <1>17, <1>18 DEF Next, ThreadStep, RunStep, FsStep

\* Every action keeps WaitInv: how a thread waits fits the call it made.
LEMMA StepWait == Inv /\ [Next]_vars => WaitInv'
<1> SUFFICES ASSUME Inv, [Next]_vars PROVE WaitInv'  OBVIOUS
<1> USE CtxType, NameAssumption
        DEF Inv, TypeOK, scVars, threadVars, fsVars, history, Ctx, WaitInv
<1>1. ASSUME NEW t \in Threads, NEW k \in CallSet, Invoke(t, k) PROVE WaitInv'
  BY <1>1 DEF Invoke
<1>2. ASSUME NEW t \in Threads, DirtyRead(t) PROVE WaitInv'
  BY <1>2 DEF DirtyRead
<1>3. ASSUME NEW t \in Threads, SpinLock(t) PROVE WaitInv'
  BY <1>3 DEF SpinLock
<1>4. ASSUME NEW t \in Threads, RecheckIdle(t) PROVE WaitInv'
  BY <1>4 DEF RecheckIdle, Recheck, StillIs
<1>5. ASSUME NEW t \in Threads, RecheckRep(t) PROVE WaitInv'
  BY <1>5 DEF RecheckRep, Recheck, StillIs
<1>6. ASSUME NEW t \in Threads, Submit(t) PROVE WaitInv'
  BY <1>6 DEF Submit
<1>7. ASSUME NEW t \in Threads, TakeReply(t) PROVE WaitInv'
  BY <1>7 DEF TakeReply
<1>8. ASSUME NEW t \in Threads, SemTake(t) PROVE WaitInv'
  BY <1>8 DEF SemTake
<1>9. ASSUME NEW t \in Threads, SemTimeout(t) PROVE WaitInv'
  BY <1>9 DEF SemTimeout
<1>10. ASSUME NEW t \in Threads, SemError(t) PROVE WaitInv'
  BY <1>10 DEF SemError
<1>11. ASSUME NEW t \in Threads, Finish(t) PROVE WaitInv'
  BY <1>11 DEF Finish, StatusAfter
<1>12. ASSUME NEW p \in Procs, AlarmLock(p) PROVE WaitInv'
  BY <1>12 DEF AlarmLock
<1>13. ASSUME NEW p \in Procs, AlarmPost(p) PROVE WaitInv'
  BY <1>13 DEF AlarmPost
<1>14. CASE FsScan
  BY <1>14 DEF FsScan, NextContext
<1>15. CASE FsTryLock
  BY <1>15 DEF FsTryLock, NextContext
<1>16. CASE FsRecheck
  BY <1>16 DEF FsRecheck, NextContext
<1>17. ASSUME NEW v \in Results, FsHandle(v) PROVE WaitInv'
  BY <1>17 DEF FsHandle, NextContext
<1>18. CASE UNCHANGED vars
  BY <1>18 DEF vars
<1> QED
  BY <1>1, <1>2, <1>3, <1>4, <1>5, <1>6, <1>7, <1>8, <1>9, <1>10, <1>11, <1>12, <1>13,
     <1>14, <1>15, <1>16, <1>17, <1>18 DEF Next, ThreadStep, RunStep, FsStep

\* The inductive invariant holds when the zone has been created.
LEMMA InitInv == Init => Inv
<1> SUFFICES ASSUME Init PROVE Inv  OBVIOUS
<1>1. TypeOK  BY InitType
<1>2. \A t \in Threads : pc[t] = "run" /\ ~Owns(t)  BY DEF Init, Owns
<1>3. \A c \in Contexts : lock[c] = NoOne /\ status[c] = "IDLE"  BY DEF Init
<1>4. fsPc = "scan"  BY DEF Init
<1>5. LockInv  BY <1>2, <1>3, <1>4, CtxType, NameAssumption DEF LockInv, Holds
<1>6. StatusInv /\ SingleOwner /\ WaitInv
  BY <1>2, <1>3, <1>4 DEF StatusInv, SingleOwner, WaitInv
<1> QED  BY <1>1, <1>5, <1>6 DEF Inv

(***************************************************************************)
(* The protocol of the spinlock and the status keeps Inv, whatever calls   *)
(* the threads make.                                                       *)
(***************************************************************************)
THEOREM Invariance == Spec => []Inv
<1>1. Inv /\ [Next]_vars => Inv'
  <2> SUFFICES ASSUME Inv, [Next]_vars PROVE Inv'  OBVIOUS
  <2>1. TypeOK'  BY HandlerOwner, StepType DEF Inv
  <2>2. LockInv' /\ StatusInv' /\ SingleOwner' /\ WaitInv'
    BY StepLock, StepStatus, StepOwner, StepWait
  <2> QED  BY <2>1, <2>2 DEF Inv
<1> QED  BY InitInv, <1>1, PTL DEF Spec

\* Every variable keeps its type: the semaphore never goes below 0, fstack never
\* leaves the zone, for any number of contexts, processes and threads.
THEOREM TypeCorrect == Spec => []TypeOK
<1>1. Inv => TypeOK  BY DEF Inv
<1> QED  BY Invariance, <1>1, PTL

\* A context serves one call at a time, and one that is in use has an owner who will
\* give it back.
THEOREM MutualExclusion == Spec => []SingleOwner
<1>1. Inv => SingleOwner  BY DEF Inv
<1> QED  BY Invariance, <1>1, PTL

\* ff_handle_socket_ops works only on the arguments of a thread that waits for it.
THEOREM HandlerSafe == Spec => []HandlerHasOwner
BY Invariance, HandlerOwner, PTL
=============================================================================
