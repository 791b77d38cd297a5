----------------------- MODULE SemIpcWakeup_proofs -------------------------
(* What SemIpc's semaphore guarantees, on top of SemIpc_proofs. *)
EXTENDS SemIpc_proofs

\* kevent's change list: it is applied only while it is there.
ChangesInv == \A t \in Threads : applied[t] <= 1 /\ (changes[t] => applied[t] = 0)

(***************************************************************************)
(* How many tokens the semaphore can hold.  A process inside               *)
(* alarm_event_sem counts as the token it may post.                        *)
(***************************************************************************)
Pending(c) == sem[c] + (IF lock[c] \in Procs THEN 1 ELSE 0)
TokenInv ==
    /\ \A c \in Contexts :
          /\ lock[c] \in Procs => disturbed[c] >= 1
          /\ Pending(c) <= disturbed[c] + 2
          /\ status[c] # "REP" => Pending(c) <= disturbed[c] + 1
    /\ \A t \in Threads :
          /\ pc[t] \in {"done_lock", "done"} =>
                Pending(Ctx(t)) <= disturbed[Ctx(t)] + IF status[Ctx(t)] = "REP" THEN 1 ELSE 0
          /\ pc[t] \in {"rep_spin", "rep_lock", "rep_check", "rep_take"} =>
                Pending(Ctx(t)) <= disturbed[Ctx(t)] + 1

\* A sleeping thread that is answered is also woken.
LEMMA PostedSleeper ==
    ASSUME NEW k, NEW v, Sleeps(k), Answered(k, v) PROVE Posted(k, v)
BY DEF Sleeps, Answered, Posted, IsEvent

\* Every action keeps a token for the answered sleeper: nobody else takes it.
LEMMA StepWakeup == Inv /\ NoLostWakeup /\ [Next]_vars => NoLostWakeup'
<1> SUFFICES ASSUME Inv /\ NoLostWakeup, [Next]_vars PROVE NoLostWakeup'  OBVIOUS
<1> USE CtxType, NameAssumption
        DEF Inv, TypeOK, scVars, threadVars, fsVars, history, Ctx, WaitInv, SingleOwner, Owns, NoLostWakeup
<1>1. ASSUME NEW t \in Threads, NEW k \in CallSet, Invoke(t, k) PROVE NoLostWakeup'
  BY <1>1 DEF Invoke
<1>2. ASSUME NEW t \in Threads, DirtyRead(t) PROVE NoLostWakeup'
  BY <1>2 DEF DirtyRead
<1>3. ASSUME NEW t \in Threads, SpinLock(t) PROVE NoLostWakeup'
  BY <1>3 DEF SpinLock
<1>4. ASSUME NEW t \in Threads, RecheckIdle(t) PROVE NoLostWakeup'
  BY <1>4 DEF RecheckIdle, Recheck, StillIs
<1>5. ASSUME NEW t \in Threads, RecheckRep(t) PROVE NoLostWakeup'
  BY <1>5 DEF RecheckRep, Recheck, StillIs
<1>6. ASSUME NEW t \in Threads, Submit(t) PROVE NoLostWakeup'
  BY <1>6 DEF Submit
<1>7. ASSUME NEW t \in Threads, TakeReply(t) PROVE NoLostWakeup'
  BY <1>7 DEF TakeReply
<1>8. ASSUME NEW t \in Threads, SemTake(t) PROVE NoLostWakeup'
  BY <1>8 DEF SemTake
<1>9. ASSUME NEW t \in Threads, SemTimeout(t) PROVE NoLostWakeup'
  BY <1>9 DEF SemTimeout
<1>10. ASSUME NEW t \in Threads, SemError(t) PROVE NoLostWakeup'
  BY <1>10 DEF SemError
<1>11. ASSUME NEW t \in Threads, Finish(t) PROVE NoLostWakeup'
  BY <1>11 DEF Finish, StatusAfter
<1>12. ASSUME NEW p \in Procs, AlarmLock(p) PROVE NoLostWakeup'
  BY <1>12 DEF AlarmLock
<1>13. ASSUME NEW p \in Procs, AlarmPost(p) PROVE NoLostWakeup'
  BY <1>13 DEF AlarmPost
<1>14. CASE FsScan
  BY <1>14 DEF FsScan, NextContext
<1>15. CASE FsTryLock
  BY <1>15 DEF FsTryLock, NextContext
<1>16. CASE FsRecheck
  BY <1>16 DEF FsRecheck, NextContext
<1>17. ASSUME NEW v \in Results, FsHandle(v) PROVE NoLostWakeup'
  <2> SUFFICES ASSUME NEW u \in Threads, pc[u] = "sem_wait", status'[Ctx(u)] = "REP"
               PROVE  sem'[Ctx(u)] > 0
    BY <1>17 DEF FsHandle
  <2>1. CASE Ctx(u) # fsIdx  BY <1>17, <2>1 DEF FsHandle
  <2>2. CASE Ctx(u) = fsIdx
    <3>1. args[fsIdx] = u /\ Sleeps(call[u])  BY <2>2
    <3>2. status[fsIdx] = "REQ"  BY <1>17 DEF FsHandle, StatusInv
    <3>3. Answered(call[u], v)  BY <1>17, <2>2, <3>1, <3>2 DEF FsHandle
    <3>4. Posted(call[u], v)  BY <3>1, <3>3, PostedSleeper
    <3>5. sem' = [sem EXCEPT ![fsIdx] = @ + 1]  BY <1>17, <3>1, <3>4 DEF FsHandle
    <3> QED  BY <2>2, <3>5
  <2> QED  BY <2>1, <2>2
<1>18. CASE UNCHANGED vars
  BY <1>18 DEF vars
<1> QED
  BY <1>1, <1>2, <1>3, <1>4, <1>5, <1>6, <1>7, <1>8, <1>9, <1>10, <1>11, <1>12, <1>13,
     <1>14, <1>15, <1>16, <1>17, <1>18 DEF Next, ThreadStep, RunStep, FsStep

\* need_alarm_sem is set with a sleeper and taken back before the last one leaves.
LEMMA StepSleeper == Inv /\ AlarmHasSleeper /\ [Next]_vars => AlarmHasSleeper'
<1> SUFFICES ASSUME Inv /\ AlarmHasSleeper, [Next]_vars PROVE AlarmHasSleeper'  OBVIOUS
<1> USE CtxType, NameAssumption
        DEF Inv, TypeOK, scVars, threadVars, fsVars, history, Ctx, WaitInv, AlarmHasSleeper
<1>1. ASSUME NEW t \in Threads, NEW k \in CallSet, Invoke(t, k) PROVE AlarmHasSleeper'
  BY <1>1 DEF Invoke
<1>2. ASSUME NEW t \in Threads, DirtyRead(t) PROVE AlarmHasSleeper'
  BY <1>2 DEF DirtyRead
<1>3. ASSUME NEW t \in Threads, SpinLock(t) PROVE AlarmHasSleeper'
  BY <1>3 DEF SpinLock
<1>4. ASSUME NEW t \in Threads, RecheckIdle(t) PROVE AlarmHasSleeper'
  BY <1>4 DEF RecheckIdle, Recheck, StillIs
<1>5. ASSUME NEW t \in Threads, RecheckRep(t) PROVE AlarmHasSleeper'
  BY <1>5 DEF RecheckRep, Recheck, StillIs
<1>6. ASSUME NEW t \in Threads, Submit(t) PROVE AlarmHasSleeper'
  BY <1>6 DEF Submit
<1>7. ASSUME NEW t \in Threads, TakeReply(t) PROVE AlarmHasSleeper'
  BY <1>7 DEF TakeReply
<1>8. ASSUME NEW t \in Threads, SemTake(t) PROVE AlarmHasSleeper'
  BY <1>8 DEF SemTake
<1>9. ASSUME NEW t \in Threads, SemTimeout(t) PROVE AlarmHasSleeper'
  BY <1>9 DEF SemTimeout
<1>10. ASSUME NEW t \in Threads, SemError(t) PROVE AlarmHasSleeper'
  BY <1>10 DEF SemError
<1>11. ASSUME NEW t \in Threads, Finish(t) PROVE AlarmHasSleeper'
  <2> SUFFICES ASSUME NEW p \in Procs, need_alarm_sem'[p]
               PROVE  \E u \in Threads : /\ ProcOf[u] = p
                                          /\ pc'[u] \in {"sem_wait", "done_lock", "done"}
                                          /\ Blocking(call'[u])
    OBVIOUS
  <2>1. need_alarm_sem[p] /\ (ProcOf[t] = p => ~Blocking(call[t]))
    <3>1. need_alarm_sem' = [need_alarm_sem EXCEPT ![ProcOf[t]] = AlarmAfter(t)]
      BY <1>11 DEF Finish
    <3>2. CASE ProcOf[t] = p
      <4>1. need_alarm_sem'[p] = AlarmAfter(t)  BY <3>1, <3>2
      <4>2. AlarmAfter(t)  BY <4>1
      <4> QED  BY <3>2, <4>2 DEF AlarmAfter
    <3>3. CASE ProcOf[t] # p  BY <3>1, <3>3
    <3> QED  BY <3>2, <3>3
  <2>2. PICK u \in Threads : /\ ProcOf[u] = p
                             /\ pc[u] \in {"sem_wait", "done_lock", "done"}
                             /\ Blocking(call[u])
    BY <2>1
  <2>3. u # t  BY <2>1, <2>2
  <2>4. pc'[u] = pc[u] /\ call'[u] = call[u]  BY <1>11, <2>3 DEF Finish
  <2> QED  BY <2>2, <2>4
<1>12. ASSUME NEW p \in Procs, AlarmLock(p) PROVE AlarmHasSleeper'
  BY <1>12 DEF AlarmLock
<1>13. ASSUME NEW p \in Procs, AlarmPost(p) PROVE AlarmHasSleeper'
  BY <1>13 DEF AlarmPost
<1>14. CASE FsScan
  BY <1>14 DEF FsScan, NextContext
<1>15. CASE FsTryLock
  BY <1>15 DEF FsTryLock, NextContext
<1>16. CASE FsRecheck
  BY <1>16 DEF FsRecheck, NextContext
<1>17. ASSUME NEW v \in Results, FsHandle(v) PROVE AlarmHasSleeper'
  BY <1>17 DEF FsHandle, NextContext
<1>18. CASE UNCHANGED vars
  BY <1>18 DEF vars
<1> QED
  BY <1>1, <1>2, <1>3, <1>4, <1>5, <1>6, <1>7, <1>8, <1>9, <1>10, <1>11, <1>12, <1>13,
     <1>14, <1>15, <1>16, <1>17, <1>18 DEF Next, ThreadStep, RunStep, FsStep

\* The first execution of a kevent uses up its change list; no action restores it.
LEMMA StepChanges == Inv /\ ChangesInv /\ [Next]_vars => ChangesInv'
<1> SUFFICES ASSUME Inv /\ ChangesInv, [Next]_vars PROVE ChangesInv'  OBVIOUS
<1> USE CtxType, NameAssumption
        DEF Inv, TypeOK, scVars, threadVars, fsVars, history, Ctx, ChangesInv
<1>1. ASSUME NEW t \in Threads, NEW k \in CallSet, Invoke(t, k) PROVE ChangesInv'
  BY <1>1 DEF Invoke
<1>2. ASSUME NEW t \in Threads, DirtyRead(t) PROVE ChangesInv'
  BY <1>2 DEF DirtyRead
<1>3. ASSUME NEW t \in Threads, SpinLock(t) PROVE ChangesInv'
  BY <1>3 DEF SpinLock
<1>4. ASSUME NEW t \in Threads, RecheckIdle(t) PROVE ChangesInv'
  BY <1>4 DEF RecheckIdle, Recheck, StillIs
<1>5. ASSUME NEW t \in Threads, RecheckRep(t) PROVE ChangesInv'
  BY <1>5 DEF RecheckRep, Recheck, StillIs
<1>6. ASSUME NEW t \in Threads, Submit(t) PROVE ChangesInv'
  BY <1>6 DEF Submit
<1>7. ASSUME NEW t \in Threads, TakeReply(t) PROVE ChangesInv'
  BY <1>7 DEF TakeReply
<1>8. ASSUME NEW t \in Threads, SemTake(t) PROVE ChangesInv'
  BY <1>8 DEF SemTake
<1>9. ASSUME NEW t \in Threads, SemTimeout(t) PROVE ChangesInv'
  BY <1>9 DEF SemTimeout
<1>10. ASSUME NEW t \in Threads, SemError(t) PROVE ChangesInv'
  BY <1>10 DEF SemError
<1>11. ASSUME NEW t \in Threads, Finish(t) PROVE ChangesInv'
  BY <1>11 DEF Finish, StatusAfter
<1>12. ASSUME NEW p \in Procs, AlarmLock(p) PROVE ChangesInv'
  BY <1>12 DEF AlarmLock
<1>13. ASSUME NEW p \in Procs, AlarmPost(p) PROVE ChangesInv'
  BY <1>13 DEF AlarmPost
<1>14. CASE FsScan
  BY <1>14 DEF FsScan, NextContext
<1>15. CASE FsTryLock
  BY <1>15 DEF FsTryLock, NextContext
<1>16. CASE FsRecheck
  BY <1>16 DEF FsRecheck, NextContext
<1>17. ASSUME NEW v \in Results, FsHandle(v) PROVE ChangesInv'
  <2> DEFINE t == args[fsIdx]
  <2>1. t \in Threads  BY <1>17, HandlerOwner DEF HandlerHasOwner, FsHandle
  <2>2. changes' = [changes EXCEPT ![t] = FALSE]  BY <1>17 DEF FsHandle, ChangesAfter
  <2>3. CASE changes[t]
    <3>1. applied' = [applied EXCEPT ![t] = Saturate(@)]  BY <1>17, <2>3 DEF FsHandle
    <3>2. applied[t] = 0 /\ Saturate(0) = 1  BY <2>1, <2>3 DEF Saturate
    <3>3. applied' = [applied EXCEPT ![t] = 1]  BY <3>1, <3>2
    <3> QED  BY <2>1, <2>2, <3>3
  <2>4. CASE ~changes[t]
    <3>1. applied' = applied  BY <1>17, <2>4 DEF FsHandle
    <3> QED  BY <2>1, <2>2, <3>1
  <2> QED  BY <2>3, <2>4
<1>18. CASE UNCHANGED vars
  BY <1>18 DEF vars
<1> QED
  BY <1>1, <1>2, <1>3, <1>4, <1>5, <1>6, <1>7, <1>8, <1>9, <1>10, <1>11, <1>12, <1>13,
     <1>14, <1>15, <1>16, <1>17, <1>18 DEF Next, ThreadStep, RunStep, FsStep

\* Every token beyond the one of an answer is paid for by an alarm or a failed wait.
LEMMA StepTokens == Inv /\ TokenInv /\ [Next]_vars => TokenInv'
<1> SUFFICES ASSUME Inv /\ TokenInv, [Next]_vars PROVE TokenInv'  OBVIOUS
<1> USE CtxType, NameAssumption
        DEF Inv, TypeOK, scVars, threadVars, fsVars, history, Ctx, LockInv, Holds, WaitInv, SingleOwner, Owns, TokenInv, Pending
<1>1. ASSUME NEW t \in Threads, NEW k \in CallSet, Invoke(t, k) PROVE TokenInv'
  BY <1>1 DEF Invoke
<1>2. ASSUME NEW t \in Threads, DirtyRead(t) PROVE TokenInv'
  BY <1>2 DEF DirtyRead
<1>3. ASSUME NEW t \in Threads, SpinLock(t) PROVE TokenInv'
  BY <1>3 DEF SpinLock
<1>4. ASSUME NEW t \in Threads, RecheckIdle(t) PROVE TokenInv'
  BY <1>4 DEF RecheckIdle, Recheck, StillIs
<1>5. ASSUME NEW t \in Threads, RecheckRep(t) PROVE TokenInv'
  BY <1>5 DEF RecheckRep, Recheck, StillIs
<1>6. ASSUME NEW t \in Threads, Submit(t) PROVE TokenInv'
  <2>1. status[Ctx(t)] = "IDLE" /\ lock[Ctx(t)] = t  BY <1>6 DEF Submit, StatusInv
  <2>2. /\ status' = [status EXCEPT ![Ctx(t)] = "REQ"]
        /\ lock' = [lock EXCEPT ![Ctx(t)] = NoOne]
        /\ UNCHANGED <<sem, disturbed>>
    BY <1>6 DEF Submit
  <2>3. \A c \in Contexts : Pending(c)' = Pending(c) /\ (lock'[c] \in Procs <=> lock[c] \in Procs)
    BY <2>1, <2>2
  <2>4. /\ pc'[t] \in {"sem_wait", "rep_spin"}
        /\ \A u \in Threads \ {t} : pc'[u] = pc[u]
    BY <1>6 DEF Submit
  <2> QED  BY <2>1, <2>2, <2>3, <2>4
<1>7. ASSUME NEW t \in Threads, TakeReply(t) PROVE TokenInv'
  BY <1>7 DEF TakeReply
<1>8. ASSUME NEW t \in Threads, SemTake(t) PROVE TokenInv'
  BY <1>8 DEF SemTake
<1>9. ASSUME NEW t \in Threads, SemTimeout(t) PROVE TokenInv'
  BY <1>9 DEF SemTimeout, HasToken
<1>10. ASSUME NEW t \in Threads, SemError(t) PROVE TokenInv'
  BY <1>10 DEF SemError
<1>11. ASSUME NEW t \in Threads, Finish(t) PROVE TokenInv'
  BY <1>11 DEF Finish, StatusAfter
<1>12. ASSUME NEW p \in Procs, AlarmLock(p) PROVE TokenInv'
  BY <1>12 DEF AlarmLock
<1>13. ASSUME NEW p \in Procs, AlarmPost(p) PROVE TokenInv'
  BY <1>13 DEF AlarmPost
<1>14. CASE FsScan
  BY <1>14 DEF FsScan, NextContext
<1>15. CASE FsTryLock
  BY <1>15 DEF FsTryLock, NextContext
<1>16. CASE FsRecheck
  BY <1>16 DEF FsRecheck, NextContext
<1>17. ASSUME NEW v \in Results, FsHandle(v) PROVE TokenInv'
  <2> DEFINE t == args[fsIdx]
  <2>1. t \in Threads /\ Owns(t) /\ status[fsIdx] = "REQ" /\ lock[fsIdx] = FStack
    BY <1>17, HandlerOwner DEF HandlerHasOwner, FsHandle
  <2>2. UNCHANGED <<pc, disturbed, args>> /\ lock' = [lock EXCEPT ![fsIdx] = NoOne]
    BY <1>17 DEF FsHandle
  <2>3. \/ status' = status /\ sem' = sem
        \/ status' = [status EXCEPT ![fsIdx] = "REP"] /\ sem' = sem
        \/ /\ status' = [status EXCEPT ![fsIdx] = "REP"]
           /\ sem' = [sem EXCEPT ![fsIdx] = @ + 1]
           /\ Sleeps(call[t])
    BY <1>17 DEF FsHandle, Answered, Posted, IsEvent, Sleeps
  <2> QED  BY <2>1, <2>2, <2>3
<1>18. CASE UNCHANGED vars
  BY <1>18 DEF vars
<1> QED
  BY <1>1, <1>2, <1>3, <1>4, <1>5, <1>6, <1>7, <1>8, <1>9, <1>10, <1>11, <1>12, <1>13,
     <1>14, <1>15, <1>16, <1>17, <1>18 DEF Next, ThreadStep, RunStep, FsStep

-----------------------------------------------------------------------------
\* A thread that sleeps on the semaphore and has been answered finds a token there.
THEOREM Wakeups == Spec => []NoLostWakeup
<1>1. Init => NoLostWakeup  BY DEF Init, NoLostWakeup
<1> QED  BY <1>1, Invariance, StepWakeup, PTL DEF Spec

\* alarm_event_sem posts only to a process that has a thread waiting without time limit.
THEOREM AlarmsHitSleepers == Spec => []AlarmHasSleeper
<1>1. Init => AlarmHasSleeper  BY DEF Init, AlarmHasSleeper
<1> QED  BY <1>1, Invariance, StepSleeper, PTL DEF Spec

\* kevent's change list is applied at most once, however often the request is executed.
THEOREM ChangesAppliedOnce == Spec => []ChangesOnce
<1>1. Init => ChangesInv  BY DEF Init, ChangesInv
<1>2. ChangesInv => ChangesOnce  BY DEF ChangesInv, ChangesOnce
<1> QED  BY <1>1, <1>2, Invariance, StepChanges, PTL DEF Spec

\* The tokens that late posts leave behind do not pile up.
THEOREM StaleTokensBounded == Spec => []TokensBounded
<1>1. Init => TokenInv
  BY NameAssumption, CtxType DEF Init, TokenInv, Pending
<1>2. Inv /\ TokenInv => TokensBounded
  BY DEF Inv, TypeOK, TokenInv, Pending, TokensBounded
<1> QED  BY <1>1, <1>2, Invariance, StepTokens, PTL DEF Spec
=============================================================================
