------------------------ MODULE SemIpcReply_proofs --------------------------
(***************************************************************************)
(* What a call returns, and that SemIpc implements SyscallRpc, on top of   *)
(* SemIpc_proofs.                                                          *)
(***************************************************************************)
EXTENDS SemIpc_proofs

(***************************************************************************)
(* The result in a context belongs to the call that owns the context, or   *)
(* is the 0 that epoll_wait and kevent write before they publish a request;*)
(* a request that is not a wait for events is executed once.               *)
(***************************************************************************)
ReplyInv ==
    \A t \in Threads : Owns(t) =>
        /\ status[Ctx(t)] = "REP" => executed[t] >= 1
        /\ executed[t] > 0 => result[Ctx(t)].by = t
        /\ executed[t] = 0 /\ IsEvent(call[t]) => result[Ctx(t)] = NoResult
        /\ ~IsEvent(call[t]) => executed[t] <= 1 /\ (status[Ctx(t)] = "REQ" => executed[t] = 0)

\* Every action keeps the result in the context with the submission it was computed for.
LEMMA StepReply == Inv /\ ReplyInv /\ [Next]_vars => ReplyInv'
<1> SUFFICES ASSUME Inv /\ ReplyInv, [Next]_vars PROVE ReplyInv'  OBVIOUS
<1> USE CtxType, NameAssumption
        DEF Inv, TypeOK, scVars, threadVars, fsVars, history, Ctx, SingleOwner, Owns, StatusInv, ReplyInv
<1>1. ASSUME NEW t \in Threads, NEW k \in CallSet, Invoke(t, k) PROVE ReplyInv'
  BY <1>1 DEF Invoke
<1>2. ASSUME NEW t \in Threads, DirtyRead(t) PROVE ReplyInv'
  BY <1>2 DEF DirtyRead
<1>3. ASSUME NEW t \in Threads, SpinLock(t) PROVE ReplyInv'
  BY <1>3 DEF SpinLock
<1>4. ASSUME NEW t \in Threads, RecheckIdle(t) PROVE ReplyInv'
  BY <1>4 DEF RecheckIdle, Recheck, StillIs
<1>5. ASSUME NEW t \in Threads, RecheckRep(t) PROVE ReplyInv'
  BY <1>5 DEF RecheckRep, Recheck, StillIs
<1>6. ASSUME NEW t \in Threads, Submit(t) PROVE ReplyInv'
  <2>1. status[Ctx(t)] = "IDLE"  BY <1>6 DEF Submit
  <2>2. \A u \in Threads \ {t} : (Owns(u)' <=> Owns(u)) /\ (Owns(u) => Ctx(u) # Ctx(t))
    BY <1>6, <2>1 DEF Submit
  <2>3. /\ executed' = [executed EXCEPT ![t] = 0]
        /\ result' = [result EXCEPT ![Ctx(t)] = ResultBefore(call[t], Ctx(t))]
        /\ status' = [status EXCEPT ![Ctx(t)] = "REQ"]
        /\ UNCHANGED call
    BY <1>6 DEF Submit
  <2>4. IsEvent(call[t]) => result'[Ctx(t)] = NoResult  BY <2>3 DEF ResultBefore
  <2> QED  BY <2>2, <2>3, <2>4
<1>7. ASSUME NEW t \in Threads, TakeReply(t) PROVE ReplyInv'
  BY <1>7 DEF TakeReply
<1>8. ASSUME NEW t \in Threads, SemTake(t) PROVE ReplyInv'
  BY <1>8 DEF SemTake
<1>9. ASSUME NEW t \in Threads, SemTimeout(t) PROVE ReplyInv'
  BY <1>9 DEF SemTimeout
<1>10. ASSUME NEW t \in Threads, SemError(t) PROVE ReplyInv'
  BY <1>10 DEF SemError
<1>11. ASSUME NEW t \in Threads, Finish(t) PROVE ReplyInv'
  BY <1>11 DEF Finish, StatusAfter
<1>12. ASSUME NEW p \in Procs, AlarmLock(p) PROVE ReplyInv'
  BY <1>12 DEF AlarmLock
<1>13. ASSUME NEW p \in Procs, AlarmPost(p) PROVE ReplyInv'
  BY <1>13 DEF AlarmPost
<1>14. CASE FsScan
  BY <1>14 DEF FsScan, NextContext
<1>15. CASE FsTryLock
  BY <1>15 DEF FsTryLock, NextContext
<1>16. CASE FsRecheck
  BY <1>16 DEF FsRecheck, NextContext
<1>17. ASSUME NEW v \in Results, FsHandle(v) PROVE ReplyInv'
  <2> DEFINE t == args[fsIdx]
  <2>1. t \in Threads /\ Owns(t) /\ Ctx(t) = fsIdx /\ status[fsIdx] = "REQ"
    <3>1. fsPc = "handle" /\ t \in Threads  BY <1>17, HandlerOwner DEF HandlerHasOwner, FsHandle
    <3>2. PICK u \in Threads : Ctx(u) = fsIdx /\ Owns(u)  BY <3>1
    <3> QED  BY <3>1, <3>2
  <2>2. \A u \in Threads \ {t} : Owns(u) => Ctx(u) # fsIdx  BY <2>1
  <2>3. /\ result' = [result EXCEPT ![fsIdx] = [by |-> t, val |-> v]]
        /\ executed' = [executed EXCEPT ![t] = Saturate(@)]
        /\ UNCHANGED <<pc, call>>
        /\ status' = IF Answered(call[t], v) THEN [status EXCEPT ![fsIdx] = "REP"] ELSE status
    BY <1>17 DEF FsHandle
  <2>4. executed'[t] >= 1 /\ (executed[t] = 0 => executed'[t] = 1)  BY <2>1, <2>3 DEF Saturate
  <2>5. ~IsEvent(call[t]) => status'[fsIdx] = "REP"  BY <2>3 DEF Answered
  <2>6. \A c \in Contexts \ {fsIdx} : status'[c] = status[c] /\ result'[c] = result[c]  BY <2>3
  <2>7. \A u \in Threads \ {t} : executed'[u] = executed[u]  BY <2>3
  <2>8. result'[fsIdx].by = t  BY <2>3
  <2> QED  BY <2>1, <2>2, <2>3, <2>4, <2>5, <2>6, <2>7, <2>8
<1>18. CASE UNCHANGED vars
  BY <1>18 DEF vars
<1> QED
  BY <1>1, <1>2, <1>3, <1>4, <1>5, <1>6, <1>7, <1>8, <1>9, <1>10, <1>11, <1>12, <1>13,
     <1>14, <1>15, <1>16, <1>17, <1>18 DEF Next, ThreadStep, RunStep, FsStep

\* No thread waits for a result at the start.
LEMMA InitReply == Init => ReplyInv
BY DEF Init, ReplyInv, Owns

-----------------------------------------------------------------------------
\* Only its own step takes a thread out of its call.
LEMMA WhoReturns ==
    ASSUME Inv, Next, NEW t \in Threads, pc[t] \in {"rep_take", "done"}, pc'[t] # pc[t]
    PROVE  TakeReply(t) \/ Finish(t)
<1> USE DEF Inv, TypeOK, scVars, threadVars, fsVars, history
<1>1. ASSUME NEW u \in Threads, NEW k \in CallSet, Invoke(u, k) PROVE FALSE
  BY <1>1 DEF Invoke
<1>2. ASSUME NEW u \in Threads, ThreadStep(u) PROVE TakeReply(t) \/ Finish(t)
  <2>1. CASE u = t
    BY <1>2, <2>1 DEF ThreadStep, RunStep, DirtyRead, SpinLock, RecheckIdle, RecheckRep, Recheck, Submit,
                      SemTake, SemTimeout, SemError
  <2>2. CASE u # t
    BY <1>2, <2>2 DEF ThreadStep, RunStep, DirtyRead, SpinLock, RecheckIdle, RecheckRep, Recheck, Submit,
                      TakeReply, SemTake, SemTimeout, SemError, Finish
  <2> QED  BY <2>1, <2>2
<1>3. ASSUME NEW p \in Procs, AlarmLock(p) \/ AlarmPost(p) PROVE FALSE
  BY <1>3 DEF AlarmLock, AlarmPost
<1>4. CASE FsStep
  BY <1>4 DEF FsStep, FsScan, FsTryLock, FsRecheck, FsHandle
<1> QED  BY <1>1, <1>2, <1>3, <1>4 DEF Next

\* A step that ends a call returns a result of that call.
LEMMA StepOwnReply == Inv /\ ReplyInv /\ [Next]_vars => [ReturnsOwn]_vars
<1> SUFFICES ASSUME Inv, ReplyInv, Next, NEW t \in Threads,
                    pc[t] \in {"rep_take", "done"}, pc'[t] # pc[t]
             PROVE  /\ pc[t] = "rep_take" =>
                           /\ ret'[t].by = t
                           /\ executed[t] >= 1
                           /\ call[t].op = "syscall" => executed[t] = 1
                    /\ pc[t] = "done" /\ outcome[t] = "token" =>
                           ret'[t].val = 0 \/ (ret'[t].by = t /\ executed[t] >= 1)
  BY DEF ReturnsOwn
<1> USE DEF Inv, TypeOK
<1>1. Owns(t) /\ executed[t] \in 0 .. 2  BY DEF Owns
<1>2. CASE TakeReply(t)
  <2>1. status[Ctx(t)] = "REP" /\ pc[t] = "rep_take"  BY <1>2 DEF TakeReply, StatusInv
  <2>2. ret'[t] = result[Ctx(t)]  BY <1>2 DEF TakeReply
  <2>3. call[t].op = "syscall" => ~IsEvent(call[t])  BY DEF IsEvent
  <2> QED  BY <1>1, <2>1, <2>2, <2>3 DEF ReplyInv
<1>3. CASE Finish(t)
  <2>1. pc[t] = "done" /\ Sleeps(call[t])  BY <1>3 DEF Finish, WaitInv
  <2>2. IsEvent(call[t])  BY <2>1 DEF Sleeps, IsEvent
  <2>3. outcome[t] = "token" => ret'[t] = result[Ctx(t)]  BY <1>3 DEF Finish
  <2> QED  BY <1>1, <2>1, <2>2, <2>3 DEF ReplyInv, NoResult
<1> QED  BY <1>2, <1>3, WhoReturns

(***************************************************************************)
(* A call returns the result of its own execution: a SYSCALL of the only   *)
(* one, an event wait that took a token of an execution for this very      *)
(* submission, or 0.                                                       *)
(***************************************************************************)
THEOREM RepliesAreOwn == Spec => OwnReply
BY Invariance, InitReply, StepReply, StepOwnReply, PTL DEF Spec, OwnReply
-----------------------------------------------------------------------------
(***************************************************************************)
(* The refinement: a step that leaves requests, results and owners alone   *)
(* is a stutter of the abstract service.                                   *)
(***************************************************************************)
LEMMA Stutter ==
    ASSUME UNCHANGED <<status, args, result, call, executed, ret>>,
           \A u \in Threads : Owns(u)' <=> Owns(u)
    PROVE  UNCHANGED Rpc!rpcVars
<1>1. servingBar' = servingBar /\ gotBar' = gotBar  BY DEF servingBar, gotBar
<1>2. eventBar' = eventBar  BY DEF eventBar, IsEvent
<1>3. answerBar' = answerBar  BY DEF answerBar, Ctx
<1> QED  BY <1>1, <1>2, <1>3 DEF Rpc!rpcVars

\* A request that is not a thread's own is not being served for it.
LEMMA ServedOwner ==
    ASSUME Inv, NEW t \in Threads
    PROVE  servingBar[Ctx(t)] = t <=> Owns(t)
<1>1. ASSUME servingBar[Ctx(t)] = t PROVE Owns(t)
  <2>1. status[Ctx(t)] # "IDLE" /\ args[Ctx(t)] = t
    BY <1>1, CtxType, NameAssumption DEF servingBar
  <2>2. PICK u \in Threads : Ctx(u) = Ctx(t) /\ Owns(u)  BY <2>1, CtxType DEF Inv, SingleOwner
  <2> QED  BY <2>1, <2>2 DEF Inv, SingleOwner
<1>2. ASSUME Owns(t) PROVE servingBar[Ctx(t)] = t
  BY <1>2, CtxType DEF servingBar, Inv, SingleOwner
<1> QED  BY <1>1, <1>2

\* A hooked call that fills its argument block is a Begin of the service.
LEMMA StepBegin ==
    ASSUME Inv, NEW t \in Threads, NEW k \in CallSet, Invoke(t, k)
    PROVE  Rpc!Begin(t)
<1> USE DEF Inv, TypeOK, scVars, fsVars
<1>1. ~Owns(t) /\ \A u \in Threads : Owns(u)' <=> Owns(u)  BY DEF Invoke, Owns
<1>2. servingBar[Ctx(t)] # t  BY <1>1, ServedOwner
<1>3. gotBar' = [gotBar EXCEPT ![t] = 0]  BY DEF Invoke, gotBar, NoResult
<1>4. servingBar' = servingBar  BY DEF Invoke, servingBar
<1>5. \A u \in Threads \ {t} : call'[u] = call[u]  BY DEF Invoke
<1>6. eventBar' = eventBar
  <2>1. \A u \in Threads : (Owns(u) /\ IsEvent(call[u]))' <=> Owns(u) /\ IsEvent(call[u])
    BY <1>1, <1>5 DEF IsEvent
  <2> QED  BY <2>1 DEF eventBar
<1>7. answerBar' = answerBar
  <2>1. UNCHANGED <<result, executed>>  BY DEF Invoke
  <2> QED  BY <1>1, <2>1 DEF answerBar, Ctx
<1> QED  BY <1>2, <1>3, <1>4, <1>6, <1>7 DEF Rpc!Begin

\* Publishing FF_SC_REQ is an Ask of the service.
LEMMA StepAsk ==
    ASSUME Inv, NEW t \in Threads, Submit(t)
    PROVE  \E e \in BOOLEAN : Rpc!Ask(t, e)
<1> USE CtxType DEF Inv, TypeOK, fsVars
<1>1. /\ status[Ctx(t)] = "IDLE" /\ ~Owns(t) /\ Owns(t)'
      /\ \A u \in Threads \ {t} : Owns(u)' <=> Owns(u)
  BY DEF Submit, Owns, StatusInv
<1>2. \A u \in Threads \ {t} : Owns(u) => Ctx(u) # Ctx(t)  BY <1>1 DEF SingleOwner
<1>3. /\ status' = [status EXCEPT ![Ctx(t)] = "REQ"] /\ args' = [args EXCEPT ![Ctx(t)] = t]
      /\ executed' = [executed EXCEPT ![t] = 0] /\ UNCHANGED <<call, ret>>
      /\ result' = [result EXCEPT ![Ctx(t)] = ResultBefore(call[t], Ctx(t))]
  BY DEF Submit
<1>4. servingBar[Ctx(t)] = NoOne  BY <1>1 DEF servingBar
<1>5. servingBar' = [servingBar EXCEPT ![Ctx(t)] = t]  BY <1>3 DEF servingBar
<1>6. gotBar' = gotBar  BY <1>3 DEF gotBar
<1>7. eventBar' = [eventBar EXCEPT ![t] = IsEvent(call[t])]
  <2> DEFINE E(u) == Owns(u) /\ IsEvent(call[u])
  <2>1. E(t)' = IsEvent(call[t])  BY <1>1, <1>3 DEF IsEvent
  <2>2. \A u \in Threads \ {t} : E(u)' = E(u)  BY <1>1, <1>3 DEF IsEvent
  <2>3. eventBar = [u \in Threads |-> E(u)] /\ eventBar' = [u \in Threads |-> E(u)']
    BY DEF eventBar
  <2> HIDE DEF E
  <2> QED  BY <2>1, <2>2, <2>3
<1>8. answerBar' = answerBar
  <2> DEFINE A(u) == IF Owns(u) /\ executed[u] > 0 THEN result[Ctx(u)].val ELSE NoOne
  <2>1. A(t)' = A(t)  BY <1>1, <1>3
  <2>2. \A u \in Threads \ {t} : A(u)' = A(u)  BY <1>1, <1>2, <1>3 DEF Ctx
  <2> QED  BY <2>1, <2>2 DEF answerBar
<1>9. IsEvent(call[t]) \in BOOLEAN  BY DEF IsEvent
<1> QED  BY <1>4, <1>5, <1>6, <1>7, <1>8, <1>9 DEF Rpc!Ask

\* A run of ff_so_handler is an Execute of the service.
LEMMA StepExecute ==
    ASSUME Inv, ReplyInv, NEW v \in Results, FsHandle(v)
    PROVE  \E t \in Threads : Rpc!Execute(t, v)
<1> USE CtxType DEF Inv, TypeOK
<1>1. PICK t \in Threads :
           t = args[fsIdx] /\ Owns(t) /\ Ctx(t) = fsIdx /\ status[fsIdx] = "REQ"
  <2>1. fsPc = "handle" /\ status[fsIdx] = "REQ"
    BY HandlerOwner DEF HandlerHasOwner, FsHandle
  <2>2. PICK u \in Threads : Ctx(u) = fsIdx /\ Owns(u)  BY <2>1 DEF SingleOwner
  <2> QED  BY <2>1, <2>2 DEF SingleOwner
<1>2. \A u \in Threads \ {t} : Owns(u) => Ctx(u) # Ctx(t)  BY <1>1 DEF SingleOwner
<1>3. /\ result' = [result EXCEPT ![fsIdx] = [by |-> t, val |-> v]]
      /\ executed' = [executed EXCEPT ![t] = Saturate(@)]
      /\ UNCHANGED <<args, pc, call, ret>>
      /\ status' = [status EXCEPT ![fsIdx] = "REP"] \/ status' = status
  BY <1>1 DEF FsHandle
<1>4. \A u \in Threads : Owns(u)' <=> Owns(u)  BY <1>3 DEF Owns
<1>5. servingBar[Ctx(t)] = t  BY <1>1, ServedOwner
<1>6. eventBar[t] \/ answerBar[t] = NoOne
  <2>1. CASE IsEvent(call[t])  BY <1>1, <2>1 DEF eventBar
  <2>2. CASE ~IsEvent(call[t])
    <3>1. executed[t] = 0  BY <1>1, <2>2 DEF ReplyInv
    <3> QED  BY <1>1, <3>1 DEF answerBar
  <2> QED  BY <2>1, <2>2
<1>7. servingBar' = servingBar
  <2>1. \A c \in Contexts : status'[c] = "IDLE" <=> status[c] = "IDLE"  BY <1>1, <1>3
  <2> QED  BY <1>3, <2>1 DEF servingBar
<1>8. gotBar' = gotBar /\ eventBar' = eventBar  BY <1>3, <1>4 DEF gotBar, eventBar, IsEvent
<1>9. answerBar' = [answerBar EXCEPT ![t] = v]
  <2> DEFINE A(u) == IF Owns(u) /\ executed[u] > 0 THEN result[Ctx(u)].val ELSE NoOne
  <2>1. executed'[t] > 0  BY <1>1, <1>3 DEF Saturate
  <2>2. A(t)' = v  BY <1>1, <1>3, <1>4, <2>1 DEF Ctx
  <2>3. \A u \in Threads \ {t} : A(u)' = A(u)  BY <1>1, <1>2, <1>3, <1>4 DEF Ctx
  <2> QED  BY <1>1, <2>2, <2>3 DEF answerBar
<1> QED  BY <1>1, <1>5, <1>6, <1>7, <1>8, <1>9 DEF Rpc!Execute

\* The end of a call, by either of the two ways out.
LEMMA StepReturn ==
    ASSUME Inv, NEW t \in Threads, NEW r \in ResultType, Owns(t), ~Owns(t)',
           \A u \in Threads \ {t} : Owns(u)' <=> Owns(u),
           status' = [status EXCEPT ![Ctx(t)] = "IDLE"], ret' = [ret EXCEPT ![t] = r],
           UNCHANGED <<args, result, call, executed>>,
           \/ answerBar[t] # NoOne /\ r.val = answerBar[t]
           \/ IsEvent(call[t]) /\ r.val \in {-1, 0}
    PROVE  Rpc!Return(t, r.val)
<1> USE CtxType DEF Inv, TypeOK
<1>1. servingBar[Ctx(t)] = t  BY ServedOwner
<1>2. eventBar[t] <=> IsEvent(call[t])  BY DEF eventBar
<1>3. gotBar' = [gotBar EXCEPT ![t] = r.val]  BY DEF gotBar
<1>4. servingBar' = [servingBar EXCEPT ![Ctx(t)] = NoOne]  BY DEF servingBar
<1>5. eventBar' = [eventBar EXCEPT ![t] = FALSE]
  <2>1. \A u \in Threads : IsEvent(call[u])' <=> IsEvent(call[u])  BY DEF IsEvent
  <2> QED  BY <2>1 DEF eventBar
<1>6. answerBar' = [answerBar EXCEPT ![t] = NoOne]  BY DEF answerBar, Ctx
<1> QED  BY <1>1, <1>2, <1>3, <1>4, <1>5, <1>6 DEF Rpc!Return

\* The initial state maps to the initial state of the service.
LEMMA InitRpc == Init => Rpc!Init
<1> SUFFICES ASSUME Init PROVE Rpc!Init  OBVIOUS
<1>1. \A t \in Threads : ~Owns(t)  BY DEF Init, Owns
<1>2. servingBar = [c \in Contexts |-> NoOne]  BY DEF Init, servingBar
<1>3. eventBar = [t \in Threads |-> FALSE]  BY <1>1 DEF eventBar
<1>4. answerBar = [t \in Threads |-> NoOne]  BY <1>1 DEF answerBar
<1>5. gotBar = [t \in Threads |-> 0]  BY DEF Init, gotBar, NoResult
<1> QED  BY <1>2, <1>3, <1>4, <1>5 DEF Rpc!Init

\* Every step of the protocol maps to a step of the service or to a stutter.
LEMMA StepRpc == Inv /\ ReplyInv /\ [Next]_vars => [Rpc!Next]_(Rpc!rpcVars)
<1> SUFFICES ASSUME Inv, ReplyInv, [Next]_vars PROVE [Rpc!Next]_(Rpc!rpcVars)  OBVIOUS
<1> DEFINE R == [Rpc!Next]_(Rpc!rpcVars)
<1> HIDE DEF R
<1> USE DEF Inv, TypeOK, scVars, threadVars, fsVars, history
<1>a. UNCHANGED Rpc!rpcVars => R  BY DEF R
<1>b. ASSUME NEW t \in Threads, NEW v \in {-1, 0, 1}, Rpc!Return(t, v) PROVE R
  BY <1>b DEF R, Rpc!Next
<1>1. ASSUME NEW t \in Threads, NEW k \in CallSet, Invoke(t, k) PROVE R
  <2>1. Rpc!Begin(t)  BY <1>1, StepBegin
  <2> QED  BY <2>1 DEF R, Rpc!Next
<1>2. ASSUME NEW t \in Threads, DirtyRead(t) PROVE R
  <2>1. /\ UNCHANGED <<status, args, result, call, executed, ret>>
        /\ \A u \in Threads : Owns(u)' <=> Owns(u)
    BY <1>2 DEF DirtyRead, Owns
  <2> QED  BY <2>1, Stutter, <1>a
<1>3. ASSUME NEW t \in Threads, SpinLock(t) PROVE R
  <2>1. /\ UNCHANGED <<status, args, result, call, executed, ret>>
        /\ \A u \in Threads : Owns(u)' <=> Owns(u)
    BY <1>3 DEF SpinLock, Owns
  <2> QED  BY <2>1, Stutter, <1>a
<1>4. ASSUME NEW t \in Threads, RecheckIdle(t) PROVE R
  <2>1. /\ UNCHANGED <<status, args, result, call, executed, ret>>
        /\ \A u \in Threads : Owns(u)' <=> Owns(u)
    BY <1>4 DEF RecheckIdle, Recheck, Owns
  <2> QED  BY <2>1, Stutter, <1>a
<1>5. ASSUME NEW t \in Threads, RecheckRep(t) PROVE R
  <2>1. /\ UNCHANGED <<status, args, result, call, executed, ret>>
        /\ \A u \in Threads : Owns(u)' <=> Owns(u)
    BY <1>5 DEF RecheckRep, Recheck, Owns
  <2> QED  BY <2>1, Stutter, <1>a
<1>6. ASSUME NEW t \in Threads, SemTake(t) PROVE R
  <2>1. /\ UNCHANGED <<status, args, result, call, executed, ret>>
        /\ \A u \in Threads : Owns(u)' <=> Owns(u)
    BY <1>6 DEF SemTake, Owns
  <2> QED  BY <2>1, Stutter, <1>a
<1>7. ASSUME NEW t \in Threads, SemTimeout(t) PROVE R
  <2>1. /\ UNCHANGED <<status, args, result, call, executed, ret>>
        /\ \A u \in Threads : Owns(u)' <=> Owns(u)
    BY <1>7 DEF SemTimeout, Owns
  <2> QED  BY <2>1, Stutter, <1>a
<1>8. ASSUME NEW t \in Threads, SemError(t) PROVE R
  <2>1. /\ UNCHANGED <<status, args, result, call, executed, ret>>
        /\ \A u \in Threads : Owns(u)' <=> Owns(u)
    BY <1>8 DEF SemError, Owns
  <2> QED  BY <2>1, Stutter, <1>a
<1>9. ASSUME NEW t \in Threads, Submit(t) PROVE R
  <2>1. \E e \in BOOLEAN : Rpc!Ask(t, e)  BY <1>9, StepAsk
  <2> QED  BY <2>1 DEF R, Rpc!Next
<1>10. ASSUME NEW t \in Threads, TakeReply(t) PROVE R
  <2> DEFINE r == result[Ctx(t)]
  <2>1. /\ Owns(t) /\ ~Owns(t)' /\ \A u \in Threads \ {t} : Owns(u)' <=> Owns(u)
        /\ status' = [status EXCEPT ![Ctx(t)] = "IDLE"] /\ ret' = [ret EXCEPT ![t] = r]
        /\ UNCHANGED <<args, result, call, executed>>
    BY <1>10 DEF TakeReply, Owns
  <2>2. executed[t] > 0 /\ r \in ResultType  BY <1>10, <2>1, CtxType DEF TakeReply, StatusInv, ReplyInv
  <2>3. r.val \in {-1, 0, 1}  BY <2>2 DEF ResultType, Results
  <2>4. answerBar[t] = r.val /\ answerBar[t] # NoOne
    BY <2>1, <2>2, <2>3, NameAssumption DEF answerBar
  <2>5. Rpc!Return(t, r.val)  BY <2>1, <2>2, <2>4, StepReturn
  <2> QED  BY <2>3, <2>5, <1>b
<1>11. ASSUME NEW t \in Threads, Finish(t) PROVE R
  <2> DEFINE w == [by |-> NoOne, val |-> IF outcome[t] = "timeout" THEN 0 ELSE -1]
             r == IF outcome[t] = "token" THEN result[Ctx(t)] ELSE w
  <2>1. /\ Owns(t) /\ ~Owns(t)' /\ \A u \in Threads \ {t} : Owns(u)' <=> Owns(u)
        /\ status' = [status EXCEPT ![Ctx(t)] = "IDLE"] /\ ret' = [ret EXCEPT ![t] = r]
        /\ UNCHANGED <<args, result, call, executed>>
    BY <1>11 DEF Finish, StatusAfter, Owns
  <2>2. IsEvent(call[t])  BY <1>11 DEF Finish, WaitInv, Sleeps, IsEvent
  <2>3. r \in ResultType /\ r.val \in {-1, 0, 1}  BY CtxType DEF ResultType, Results
  <2>4. \/ answerBar[t] # NoOne /\ r.val = answerBar[t]
        \/ r.val \in {-1, 0}
    <3>1. CASE outcome[t] # "token"  BY <3>1
    <3>2. CASE outcome[t] = "token" /\ executed[t] = 0
      BY <2>1, <2>2, <3>2 DEF ReplyInv, NoResult
    <3>3. CASE outcome[t] = "token" /\ executed[t] > 0
      BY <2>1, <2>3, <3>3, NameAssumption DEF answerBar
    <3> QED  BY <3>1, <3>2, <3>3
  <2>5. Rpc!Return(t, r.val)  BY <2>1, <2>2, <2>3, <2>4, StepReturn
  <2> QED  BY <2>3, <2>5, <1>b
<1>12. ASSUME NEW p \in Procs, AlarmLock(p) PROVE R
  <2>1. /\ UNCHANGED <<status, args, result, call, executed, ret>>
        /\ \A u \in Threads : Owns(u)' <=> Owns(u)
    BY <1>12 DEF AlarmLock, Owns
  <2> QED  BY <2>1, Stutter, <1>a
<1>13. ASSUME NEW p \in Procs, AlarmPost(p) PROVE R
  <2>1. /\ UNCHANGED <<status, args, result, call, executed, ret>>
        /\ \A u \in Threads : Owns(u)' <=> Owns(u)
    BY <1>13 DEF AlarmPost, Owns
  <2> QED  BY <2>1, Stutter, <1>a
<1>14. ASSUME FsScan PROVE R
  <2>1. /\ UNCHANGED <<status, args, result, call, executed, ret>>
        /\ \A u \in Threads : Owns(u)' <=> Owns(u)
    BY <1>14 DEF FsScan, Owns
  <2> QED  BY <2>1, Stutter, <1>a
<1>15. ASSUME FsTryLock PROVE R
  <2>1. /\ UNCHANGED <<status, args, result, call, executed, ret>>
        /\ \A u \in Threads : Owns(u)' <=> Owns(u)
    BY <1>15 DEF FsTryLock, Owns
  <2> QED  BY <2>1, Stutter, <1>a
<1>16. ASSUME FsRecheck PROVE R
  <2>1. /\ UNCHANGED <<status, args, result, call, executed, ret>>
        /\ \A u \in Threads : Owns(u)' <=> Owns(u)
    BY <1>16 DEF FsRecheck, Owns
  <2> QED  BY <2>1, Stutter, <1>a
<1>17. ASSUME UNCHANGED vars PROVE R
  <2>1. /\ UNCHANGED <<status, args, result, call, executed, ret>>
        /\ \A u \in Threads : Owns(u)' <=> Owns(u)
    BY <1>17 DEF vars, Owns
  <2> QED  BY <2>1, Stutter, <1>a
<1>18. ASSUME NEW v \in Results, FsHandle(v) PROVE R
  <2>1. \E t \in Threads : Rpc!Execute(t, v)  BY <1>18, StepExecute
  <2> QED  BY <2>1 DEF R, Rpc!Next, Results
<1>c. R
  BY <1>1, <1>2, <1>3, <1>4, <1>5, <1>6, <1>7, <1>8, <1>9, <1>10, <1>11, <1>12, <1>13,
     <1>14, <1>15, <1>16, <1>17, <1>18 DEF Next, ThreadStep, RunStep, FsStep
<1> QED  BY <1>c DEF R

(***************************************************************************)
(* The semaphore IPC, with its polling variant, implements the abstract    *)
(* service: whatever the threads of all the processes do, a context serves *)
(* one call at a time, a plain call is executed exactly once before it     *)
(* returns, and it returns that execution's result.                        *)
(***************************************************************************)
THEOREM Refinement == Spec => ImplementsRpc
<1>1. Init => Rpc!Init  BY InitRpc
<1>2. Inv /\ ReplyInv /\ [Next]_vars => [Rpc!Next]_(Rpc!rpcVars)  BY StepRpc
<1> QED  BY <1>1, <1>2, Invariance, InitReply, StepReply, PTL DEF Spec, ImplementsRpc, Rpc!Spec
=============================================================================
