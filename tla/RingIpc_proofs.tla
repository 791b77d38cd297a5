--------------------------- MODULE RingIpc_proofs ---------------------------
(* Proofs about RingIpc for every size of the ring and of objs, calls, timeouts and alarms. *)
EXTENDS RingIpc, TLAPS

Undisturbed == cuts = 0 /\ alarms = 0

(***************************************************************************)
(* Until the first timeout or alarm the application and fstack alternate.  *)
(* The flag that says so is completion, from Clear on: between Clear and   *)
(* Enqueue nobody sets it, because the context is not in flight then, and  *)
(* while the application waits it is clear exactly as long as the context  *)
(* is in flight.                                                           *)
(***************************************************************************)
TurnInv ==
    Undisturbed =>
        /\ InFlight = 0 \/ (InFlight = 1 /\ pc = "wait" /\ ~completion)
        /\ pc = "enqueue" => ~completion
        /\ fsPc \in {"handle", "respond"} => fresh

(***************************************************************************)
(* In the same time the handler finishes once for a submission, and the    *)
(* result is the submission's own from then on.                            *)
(***************************************************************************)
Answered == fsPc = "respond" \/ completion

ReplyInv ==
    Undisturbed =>
        /\ pc \in {"clear", "enqueue"} => executed = 0
        /\ pc = "wait" /\ ~Answered => executed = 0
        /\ pc = "wait" /\ Answered => executed = 1 /\ result.own

(***************************************************************************)
(* Disturbed or not, what is in flight is accounted for.  A flag that is   *)
(* already set while the application is about to wait, or waits, is an     *)
(* answer used up in advance: it counts like an entry in flight, because   *)
(* the wait it ends leaves the entry of its own call behind.               *)
(***************************************************************************)
UsedUp == IF completion /\ pc \in {"enqueue", "wait"} THEN 1 ELSE 0
Waiting == IF pc = "wait" THEN 1 ELSE 0

StaleInv == InFlight + UsedUp <= cuts + alarms + Waiting

Inv == TypeOK /\ WaitIsServed /\ TurnInv /\ ReplyInv /\ StaleInv

-----------------------------------------------------------------------------
USE RingAssumption, CallAssumption, BoundAssumption DEF Capacity

\* The result a call starts with.
LEMMA ZeroType == Zero \in [own: BOOLEAN, val: Results]
BY DEF Zero, Results

\* The invariant holds at the start.
LEMMA InitInv == Init => Inv
<1> SUFFICES ASSUME Init PROVE Inv  OBVIOUS
<1>1. TypeOK
  <2>1. ret \in [own: BOOLEAN, val: Results] /\ result \in [own: BOOLEAN, val: Results]
    BY ZeroType DEF Init
  <2>2. /\ pc = "run" /\ call \in CallSet /\ queued = 0 /\ burst = 0 /\ fsPc = "poll"
        /\ ~completion /\ ~fresh /\ cuts = 0 /\ executed = 0 /\ alarms = 0
        /\ completion \in BOOLEAN /\ fresh \in BOOLEAN
    BY DEF Init
  <2> QED  BY <2>1, <2>2 DEF TypeOK
<1> USE DEF Init
<1>2. WaitIsServed  BY DEF WaitIsServed
<1>3. TurnInv  BY DEF TurnInv, InFlight
<1>4. ReplyInv  BY DEF ReplyInv
<1>5. StaleInv  BY DEF StaleInv, InFlight, UsedUp, Waiting
<1> QED  BY <1>1, <1>2, <1>3, <1>4, <1>5 DEF Inv

\* The ring never holds more than its capacity, and a burst no more than the ring.
LEMMA StepType == TypeOK /\ [Next]_vars => TypeOK'
<1> SUFFICES ASSUME TypeOK, [Next]_vars PROVE TypeOK'  OBVIOUS
<1> USE DEF TypeOK, appVars, scVars, fsVars, history
<1>1. ASSUME NEW k \in CallSet, Fill(k) PROVE TypeOK'
  <2>1. ret' \in [own: BOOLEAN, val: Results] /\ result' \in [own: BOOLEAN, val: Results]
    BY <1>1, ZeroType DEF Fill
  <2>2. pc' = "clear" /\ call' \in CallSet /\ executed' = 0 /\ fresh' \in BOOLEAN
    BY <1>1 DEF Fill
  <2>3. UNCHANGED <<completion, queued, burst, fsPc, cuts, alarms>>  BY <1>1 DEF Fill
  <2> QED  BY <2>1, <2>2, <2>3
<1>2. CASE Clear  BY <1>2 DEF Clear, CompletionCleared
<1>3. CASE Enqueue  BY <1>3 DEF Enqueue, HasRoom
<1>4. CASE Complete  BY <1>4 DEF Complete, AfterWait
<1>5. CASE TimeOut  BY <1>5, ZeroType DEF TimeOut, AfterWait
<1>6. CASE Alarm  BY <1>6 DEF Alarm
<1>7. CASE Dequeue  BY <1>7 DEF Dequeue, Handled
<1>8. CASE HandlerStart  BY <1>8 DEF HandlerStart, CompletionAtStart
<1>9. ASSUME NEW v \in Results, HandlerEnd(v) PROVE TypeOK'
  BY <1>9 DEF HandlerEnd, Saturate
<1>10. CASE SendResponse  BY <1>10 DEF SendResponse, CompletionAtEnd
<1>11. CASE Overrun  BY <1>11 DEF Overrun
<1>12. CASE UNCHANGED vars  BY <1>12 DEF vars
<1> QED
  BY <1>1, <1>2, <1>3, <1>4, <1>5, <1>6, <1>7, <1>8, <1>9, <1>10, <1>11, <1>12
  DEF Next, AppStep, FsStep

\* A clear flag of a waiting application has its context in flight.
LEMMA StepServed == TypeOK /\ WaitIsServed /\ [Next]_vars => WaitIsServed'
<1> SUFFICES ASSUME TypeOK, WaitIsServed, [Next]_vars PROVE WaitIsServed'  OBVIOUS
<1> USE DEF TypeOK, WaitIsServed, InFlight, appVars, scVars, fsVars, history
<1>1. ASSUME NEW k \in CallSet, Fill(k) PROVE WaitIsServed'  BY <1>1 DEF Fill
<1>2. CASE Clear  BY <1>2 DEF Clear, CompletionCleared
<1>3. CASE Enqueue  BY <1>3 DEF Enqueue
<1>4. CASE Complete  BY <1>4 DEF Complete, AfterWait
<1>5. CASE TimeOut  BY <1>5 DEF TimeOut, AfterWait
<1>6. CASE Alarm  BY <1>6 DEF Alarm
<1>7. CASE Dequeue  BY <1>7 DEF Dequeue, Handled
<1>8. CASE HandlerStart  BY <1>8 DEF HandlerStart, CompletionAtStart
<1>9. ASSUME NEW v \in Results, HandlerEnd(v) PROVE WaitIsServed'  BY <1>9 DEF HandlerEnd
<1>10. CASE SendResponse  BY <1>10 DEF SendResponse, CompletionAtEnd
<1>11. CASE Overrun  BY <1>11 DEF Overrun
<1>12. CASE UNCHANGED vars  BY <1>12 DEF vars
<1> QED
  BY <1>1, <1>2, <1>3, <1>4, <1>5, <1>6, <1>7, <1>8, <1>9, <1>10, <1>11, <1>12
  DEF Next, AppStep, FsStep

\* A disturbance is for ever, so an undisturbed state follows an undisturbed one.
LEMMA UndisturbedBefore == TypeOK /\ [Next]_vars /\ Undisturbed' => Undisturbed
<1> SUFFICES ASSUME TypeOK, [Next]_vars, Undisturbed' PROVE Undisturbed  OBVIOUS
<1> USE DEF TypeOK, Undisturbed, history
<1>1. ASSUME NEW k \in CallSet, Fill(k) PROVE Undisturbed  BY <1>1 DEF Fill
<1>2. CASE Clear \/ Enqueue \/ Complete  BY <1>2 DEF Clear, Enqueue, Complete
<1>3. CASE TimeOut  BY <1>3 DEF TimeOut
<1>4. CASE Alarm  BY <1>4 DEF Alarm
<1>5. CASE Dequeue \/ Overrun \/ HandlerStart \/ SendResponse
  BY <1>5 DEF Dequeue, Overrun, HandlerStart, SendResponse
<1>6. ASSUME NEW v \in Results, HandlerEnd(v) PROVE Undisturbed  BY <1>6 DEF HandlerEnd
<1>7. CASE UNCHANGED vars  BY <1>7 DEF vars
<1> QED  BY <1>1, <1>2, <1>3, <1>4, <1>5, <1>6, <1>7 DEF Next, AppStep, FsStep

\* An undisturbed step is neither a timeout nor an alarm.
LEMMA UndisturbedStep ==
    TypeOK /\ [Next]_vars /\ Undisturbed' =>
        \/ \E k \in CallSet : Fill(k)
        \/ Clear \/ Enqueue \/ Complete
        \/ Dequeue \/ Overrun \/ HandlerStart \/ SendResponse
        \/ \E v \in Results : HandlerEnd(v)
        \/ UNCHANGED vars
<1> SUFFICES ASSUME TypeOK, [Next]_vars, Undisturbed' PROVE ~TimeOut /\ ~Alarm
  BY DEF Next, AppStep, FsStep, TypeOK
<1>1. ~TimeOut  BY DEF TimeOut, Undisturbed, TypeOK
<1>2. ~Alarm  BY DEF Alarm, Undisturbed, TypeOK
<1> QED  BY <1>1, <1>2

\* The application and fstack alternate until they are disturbed.
LEMMA StepTurn == Inv /\ [Next]_vars => TurnInv'
<1> SUFFICES ASSUME Inv, [Next]_vars, Undisturbed'
             PROVE  /\ InFlight' = 0 \/ (InFlight' = 1 /\ pc' = "wait" /\ ~completion')
                    /\ pc' = "enqueue" => ~completion'
                    /\ fsPc' \in {"handle", "respond"} => fresh'
  BY DEF TurnInv
<1> DEFINE Goal == /\ InFlight' = 0 \/ (InFlight' = 1 /\ pc' = "wait" /\ ~completion')
                   /\ pc' = "enqueue" => ~completion'
                   /\ fsPc' \in {"handle", "respond"} => fresh'
<1>0. Undisturbed  BY UndisturbedBefore DEF Inv
<1> USE <1>0 DEF Inv, TypeOK, TurnInv, InFlight, appVars, scVars, fsVars, history
<1>1. ASSUME NEW k \in CallSet, Fill(k) PROVE Goal  BY <1>1 DEF Fill
<1>2. CASE Clear  BY <1>2 DEF Clear, CompletionCleared
<1>3. CASE Enqueue  BY <1>3 DEF Enqueue
<1>4. CASE Complete  BY <1>4 DEF Complete, AfterWait
<1>5. CASE Dequeue  BY <1>5 DEF Dequeue, Handled
<1>6. CASE HandlerStart  BY <1>6 DEF HandlerStart, CompletionAtStart
<1>7. ASSUME NEW v \in Results, HandlerEnd(v) PROVE Goal  BY <1>7 DEF HandlerEnd
<1>8. CASE SendResponse  BY <1>8 DEF SendResponse, CompletionAtEnd
<1>9. CASE Overrun  BY <1>9 DEF Overrun
<1>10. CASE UNCHANGED vars  BY <1>10 DEF vars
<1> QED  BY <1>1, <1>2, <1>3, <1>4, <1>5, <1>6, <1>7, <1>8, <1>9, <1>10, UndisturbedStep

\* One execution per submission, whose result stays until the call returns.
LEMMA StepReply == Inv /\ [Next]_vars => ReplyInv'
<1> SUFFICES ASSUME Inv, [Next]_vars, Undisturbed'
             PROVE  /\ pc' \in {"clear", "enqueue"} => executed' = 0
                    /\ pc' = "wait" /\ ~Answered' => executed' = 0
                    /\ pc' = "wait" /\ Answered' => executed' = 1 /\ result'.own
  BY DEF ReplyInv
<1> DEFINE Goal == /\ pc' \in {"clear", "enqueue"} => executed' = 0
                   /\ pc' = "wait" /\ ~Answered' => executed' = 0
                   /\ pc' = "wait" /\ Answered' => executed' = 1 /\ result'.own
<1>0. Undisturbed  BY UndisturbedBefore DEF Inv
<1> USE <1>0 DEF Inv, TypeOK, ReplyInv, Answered, appVars, scVars, fsVars, history
<1>1. ASSUME NEW k \in CallSet, Fill(k) PROVE Goal  BY <1>1 DEF Fill
<1>2. CASE Clear  BY <1>2 DEF Clear, CompletionCleared
<1>3. CASE Enqueue  BY <1>3 DEF Enqueue, TurnInv, InFlight
<1>4. CASE Complete  BY <1>4 DEF Complete, AfterWait
<1>5. CASE Dequeue  BY <1>5 DEF Dequeue
<1>6. CASE HandlerStart  BY <1>6 DEF HandlerStart, CompletionAtStart
<1>7. ASSUME NEW v \in Results, HandlerEnd(v) PROVE Goal
  BY <1>7 DEF HandlerEnd, TurnInv, InFlight, Saturate
<1>8. CASE SendResponse  BY <1>8 DEF SendResponse, CompletionAtEnd
<1>9. CASE Overrun  BY <1>9 DEF Overrun
<1>10. CASE UNCHANGED vars  BY <1>10 DEF vars
<1> QED  BY <1>1, <1>2, <1>3, <1>4, <1>5, <1>6, <1>7, <1>8, <1>9, <1>10, UndisturbedStep

\* An entry is added by a call that waits for it, or left behind by a wait cut short.
LEMMA StepStale == TypeOK /\ StaleInv /\ [Next]_vars => StaleInv'
<1> SUFFICES ASSUME TypeOK, StaleInv, [Next]_vars PROVE StaleInv'  OBVIOUS
<1> USE DEF TypeOK, StaleInv, InFlight, UsedUp, Waiting, appVars, scVars, fsVars, history
<1>1. ASSUME NEW k \in CallSet, Fill(k) PROVE StaleInv'  BY <1>1 DEF Fill
<1>2. CASE Clear  BY <1>2 DEF Clear, CompletionCleared
<1>3. CASE Enqueue  BY <1>3 DEF Enqueue
<1>4. CASE Complete  BY <1>4 DEF Complete, AfterWait
<1>5. CASE TimeOut  BY <1>5 DEF TimeOut, AfterWait
<1>6. CASE Alarm  BY <1>6 DEF Alarm
<1>7. CASE Dequeue  BY <1>7 DEF Dequeue, Handled
<1>8. CASE HandlerStart  BY <1>8 DEF HandlerStart, CompletionAtStart
<1>9. ASSUME NEW v \in Results, HandlerEnd(v) PROVE StaleInv'  BY <1>9 DEF HandlerEnd
<1>10. CASE SendResponse  BY <1>10 DEF SendResponse, CompletionAtEnd
<1>11. CASE Overrun  BY <1>11 DEF Overrun
<1>12. CASE UNCHANGED vars  BY <1>12 DEF vars
<1> QED
  BY <1>1, <1>2, <1>3, <1>4, <1>5, <1>6, <1>7, <1>8, <1>9, <1>10, <1>11, <1>12
  DEF Next, AppStep, FsStep

-----------------------------------------------------------------------------
(***************************************************************************)
(* Inv is an invariant of the ring IPC.                                    *)
(***************************************************************************)
THEOREM RingInvariance == Spec => []Inv
<1>1. Inv /\ [Next]_vars => Inv'  BY StepType, StepServed, StepTurn, StepReply, StepStale DEF Inv
<1> QED  BY InitInv, <1>1, PTL DEF Spec

\* Every variable keeps its type; the ring and a burst stay within its capacity.
THEOREM RingTypes == Spec => []TypeOK
<1>1. Inv => TypeOK  BY DEF Inv
<1> QED  BY RingInvariance, <1>1, PTL

\* ff_ring_submit_and_wait never spins on a completion flag that nobody will set.
THEOREM WaitsAreServed == Spec => []WaitIsServed
<1>1. Inv => WaitIsServed  BY DEF Inv
<1> QED  BY RingInvariance, <1>1, PTL

\* req_ring and fstack hold one entry per wait cut short, and that of the waiting call.
THEOREM StaleEntriesBounded == Spec => []StaleBounded
<1>1. Inv => StaleBounded
  BY DEF Inv, TypeOK, StaleInv, StaleBounded, InFlight, UsedUp, Waiting
<1> QED  BY RingInvariance, <1>1, PTL

(***************************************************************************)
(* The array objs overflows only after as many cut waits as it has places: *)
(* what remains of the ring's safety when fstack asks for FF_RING_SIZE     *)
(* entries and has fewer places.                                           *)
(***************************************************************************)
THEOREM ObjsOverflowNeedsCuts == Spec => [](queued > ObjsMax => cuts + alarms >= ObjsMax)
<1>1. Inv => (queued > ObjsMax => cuts + alarms >= ObjsMax)
  BY DEF Inv, TypeOK, StaleInv, InFlight, UsedUp, Waiting
<1> QED  BY RingInvariance, <1>1, PTL

\* Until a wait is cut short, ff_handle_socket_ops_ring needs no lock.
THEOREM RingExclusive == Spec => []ExclusiveUntilDisturbed
<1>1. Inv => ExclusiveUntilDisturbed
  <2> SUFFICES ASSUME Inv, Undisturbed
               PROVE  HandlerExclusive /\ InFlight <= 1 /\ (InFlight = 1 => pc = "wait" /\ ~completion)
    BY DEF ExclusiveUntilDisturbed, Undisturbed
  <2>1. InFlight = 0 \/ (InFlight = 1 /\ pc = "wait" /\ ~completion)  BY DEF Inv, TurnInv
  <2>2. HandlerExclusive  BY <2>1 DEF Inv, TypeOK, TurnInv, InFlight, HandlerExclusive
  <2> QED  BY <2>1, <2>2
<1> QED  BY RingInvariance, <1>1, PTL

\* Until then a call returns the result of its own, single execution.
THEOREM RingReplies == Spec => OwnReplyUntilDisturbed
<1> DEFINE Own == pc = "wait" /\ pc' # "wait" /\ cuts' = 0 /\ alarms = 0 => executed = 1 /\ ret'.own
<1>1. Inv /\ [Next]_vars => [Own]_vars
  <2> SUFFICES ASSUME Inv, [Next]_vars, pc = "wait", pc' # "wait", cuts' = 0, alarms = 0
               PROVE  executed = 1 /\ ret'.own
    OBVIOUS
  <2>1. Complete
    <3> USE DEF appVars
    <3>1. ~TimeOut  BY DEF TimeOut, Inv, TypeOK
    <3>2. \A k \in CallSet : ~Fill(k)  BY DEF Fill
    <3>3. ~Alarm /\ ~Clear /\ ~Enqueue /\ ~(UNCHANGED vars)
      BY DEF Alarm, Clear, Enqueue, vars
    <3>4. ~Dequeue /\ ~Overrun /\ ~HandlerStart /\ ~SendResponse
      BY DEF Dequeue, Overrun, HandlerStart, SendResponse
    <3>5. \A v \in Results : ~HandlerEnd(v)  BY DEF HandlerEnd
    <3> QED  BY <3>1, <3>2, <3>3, <3>4, <3>5 DEF Next, AppStep, FsStep, Inv, TypeOK
  <2>2. Undisturbed  BY <2>1 DEF Complete, history, Undisturbed
  <2> QED  BY <2>1, <2>2 DEF Complete, Inv, ReplyInv, Answered
<1> QED  BY RingInvariance, <1>1, PTL DEF Spec, OwnReplyUntilDisturbed
=============================================================================
