----------------------------- MODULE SyscallRpc -----------------------------
(***************************************************************************)
(* What the adapter promises an application, whatever the IPC underneath:  *)
(* a context serves one call at a time; the stack executes a plain call    *)
(* exactly once before it returns, and the call returns that result; a     *)
(* wait for events may be executed any number of times and returns the     *)
(* latest result, or 0 (its time is up) or -1 (the wait failed).           *)
(***************************************************************************)
EXTENDS Integers

CONSTANTS Threads, Contexts, ContextOf, NoOne

VARIABLES serving, event, answer, got

rpcVars == <<serving, event, answer, got>>

Init ==
    /\ serving = [c \in Contexts |-> NoOne]
    /\ event = [t \in Threads |-> FALSE]
    /\ answer = [t \in Threads |-> NoOne]
    /\ got = [t \in Threads |-> 0]

\* A thread that is not being served makes a new call.
Begin(t) ==
    /\ serving[ContextOf[t]] # t
    /\ got' = [got EXCEPT ![t] = 0]
    /\ UNCHANGED <<serving, event, answer>>

\* Its request enters the free context.
Ask(t, e) ==
    /\ serving[ContextOf[t]] = NoOne
    /\ serving' = [serving EXCEPT ![ContextOf[t]] = t]
    /\ event' = [event EXCEPT ![t] = e]
    /\ UNCHANGED <<answer, got>>

\* The stack executes it; only a wait for events may be executed again.
Execute(t, v) ==
    /\ serving[ContextOf[t]] = t
    /\ event[t] \/ answer[t] = NoOne
    /\ answer' = [answer EXCEPT ![t] = v]
    /\ UNCHANGED <<serving, event, got>>

Return(t, v) ==
    /\ serving[ContextOf[t]] = t
    /\ \/ answer[t] # NoOne /\ v = answer[t]
       \/ event[t] /\ v \in {-1, 0}
    /\ got' = [got EXCEPT ![t] = v]
    /\ serving' = [serving EXCEPT ![ContextOf[t]] = NoOne]
    /\ event' = [event EXCEPT ![t] = FALSE]
    /\ answer' = [answer EXCEPT ![t] = NoOne]

Next ==
    \E t \in Threads :
        \/ Begin(t)
        \/ \E e \in BOOLEAN : Ask(t, e)
        \/ \E v \in {-1, 0, 1} : Execute(t, v) \/ Return(t, v)

Spec == Init /\ [][Next]_rpcVars
=============================================================================
