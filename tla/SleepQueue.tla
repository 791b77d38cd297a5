----------------------------- MODULE SleepQueue -----------------------------
(***************************************************************************)
(* The micro threads' use of the heap: threads go to sleep until a wake-up *)
(* time, and leave the heap because their event came (any of them) or      *)
(* because their time has come (the top, WakeupTimeout).  A thread's       *)
(* number is its wake-up time, so it sleeps once.                          *)
(***************************************************************************)
EXTENDS HeapList

VARIABLES heap, slept

vars == <<heap, slept>>

WakeupTime == [e \in Entries |-> e]

Init == heap = EmptyHeap /\ slept = {}

InsertSleep(e) ==
    /\ e \notin slept
    /\ heap' = HeapPush(heap, e, WakeupTime)
    /\ slept' = slept \cup {e}

RemoveSleep(e) ==
    /\ heap.index[e] # 0
    /\ heap' = HeapDelete(heap, e, WakeupTime)
    /\ UNCHANGED slept

Next == \E e \in Entries : InsertSleep(e) \/ RemoveSleep(e)

Spec == Init /\ [][Next]_vars

\* The heap is a "minimum heap queue" (heap.h): its top, the only entry that
\* WakeupTimeout and KqueueGetTimeout look at, has the least HeapValue.
TopIsMin ==
    heap.list # <<>> =>
        \A i \in 1 .. Len(heap.list) :
            WakeupTime[HeapTop(heap)] <= WakeupTime[heap.list[i]]
=============================================================================
