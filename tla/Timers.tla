------------------------------- MODULE Timers -------------------------------
(***************************************************************************)
(* What the callouts of ff_kern_timeout.c promise the code that arms them: *)
(* a handler runs once for each time it is armed, one handler at a time,   *)
(* never before the number of ticks it was armed for has gone by, and      *)
(* never after it was stopped.  How late it may be is left open here;      *)
(* CallWheel!DueFires is the liveness half.                                *)
(***************************************************************************)
EXTENDS Integers

CONSTANTS
    Callouts,    \* the struct callouts of one stack thread
    Delays,      \* the ticks a callout can be armed for
    None         \* no callout

VARIABLES
    armed,       \* the callouts that wait for their time
    left,        \* ticks until the time of an armed callout, 0 otherwise
    running      \* the callout whose handler runs, or None

vars == <<armed, left, running>>

Init ==
    /\ armed = {}
    /\ left = [c \in Callouts |-> 0]
    /\ running = None

Arm(c, n) ==
    /\ armed' = armed \cup {c}
    /\ left' = [left EXCEPT ![c] = n]
    /\ UNCHANGED running

Disarm(c) ==
    /\ armed' = armed \ {c}
    /\ left' = [left EXCEPT ![c] = 0]
    /\ UNCHANGED running

\* A callout armed for n ticks in the course of a tick has waited n full
\* ticks once the clock has moved n + 1 times.
Fire(c) ==
    /\ c \in armed
    /\ left[c] < 0
    /\ running = None
    /\ armed' = armed \ {c}
    /\ left' = [left EXCEPT ![c] = 0]
    /\ running' = c

Return ==
    /\ running # None
    /\ running' = None
    /\ UNCHANGED <<armed, left>>

Tick ==
    /\ left' = [c \in Callouts |-> IF c \in armed THEN left[c] - 1 ELSE 0]
    /\ UNCHANGED <<armed, running>>

Next ==
    \/ Tick
    \/ Return
    \/ \E c \in Callouts : Disarm(c) \/ Fire(c) \/ \E n \in Delays : Arm(c, n)

Spec == Init /\ [][Next]_vars
=============================================================================
