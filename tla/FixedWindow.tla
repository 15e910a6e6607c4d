---------------------------- MODULE FixedWindow ----------------------------
(***************************************************************************)
(* What a rate limit promises, with no clock readings, no mutex, no Redis  *)
(* and no requests that fail: each counter grants at most Limit in a       *)
(* window, and a window is open for MinLength at least, unless a fault     *)
(* cuts it short.                                                          *)
(***************************************************************************)
EXTENDS Naturals

CONSTANTS Counters, Limit, MinLength

VARIABLES
    granted,  \* granted[c] in the window of c
    open,     \* time since the window of c was opened, up to MinLength
    faults

vars == <<granted, open, faults>>

Init ==
    /\ granted = [c \in Counters |-> 0]
    /\ open = [c \in Counters |-> MinLength]
    /\ faults = 0

Grant(c) ==
    /\ granted[c] < Limit
    /\ granted' = [granted EXCEPT ![c] = @ + 1]
    /\ UNCHANGED <<open, faults>>

\* The first request after the end of a window opens the next one.
Roll(c) ==
    /\ open[c] = MinLength
    /\ Limit > 0
    /\ granted' = [granted EXCEPT ![c] = 1]
    /\ open' = [open EXCEPT ![c] = 0]
    /\ UNCHANGED faults

Fault(c) ==
    /\ faults' = faults + 1
    /\ open' = [open EXCEPT ![c] = MinLength]
    /\ UNCHANGED granted

Tick ==
    /\ open' = [c \in Counters |->
                   IF open[c] < MinLength THEN open[c] + 1 ELSE MinLength]
    /\ UNCHANGED <<granted, faults>>

Next ==
    \/ \E c \in Counters : Grant(c) \/ Roll(c) \/ Fault(c)
    \/ Tick

Spec == Init /\ [][Next]_vars
=============================================================================
