---------------------------- MODULE OrderLedger ----------------------------
(***************************************************************************)
(* What the order service promises, with no requests, transactions, locks  *)
(* or idempotency keys: an order is placed once, leaves pending at most    *)
(* once, and each of these changes appears together with its one event.    *)
(***************************************************************************)
EXTENDS Naturals

CONSTANT Orders

VARIABLES
    status,   \* status[o] is "none", "pending", "paid" or "cancelled"
    log       \* log[<<type, o>>] counts the events in the outbox

vars == <<status, log>>

Targets == {"paid", "cancelled"}

Types == Targets \union {"created"}

Init ==
    /\ status = [o \in Orders |-> "none"]
    /\ log = [event \in Types \X Orders |-> 0]

Place(o) ==
    /\ status[o] = "none"
    /\ status' = [status EXCEPT ![o] = "pending"]
    /\ log' = [log EXCEPT ![<<"created", o>>] = @ + 1]

Close(o, target) ==
    /\ status[o] = "pending"
    /\ status' = [status EXCEPT ![o] = target]
    /\ log' = [log EXCEPT ![<<target, o>>] = @ + 1]

Next ==
    \E o \in Orders :
        \/ Place(o)
        \/ \E target \in Targets : Close(o, target)

Spec == Init /\ [][Next]_vars
=============================================================================
