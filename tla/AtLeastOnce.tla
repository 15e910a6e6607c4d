---------------------------- MODULE AtLeastOnce ----------------------------
(***************************************************************************)
(* What the transactional outbox promises about a set of events, with no   *)
(* locks, batches, workers or clocks.  An event that was submitted stays   *)
(* queued until it is either published or dead, and both are final.  Being *)
(* published takes a copy the broker has accepted, or the word for one: a  *)
(* broker that answers out of step may confirm an event it has refused.    *)
(* It may accept an event again at any later time: delivery is at least    *)
(* once where every confirmation is true.                                  *)
(***************************************************************************)
CONSTANT Events

VARIABLES
    state,      \* state[e] is "none", "queued", "published" or "dead"
    accepted,   \* the events of which the broker has accepted a copy
    doubtful    \* the events it has confirmed when it had refused them

vars == <<state, accepted, doubtful>>

Init ==
    /\ state = [e \in Events |-> "none"]
    /\ accepted = {}
    /\ doubtful = {}

Submit(e) ==
    /\ state[e] = "none"
    /\ state' = [state EXCEPT ![e] = "queued"]
    /\ UNCHANGED <<accepted, doubtful>>

Accept(e) ==
    /\ state[e] # "none"
    /\ accepted' = accepted \union {e}
    /\ UNCHANGED <<state, doubtful>>

Doubt(e) ==
    /\ state[e] # "none"
    /\ doubtful' = doubtful \union {e}
    /\ UNCHANGED <<state, accepted>>

Settle(e) ==
    /\ state[e] = "queued"
    /\ e \in accepted \union doubtful
    /\ state' = [state EXCEPT ![e] = "published"]
    /\ UNCHANGED <<accepted, doubtful>>

\* One failure may give up on several events at once.
GiveUp(S) ==
    /\ \A e \in S : state[e] = "queued"
    /\ state' = [e \in Events |-> IF e \in S THEN "dead" ELSE state[e]]
    /\ UNCHANGED <<accepted, doubtful>>

Next ==
    \/ \E e \in Events : Submit(e) \/ Accept(e) \/ Doubt(e) \/ Settle(e)
    \/ \E S \in SUBSET Events : GiveUp(S)

Spec == Init /\ [][Next]_vars
=============================================================================
