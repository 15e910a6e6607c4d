---------------------------- MODULE MCLifecycle ----------------------------
(***************************************************************************)
(* Two requests, both workers and a queue with room for one record; the    *)
(* process knows two migrations, and its peer, of a later release, three.  *)
(***************************************************************************)
EXTENDS Lifecycle

ConstWorkers == {"publisher", "consumer"}

ConstKnown == [i \in Instances |-> IF i = Self THEN 2 ELSE 3]
=============================================================================
