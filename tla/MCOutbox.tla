------------------------------ MODULE MCOutbox ------------------------------
(***************************************************************************)
(* Instances of Outbox for TLC.                                            *)
(***************************************************************************)
EXTENDS Outbox, TLC

\* Every row and every cycle may hold a token, and one is free.
ConstTokens == 1 .. (Cardinality(Events) + Cardinality(Workers) + 1)

WorkerSymmetry == Permutations(Workers)
=============================================================================
