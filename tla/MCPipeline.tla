----------------------------- MODULE MCPipeline -----------------------------
(***************************************************************************)
(* Instances of Pipeline for TLC.                                          *)
(***************************************************************************)
EXTENDS Pipeline, TLC

\* Every row and every cycle may hold a token, and one is free.
ConstTokens == 1 .. (Cardinality(Events) + Cardinality(Processes) + 1)

B(publish, fault, late) ==
    [d \in {"publish", "fault", "late"} |->
        CASE d = "publish" -> publish [] d = "fault" -> fault [] d = "late" -> late]

FullBudget == B(2, 1, 1)
=============================================================================
