-------------------------- MODULE MCAuditConsumer --------------------------
(***************************************************************************)
(* Instances of AuditConsumer for TLC.                                     *)
(***************************************************************************)
EXTENDS AuditConsumer, TLC

B(publish, fault, late) ==
    [d \in Disturbances |-> CASE d = "publish" -> publish
                              [] d = "fault" -> fault
                              [] d = "late" -> late]

\* Two publications, one fault of any kind, and enough late ticks for a lock to
\* run out under its owner.
FullBudget == B(2, 1, 2)

OneFaultBudget == B(1, 1, 0)

=============================================================================
