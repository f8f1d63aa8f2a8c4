-------------------------- MODULE MCFlowScheduler --------------------------
(* FlowScheduler for TLC. *)
EXTENDS FlowScheduler, TLC

CONSTANTS f1, f2

\* f1 can be registered anew while a tick still holds its former entry.
MCSchedules == {[flow |-> f1, kind |-> "cron"], [flow |-> f1, kind |-> "interval"],
                [flow |-> f2, kind |-> "interval"]}

MCSymmetry == Permutations(Chains) \cup Permutations(Workers)
=============================================================================
