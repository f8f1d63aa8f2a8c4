--------------------------- MODULE MCPackApproval ---------------------------
(* PackApproval for TLC. *)
EXTENDS PackApproval

CONSTANTS c1, c2

\* c2 differs from c1 in blocks/ only; going back changes a critical path.
MCBlocksOnly == {<<c1, c2>>}

\* Bound: while a thread scans, the other is not left between two steps that touch
\* neither records nor files of grants, such as the hashing of a verification or
\* the comparison of a rollback.  What it does there changes nothing for the scan,
\* nor the scan for it, so it may as well come before or after; what decides, saves
\* and marks still comes in between.
Quiet == {"compute", "fill", "rule", "run", "rollback", "applyCopy"}

ScansMeetDecisions ==
    \A t, u \in Threads :
        call[t].pc \in {"scan"} \cup ScanPC => call[u].pc \notin Quiet
=============================================================================
