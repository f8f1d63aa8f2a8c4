------------------------ MODULE CandidateLifecycle ------------------------
(***************************************************************************)
(* What an installer promises about its candidates: the states of          *)
(* CandidateStatus (core_runtime/capability_models.py) and who moves a     *)
(* candidate from one to the other.  A scan notifies, an approval installs *)
(* or fails, a rejection rejects or blocks, and only unblock ends a block; *)
(* a restart goes back to what was saved last, and to nothing else.        *)
(***************************************************************************)
CONSTANTS
  Candidates,  \* the candidates there can be
  Nobody       \* no candidate

VARIABLES
  status,     \* the state of each candidate
  saved,      \* the state a restart finds
  approving   \* the candidate whose approval is under way

vars == <<status, saved, approving>>

\* The states in which an operator's decision is awaited, or can be given again.
Open == {"pending", "rejected", "failed"}

Init ==
  /\ status = [k \in Candidates |-> "none"]
  /\ saved = status
  /\ approving = Nobody

\* A candidate changes its state, and all states are saved or the save is lost.
Become(k, state) ==
  /\ status' = [status EXCEPT ![k] = state]
  /\ saved' \in {status', saved}

\* A scan finds a candidate that is new, or whose cool-down is over.
Notify(k) ==
  /\ status[k] \in {"none", "rejected"}
  /\ Become(k, "pending")
  /\ UNCHANGED approving

Approve(k) ==
  /\ approving = Nobody
  /\ status[k] \in Open
  /\ approving' = k
  /\ UNCHANGED <<status, saved>>

Install(k) ==
  /\ approving = k
  /\ status[k] \in Open
  /\ Become(k, "installed")
  /\ approving' = Nobody

\* An approval that fails at its first check or later.
Fail(k) ==
  /\ approving \in {Nobody, k}
  /\ status[k] \in Open
  /\ Become(k, "failed")
  /\ approving' = Nobody

Reject(k) ==
  /\ approving = Nobody
  /\ status[k] \in Open
  /\ Become(k, "rejected") \/ Become(k, "blocked")
  /\ UNCHANGED approving

\* Also of a candidate that became something else after a block that was lost.
Unblock(k) ==
  /\ approving = Nobody
  /\ status[k] # "none"
  /\ Become(k, "rejected")
  /\ UNCHANGED approving

Save ==
  /\ saved' = status
  /\ UNCHANGED <<status, approving>>

Crash ==
  /\ status' = saved
  /\ approving' = Nobody
  /\ UNCHANGED saved

Next ==
  \/ \E k \in Candidates : \/ Notify(k) \/ Approve(k) \/ Install(k) \/ Fail(k)
                           \/ Reject(k) \/ Unblock(k)
  \/ Save
  \/ Crash

Spec == Init /\ [][Next]_vars
=============================================================================
