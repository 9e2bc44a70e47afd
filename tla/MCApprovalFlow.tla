--------------------------- MODULE MCApprovalFlow ---------------------------
(***************************************************************************)
(* ApprovalFlow on small deployments.  Two instances, so that a decision   *)
(* can be taken away from the task that waits for it; two members, so that *)
(* they can contradict each other; one of either where the run is about    *)
(* something else.  One transaction: requests share no state.              *)
(***************************************************************************)
EXTENDS ApprovalFlow, TLC

Deployment == Permutations(Members) \cup Permutations(Instances)
=============================================================================
