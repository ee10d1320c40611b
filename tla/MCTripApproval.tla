---------------------------- MODULE MCTripApproval ----------------------------
(***************************************************************************)
(* Instances of TripApproval for TLC.  Three requests interleave as long   *)
(* as no withdrawal was lost, and two from then on.                        *)
(***************************************************************************)
EXTENDS TripApproval, FiniteSets

Running == {u \in Users : requests[u] # NoRequest}
TwoAfterFault == faults' > 0 => Cardinality(Running') =< 2

ApprovalSpec ==
    /\ Init /\ [][Next /\ TwoAfterFault]_vars
    /\ \A u \in Users : WF_vars(ResetApprovalIfApproved(u))
===============================================================================
