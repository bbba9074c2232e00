----------------------------- MODULE JobStatus ------------------------------
(***************************************************************************)
(* What a reader of a build, release or bot row may rely on: the status    *)
(* advances along the life cycle below and a terminal status is final.     *)
(*                                                                         *)
(*     none --> pending --> running --> succeeded | failed                 *)
(*       |         |           |                                           *)
(*       v         v           v                                           *)
(*     failed   canceled <-- canceling                                     *)
(***************************************************************************)
CONSTANT Jobs

VARIABLE status

LifeCycle ==
  { <<"none", "pending">>,       <<"none", "failed">>,
    <<"pending", "running">>,    <<"pending", "canceled">>,
    <<"running", "succeeded">>,  <<"running", "failed">>,
    <<"running", "canceling">>,  <<"canceling", "canceled">> }

Init == status = [j \in Jobs |-> "none"]

Advance(j) ==
  \E edge \in LifeCycle :
    /\ status[j] = edge[1]
    /\ status' = [status EXCEPT ![j] = edge[2]]

Next == \E j \in Jobs : Advance(j)

Spec == Init /\ [][Next]_status

=============================================================================
