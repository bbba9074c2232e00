---------------------------- MODULE MCWorkerPool ----------------------------
(***************************************************************************)
(* Instances of WorkerPool for TLC.                                        *)
(***************************************************************************)
EXTENDS WorkerPool

BothUsers == {[user |-> "DeleteLogs", MaxRetry |-> 0, HandlePanic |-> FALSE]}
             \cup [user : {"Close"}, MaxRetry : {0, 1}, HandlePanic : BOOLEAN]

=============================================================================
