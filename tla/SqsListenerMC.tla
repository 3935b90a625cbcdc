----------------------------- MODULE SqsListenerMC -----------------------------
(* Two replicas with a loop on the queue each.                                 *)
EXTENDS SqsListener, TLC

CONSTANTS appA, appB, l1, l2

MCAppOf == l1 :> appA @@ l2 :> appB
================================================================================
