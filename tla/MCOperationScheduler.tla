------------------------ MODULE MCOperationScheduler ------------------------
(* Small instances of OperationScheduler: a worker per device.             *)
EXTENDS OperationScheduler, TLC

CONSTANTS w1, w2, w3, d1, d2, d3

OwnDevice == w1 :> d1 @@ w2 :> d2 @@ w3 :> d3
=============================================================================
