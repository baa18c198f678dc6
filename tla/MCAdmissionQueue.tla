-------------------------- MODULE MCAdmissionQueue --------------------------
(* Small instance of AdmissionQueue: two runs that share a device.           *)
EXTENDS AdmissionQueue, TLC

CONSTANTS manual, chained, d1, d2

Overlapping == manual :> {d1} @@ chained :> {d1, d2}
=============================================================================
