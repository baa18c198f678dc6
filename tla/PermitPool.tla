----------------------------- MODULE PermitPool -----------------------------
(* What a host is promised of its operation permits: each device is in the *)
(* pool of running operations at most once, and nobody enters the pool     *)
(* when that takes it past the limit.  The limit may change at any time;   *)
(* whoever is in stays in.                                                 *)
EXTENDS Naturals, FiniteSets

CONSTANTS Device, Caps

VARIABLES inside, limit

TypeOK == inside \subseteq Device /\ limit \in Caps

Init == inside = {} /\ limit \in Caps

\* At most one device leaves, any number enter as far as the limit allows.
Pass ==
  /\ UNCHANGED limit
  /\ \E out \in SUBSET inside, new \in SUBSET (Device \ inside) :
       /\ Cardinality(out) <= 1
       /\ inside' = (inside \ out) \cup new
  /\ inside' \subseteq inside \/ Cardinality(inside') <= limit

Adjust ==
  /\ limit' \in Caps
  /\ inside \subseteq inside'
  /\ inside' \subseteq Device
  /\ inside' = inside \/ Cardinality(inside') <= limit'

Next == Pass \/ Adjust

Spec == Init /\ [][Next]_<<inside, limit>>
=============================================================================
