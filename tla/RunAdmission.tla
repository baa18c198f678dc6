---------------------------- MODULE RunAdmission ----------------------------
(***************************************************************************)
(* What the admission queue promises of a PlanRun: it waits without        *)
(* holding any device, and gets its devices in one step, all of them       *)
(* unless its kind allows fewer, none of them in use by another run.       *)
(* Once admitted it never waits again; a rejected run may be reopened, an  *)
(* aborted one is closed for good.                                         *)
(***************************************************************************)
CONSTANTS
  Run,
  wanted,     \* the devices each run asks for
  Shrinkable  \* runs that may start with fewer

VARIABLES verdict, held

vars == <<verdict, held>>

Init ==
  /\ verdict = [r \in Run |-> "waiting"]
  /\ held = [r \in Run |-> {}]

Decide(r, v) == verdict' = [verdict EXCEPT ![r] = v]

Admit(r) ==
  /\ verdict[r] = "waiting"
  /\ \E ds \in SUBSET wanted[r] :
       /\ ds # {} /\ (r \in Shrinkable \/ ds = wanted[r])
       /\ \A q \in Run : held[q] \cap ds = {}
       /\ held' = [held EXCEPT ![r] = ds]
  /\ Decide(r, "admitted")

Reject(r) ==
  /\ verdict[r] = "waiting"
  /\ \E v \in {"rejected", "aborted"} : Decide(r, v)
  /\ UNCHANGED held

Reopen(r) ==
  /\ verdict[r] = "rejected"
  /\ Decide(r, "waiting")
  /\ UNCHANGED held

GiveBack(r) ==
  /\ verdict[r] = "admitted"
  /\ \E d \in held[r] : held' = [held EXCEPT ![r] = @ \ {d}]
  /\ UNCHANGED verdict

Next == \E r \in Run : Admit(r) \/ Reject(r) \/ Reopen(r) \/ GiveBack(r)

Spec == Init /\ [][Next]_vars
=============================================================================
