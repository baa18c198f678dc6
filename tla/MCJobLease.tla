----------------------------- MODULE MCJobLease -----------------------------
(* Small instances of JobLease: jobs j1, j2 with one device each or sharing *)
(* one, in one run or in a run each.                                        *)
EXTENDS JobLease, TLC

CONSTANTS j1, j2, d1, d2, h1, h2, r1, r2, i1, i2, done, stopped

\* One device whose two jobs belong to two runs on one host: succession.
SharedDevice == j1 :> d1 @@ j2 :> d1
OneHost == j1 :> h1 @@ j2 :> h1
TwoRuns == j1 :> r1 @@ j2 :> r2

\* One run over two devices, each on its own host.
OwnDevice == j1 :> d1 @@ j2 :> d2
OwnHost == j1 :> h1 @@ j2 :> h2
OneRun == j1 :> r1 @@ j2 :> r1

Outcomes == done :> "COMPLETED" @@ stopped :> "ABORTED"
StoppedOnly == stopped :> "ABORTED"

\* Instances are compared for equality only, and on one device the two jobs
\* change places together with their runs.
Swap == j1 :> j2 @@ j2 :> j1 @@ r1 :> r2 @@ r2 :> r1
Stay == j1 :> j1 @@ j2 :> j2 @@ r1 :> r1 @@ r2 :> r2
HandoverSymmetry == {p @@ q : p \in Permutations({i1, i2}), q \in {Stay, Swap}}
=============================================================================
