------------------------------ MODULE MCIngest ------------------------------
(* Instances of Ingest for TLC. *)
EXTENDS Ingest, TLC

\* Workspaces, pull requests and workers are interchangeable in the instances
\* whose workspaces start alike; liveness runs use no symmetry.
Interchangeable ==
  Permutations(Tenants) \cup Permutations(PRs) \cup Permutations(Ids)
    \cup Permutations(Workers)
=============================================================================
