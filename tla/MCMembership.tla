---------------------------- MODULE MCMembership ----------------------------
(* Instances of Membership for TLC. *)
EXTENDS Membership, TLC

Interchangeable ==
  Permutations(Workspaces) \cup Permutations(Users) \cup Permutations(Invitations)
    \cup Permutations(Requests)
=============================================================================
