---------------------------- MODULE MCMembership ----------------------------
(* TLC instances of Membership. *)
EXTENDS Membership, TLC

Symmetric == Permutations(Users) \cup Permutations(Requests)

=============================================================================
