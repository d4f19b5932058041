---------------------------- MODULE MCInvitations ----------------------------
(* TLC instances of Invitations. *)
EXTENDS Invitations, TLC

Symmetric == Permutations(Users) \cup Permutations(Invites) \cup Permutations(Calls)

=============================================================================
