-------------------------- MODULE MCContentVersions --------------------------
(* ContentVersions on rows and requests, which are interchangeable. *)
EXTENDS ContentVersions, TLC

Symmetric == Permutations(Contents) \cup Permutations(Requests)

=============================================================================
