--------------------------- MODULE MCCustomDomain ---------------------------
(* Values for the constants of CustomDomain in the configurations. *)
EXTENDS CustomDomain, TLC

CONSTANTS u1, u2, d1, d2, q1, q2

OnlyRequests == Permutations(Requests)
=============================================================================
