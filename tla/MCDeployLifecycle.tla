------------------------- MODULE MCDeployLifecycle -------------------------
(* Values for the constants of DeployLifecycle in the configurations. *)
EXTENDS DeployLifecycle, TLC

CONSTANTS u1, u2, a1, a2, h1, h2, q1, q2

DistinctHosts == [u \in Users |-> [a \in Apps |-> IF u = u1 THEN h1 ELSE h2]]
OneHost == [u \in Users |-> [a \in Apps |-> h1]]

\* Sound where every user has the same default host.
UsersAndRequests == Permutations(Users) \cup Permutations(Requests)
OnlyRequests == Permutations(Requests)

Deployment == {"register", "delete"}
WithCron == {"register", "delete", "cleanup"}
Capacity == {"register", "delete", "account", "churn"}
OneUser == {"register", "delete", "account", "release", "env", "access"}
=============================================================================
