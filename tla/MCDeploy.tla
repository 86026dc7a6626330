------------------------------ MODULE MCDeploy ------------------------------
(* Small instances of Deploy for TLC. *)
EXTENDS DeployInvariant, TLC

\* Every build has a token of its own: its identity.
OwnToken == [b \in Builds |-> b]

Symmetric == Permutations(Legs) \cup Permutations(Builds) \cup Permutations(Healthy)
=============================================================================
