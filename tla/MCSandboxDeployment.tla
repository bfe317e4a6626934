------------------------ MODULE MCSandboxDeployment ------------------------
(* SandboxDeployment on small instances: see the Sandbox*.cfg files.       *)
EXTENDS SandboxDeployment, TLC

Symmetry == Permutations(Calls) \cup Permutations(Attempts)
=============================================================================
