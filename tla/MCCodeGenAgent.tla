--------------------------- MODULE MCCodeGenAgent ---------------------------
(* CodeGenAgent on small instances: see the .cfg files.                    *)
EXTENDS CodeGenAgent, TLC

Symmetry == Permutations(RunIds) \cup Permutations(Turns) \cup Permutations(Requests)
=============================================================================
