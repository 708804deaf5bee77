---------------------------- MODULE MCSandboxPool ----------------------------
EXTENDS SandboxPool, TLC

Symmetry == Permutations(Sandbox) \cup Permutations(Exec)

=============================================================================
