--------------------------- MODULE MCSandboxSlots ---------------------------
(* SandboxSlots on small instances.                                        *)
EXTENDS SandboxSlots, TLC

CONSTANTS p1, p2, s1, s2, s3

Interchangeable == Permutations({p1, p2}) \cup Permutations({s1, s2, s3})
=============================================================================
