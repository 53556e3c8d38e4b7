------------------------- MODULE MCSandboxLifecycle -------------------------
(* SandboxLifecycle on small instances.                                    *)
EXTENDS SandboxLifecycle, TLC

CONSTANTS p1, p2

Interchangeable == Permutations({p1, p2})
=============================================================================
