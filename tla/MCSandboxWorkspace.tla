------------------------- MODULE MCSandboxWorkspace -------------------------
(* SandboxWorkspace on small instances.                                    *)
EXTENDS SandboxWorkspace, TLC

CONSTANTS p1, p2

\* All data directories are on one volume.
SharedDisk(p) == "shared"

Interchangeable == Permutations({p1, p2})

\* What tells states apart where nothing is said of lost work: whether the work is
\* owed, whether a step was cut off and whether a VM was destroyed unsaved is history
\* that no action reads.
WithoutHistory == <<row, step, vm, files, up, cached, money, miss, work.version>>
=============================================================================
