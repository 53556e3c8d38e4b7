-------------------------- MODULE MCStorageUploads --------------------------
EXTENDS StorageUploads, TLC

\* Two keys are interchangeable in the runs without liveness.
Interchangeable == Permutations(Objects)
=============================================================================
