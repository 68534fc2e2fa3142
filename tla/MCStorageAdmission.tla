------------------------- MODULE MCStorageAdmission -------------------------
(* Small instances of StorageAdmission for TLC. *)
EXTENDS StorageAdmission, TLC

LeaseSymmetry == Permutations(Uploads) \cup Permutations(Artifacts)
=============================================================================
