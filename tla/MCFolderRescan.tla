-------------------------- MODULE MCFolderRescan --------------------------
(* Small instances of FolderRescan for TLC. *)
EXTENDS FolderRescan, TLC

ItemSymmetry == Permutations(Items)
=============================================================================
