----------------------------- MODULE MCNotionSync -----------------------------
(* Instances of NotionSync for TLC. *)
EXTENDS NotionSync, TLC
WorkerSymmetry == Permutations(Workers)
=============================================================================
