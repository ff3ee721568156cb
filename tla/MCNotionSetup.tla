----------------------------- MODULE MCNotionSetup -----------------------------
(* Instances of NotionSetup for TLC. *)
EXTENDS NotionSetup
=============================================================================
