----------------------------- MODULE MCRuntimeGate -----------------------------
(* An instance of RuntimeGate for TLC: two scheduled commands, of an old and of *)
(* a new release, an administrator's command, and the releases of two revisions. *)
EXTENDS RuntimeGate, TLC

CONSTANTS old, new, admin, m1, m2

AllWorkers == {old, new, admin}
AllMigrators == {m1, m2}
Reviewed == (old :> {0, 1}) @@ (new :> {1, 2}) @@ (admin :> {0, 1, 2})
Revisions == (m1 :> 1) @@ (m2 :> 2)
=============================================================================
