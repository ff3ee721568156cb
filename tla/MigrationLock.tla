----------------------------- MODULE MigrationLock -----------------------------
(****************************************************************************)
(* What the deployment gate promises: "the database gate pauses new claims  *)
(* and drains the workers, so that they do not run across a schema          *)
(* migration" (README, Deployment).  Any number of commands run together;   *)
(* a migration runs alone.                                                  *)
(****************************************************************************)
CONSTANTS Workers, Schemas

VARIABLES
    running,    \* the workers whose command is under way
    migrating,  \* a migration's transaction is open
    schema

vars == <<running, migrating, schema>>

Init == running = {} /\ ~migrating /\ schema \in Schemas

Enter(w) ==
    /\ ~migrating /\ w \notin running
    /\ running' = running \cup {w}
    /\ UNCHANGED <<migrating, schema>>

Exit(w) ==
    /\ w \in running
    /\ running' = running \ {w}
    /\ UNCHANGED <<migrating, schema>>

Open ==
    /\ running = {} /\ ~migrating
    /\ migrating' = TRUE
    /\ UNCHANGED <<running, schema>>

\* The transaction commits the next schema, or is rolled back.
Close ==
    /\ migrating
    /\ migrating' = FALSE
    /\ schema' \in Schemas
    /\ UNCHANGED running

Next == Open \/ Close \/ \E w \in Workers : Enter(w) \/ Exit(w)

Spec == Init /\ [][Next]_vars
=============================================================================
