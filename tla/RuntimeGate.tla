------------------------------ MODULE RuntimeGate ------------------------------
(****************************************************************************)
(* The deployment gate (runtime.py and scripts/migrate_coordinated.py).     *)
(* Each command runs inside an invocation, which records a lease of five    *)
(* minutes unless the gate is set.  A release sets the gate, waits until no *)
(* lease is live, migrates in one transaction, and clears the gate however  *)
(* the migration ended.                                                     *)
(*                                                                          *)
(* A slot of Workers stands for one process at a time; the lease of a       *)
(* process that died keeps its slot until it lapses.  Nested invocations    *)
(* reuse the outer one and are left out.  Expired leases, which nobody      *)
(* counts, are removed at once.                                             *)
(****************************************************************************)
EXTENDS Naturals, FiniteSets

CONSTANTS
    Workers,
    Migrators,
    NoOne,       \* the gate is clear
    Unbounded,   \* workers no alarm or timeout ends: administrators' commands
    Accepts,     \* the schema revisions each worker's release was reviewed for
    Target,      \* the revision each migrator's release upgrades to
    MaxFaults    \* bound on crashes, database errors and failed migrations

Schemas == {0} \cup {Target[m] : m \in Migrators}

ASSUME RuntimeGateAssumption ==
    /\ NoOne \notin Migrators
    /\ Unbounded \subseteq Workers
    /\ Target \in [Migrators -> Nat]
    /\ Accepts \in [Workers -> SUBSET Schemas]
    /\ MaxFaults \in Nat

VARIABLES
    gate,       \* last_error of the row "runtime/gate": the migration that set it
    leases,     \* workers with a live row "runtime/active/..."
    schema,     \* version_num of alembic_version
    worker,     \* the progress of each command
    migrator,   \* the progress of each release
    faults

vars == <<gate, leases, schema, worker, migrator, faults>>

TypeOK ==
    /\ gate \in Migrators \cup {NoOne}
    /\ leases \subseteq Workers
    /\ schema \in Schemas
    /\ worker \in [Workers -> {"idle", "checked", "running"}]
    /\ migrator \in [Migrators -> {"idle", "draining", "migrating", "reopening", "dead"}]
    /\ faults \in 0..MaxFaults

Init ==
    /\ gate = NoOne
    /\ leases = {}
    /\ schema = 0
    /\ worker = [w \in Workers |-> "idle"]
    /\ migrator = [m \in Migrators |-> "idle"]
    /\ faults = 0

Fault == faults < MaxFaults /\ faults' = faults + 1

----------------------------------------------------------------------------
(* Commands. *)

\* The revision is read before the gate; an incompatible one raises.
CheckSchema(w) ==
    /\ worker[w] = "idle" /\ w \notin leases
    /\ schema \in Accepts[w]
    /\ worker' = [worker EXCEPT ![w] = "checked"]
    /\ UNCHANGED <<gate, leases, schema, migrator, faults>>

\* Under the lock of the gate row: refused while it is set.
MayEnter == gate = NoOne

Enter(w) ==
    /\ worker[w] = "checked"
    /\ IF MayEnter
         THEN /\ worker' = [worker EXCEPT ![w] = "running"]
              /\ leases' = leases \cup {w}
         ELSE /\ worker' = [worker EXCEPT ![w] = "idle"]
              /\ UNCHANGED leases
    /\ UNCHANGED <<gate, schema, migrator, faults>>

\* The command ended or raised; a lease that lapsed has no row any more.
Leave(w) ==
    /\ worker[w] = "running"
    /\ worker' = [worker EXCEPT ![w] = "idle"]
    /\ leases' = leases \ {w}
    /\ UNCHANGED <<gate, schema, migrator, faults>>

\* The process dies, or its lease cannot be deleted.
Crash(w) ==
    /\ Fault
    /\ worker[w] # "idle"
    /\ worker' = [worker EXCEPT ![w] = "idle"]
    /\ UNCHANGED <<gate, leases, schema, migrator>>

\* Faulty variant: a lease shorter than the work it covers.
LeaseLapsesEarly(w) ==
    /\ w \in leases
    /\ leases' = leases \ {w}
    /\ UNCHANGED <<gate, schema, worker, migrator, faults>>

\* Five minutes after the command began.  The alarm and the shell timeout of
\* scheduled commands come earlier.
LeaseLapses(w) ==
    /\ w \in leases
    /\ worker[w] = "running" => w \in Unbounded
    /\ leases' = leases \ {w}
    /\ UNCHANGED <<gate, schema, worker, migrator, faults>>

----------------------------------------------------------------------------
(* Releases. *)

\* Faulty variant: the refusal raises inside the block that reopens the gate.
PauseAnyway(m) ==
    /\ migrator[m] = "idle"
    /\ gate' = IF gate = NoOne THEN m ELSE gate
    /\ migrator' = [migrator EXCEPT ![m] = IF gate = NoOne THEN "draining" ELSE "reopening"]
    /\ UNCHANGED <<leases, schema, worker, faults>>

\* A gate that is already set raises before anything is changed.
Pause(m) ==
    /\ migrator[m] = "idle"
    /\ gate = NoOne
    /\ gate' = m
    /\ migrator' = [migrator EXCEPT ![m] = "draining"]
    /\ UNCHANGED <<leases, schema, worker, faults>>

Drained == leases = {}

Drain(m) ==
    /\ migrator[m] = "draining"
    /\ Drained
    /\ migrator' = [migrator EXCEPT ![m] = "migrating"]
    /\ UNCHANGED <<gate, leases, schema, worker, faults>>

\* "Active workers did not drain" in time: leases carry the clocks of other hosts.
GiveUp(m) ==
    /\ migrator[m] = "draining"
    /\ ~Drained
    /\ migrator' = [migrator EXCEPT ![m] = "reopening"]
    /\ UNCHANGED <<gate, leases, schema, worker, faults>>

\* Upgrading to a revision the database is past does nothing, or raises.
Migrate(m) ==
    /\ migrator[m] = "migrating"
    /\ schema' = IF Target[m] > schema THEN Target[m] ELSE schema
    /\ migrator' = [migrator EXCEPT ![m] = "reopening"]
    /\ UNCHANGED <<gate, leases, worker, faults>>

\* Faulty variant: the gate is cleared after the migration, not whenever the block ends.
MigrationFailsUncleaned(m) ==
    /\ Fault
    /\ migrator[m] = "migrating"
    /\ migrator' = [migrator EXCEPT ![m] = "idle"]
    /\ UNCHANGED <<gate, leases, schema, worker>>

\* The transaction is rolled back.
MigrationFails(m) ==
    /\ Fault
    /\ migrator[m] = "migrating"
    /\ migrator' = [migrator EXCEPT ![m] = "reopening"]
    /\ UNCHANGED <<gate, leases, schema, worker>>

Reopen(m) ==
    /\ migrator[m] = "reopening"
    /\ gate' = NoOne
    /\ migrator' = [migrator EXCEPT ![m] = "idle"]
    /\ UNCHANGED <<leases, schema, worker, faults>>

\* The release dies; the gate stays as it is, "inspect before recovery".
MigratorCrash(m) ==
    /\ Fault
    /\ migrator[m] \in {"draining", "migrating", "reopening"}
    /\ migrator' = [migrator EXCEPT ![m] = "dead"]
    /\ UNCHANGED <<gate, leases, schema, worker>>

----------------------------------------------------------------------------
Next ==
    \/ \E w \in Workers :
         \/ CheckSchema(w) \/ Enter(w) \/ Leave(w) \/ Crash(w) \/ LeaseLapses(w)
    \/ \E m \in Migrators :
         \/ Pause(m) \/ Drain(m) \/ GiveUp(m) \/ Migrate(m) \/ MigrationFails(m)
         \/ Reopen(m) \/ MigratorCrash(m)

Spec == Init /\ [][Next]_vars

\* A release that set the gate goes on; commands and leases may take for ever.
Proceeds(m) == Drain(m) \/ GiveUp(m) \/ Migrate(m) \/ Reopen(m)

FairSpec == Spec /\ \A m \in Migrators : WF_vars(Proceeds(m))
----------------------------------------------------------------------------
(* Properties. *)

Running == {w \in Workers \ Unbounded : worker[w] = "running"}

Migrating == \E m \in Migrators : migrator[m] = "migrating"

\* A migration's transaction is open only while no scheduled command is under
\* way, whatever died before and however often the gate was set.
MigrationExclusive == Migrating => Running = {}

\* The gate stays set from the moment a release sets it until that release clears
\* it: a second release, refused, does not open the gate of the first.
GateHeld ==
    \A m \in Migrators : migrator[m] \in {"draining", "migrating", "reopening"} => gate = m

\* A release never leaves the gate set, unless it died: failed migrations and
\* workers that do not drain included.
GateReopens ==
    \A m \in Migrators : gate = m ~> gate # m \/ migrator[m] = "dead"

\* The gate implements the lock the deployment relies on.
Lock == INSTANCE MigrationLock WITH running <- Running, migrating <- Migrating
LockSpec == Lock!Spec
=============================================================================
