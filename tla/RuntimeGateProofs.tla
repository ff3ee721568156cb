--------------------------- MODULE RuntimeGateProofs ---------------------------
(****************************************************************************)
(* Proofs about RuntimeGate, for every number of workers and releases:      *)
(* types, the gate held by the release that set it, migrations that run     *)
(* alone, and the refinement of MigrationLock.                              *)
(****************************************************************************)
EXTENDS RuntimeGate, TLAPS

\* A scheduled command under way has a live lease.
LeaseHeld == \A w \in Running : w \in leases

\* While the gate is set by a release that goes on, no command enters; once the
\* release has seen no lease, none is left.
IInv == TypeOK /\ LeaseHeld /\ GateHeld /\ MigrationExclusive

Active == {"draining", "migrating", "reopening"}

\* The initial state satisfies the inductive invariant.
LEMMA InitIInv == Init => IInv
BY RuntimeGateAssumption
   DEF Init, IInv, TypeOK, LeaseHeld, GateHeld, MigrationExclusive, Running, Migrating, Schemas

\* A step of a command preserves the inductive invariant.
LEMMA WorkerStep ==
  ASSUME IInv, NEW w \in Workers,
         CheckSchema(w) \/ Enter(w) \/ Leave(w) \/ Crash(w) \/ LeaseLapses(w)
  PROVE  IInv'
<1> USE RuntimeGateAssumption DEF IInv
<1>1. CASE CheckSchema(w)
  BY <1>1 DEF CheckSchema, TypeOK, LeaseHeld, GateHeld, MigrationExclusive, Running, Migrating
<1>2. CASE Enter(w)
  <2>1. CASE ~MayEnter
    BY <1>2, <2>1 DEF Enter, TypeOK, LeaseHeld, GateHeld, MigrationExclusive, Running, Migrating
  <2>2. CASE MayEnter
    <3>1. ~Migrating'
      BY <1>2, <2>2 DEF Enter, MayEnter, TypeOK, GateHeld, Migrating
    <3>2. TypeOK'
      BY <1>2, <2>2 DEF Enter, TypeOK
    <3>3. LeaseHeld'
      BY <1>2, <2>2 DEF Enter, TypeOK, LeaseHeld, Running
    <3>4. GateHeld'
      BY <1>2, <2>2 DEF Enter, GateHeld
    <3> QED BY <3>1, <3>2, <3>3, <3>4 DEF MigrationExclusive
  <2> QED BY <2>1, <2>2
<1>3. CASE Leave(w)
  BY <1>3 DEF Leave, TypeOK, LeaseHeld, GateHeld, MigrationExclusive, Running, Migrating
<1>4. CASE Crash(w)
  BY <1>4 DEF Crash, Fault, TypeOK, LeaseHeld, GateHeld, MigrationExclusive, Running, Migrating
<1>5. CASE LeaseLapses(w)
  BY <1>5 DEF LeaseLapses, TypeOK, LeaseHeld, GateHeld, MigrationExclusive, Running, Migrating
<1> QED BY <1>1, <1>2, <1>3, <1>4, <1>5

\* A step of a release preserves the inductive invariant.
LEMMA MigratorStep ==
  ASSUME IInv, NEW m \in Migrators,
         \/ Pause(m) \/ Drain(m) \/ GiveUp(m) \/ Migrate(m) \/ MigrationFails(m)
         \/ Reopen(m) \/ MigratorCrash(m)
  PROVE  IInv'
<1> USE RuntimeGateAssumption DEF IInv
<1>1. CASE Pause(m)
  BY <1>1 DEF Pause, TypeOK, LeaseHeld, GateHeld, MigrationExclusive, Running, Migrating
<1>2. CASE Drain(m)
  <2>1. Running' = {}
    BY <1>2 DEF Drain, Drained, LeaseHeld, Running
  <2> QED
    BY <1>2, <2>1 DEF Drain, TypeOK, LeaseHeld, GateHeld, MigrationExclusive
<1>3. CASE GiveUp(m)
  BY <1>3 DEF GiveUp, TypeOK, LeaseHeld, GateHeld, MigrationExclusive, Running, Migrating
<1>4. CASE Migrate(m)
  BY <1>4 DEF Migrate, Schemas, TypeOK, LeaseHeld, GateHeld, MigrationExclusive, Running, Migrating
<1>5. CASE MigrationFails(m)
  BY <1>5 DEF MigrationFails, Fault, TypeOK, LeaseHeld, GateHeld, MigrationExclusive, Running, Migrating
<1>6. CASE Reopen(m)
  <2>1. \A n \in Migrators : migrator[n] \in Active => n = m
    BY <1>6 DEF Reopen, GateHeld, Active, TypeOK
  <2>2. GateHeld' /\ ~Migrating'
    BY <1>6, <2>1 DEF Reopen, TypeOK, GateHeld, Migrating, Active
  <2> QED BY <1>6, <2>2 DEF Reopen, TypeOK, LeaseHeld, MigrationExclusive, Running
<1>7. CASE MigratorCrash(m)
  BY <1>7 DEF MigratorCrash, Fault, TypeOK, LeaseHeld, GateHeld, MigrationExclusive, Running, Migrating
<1> QED BY <1>1, <1>2, <1>3, <1>4, <1>5, <1>6, <1>7

\* The inductive invariant holds in every reachable state.
LEMMA Invariant == Spec => []IInv
<1>1. IInv /\ [Next]_vars => IInv'
  <2>1. ASSUME IInv, Next PROVE IInv'
    BY <2>1, WorkerStep, MigratorStep DEF Next
  <2>2. ASSUME IInv, UNCHANGED vars PROVE IInv'
    BY <2>2 DEF IInv, vars, TypeOK, LeaseHeld, GateHeld, MigrationExclusive, Running, Migrating
  <2> QED BY <2>1, <2>2
<1> QED BY InitIInv, <1>1, PTL DEF Spec

\* Types are kept, revisions included: a migration reaches no revision but one of
\* a release.
THEOREM TypeCorrect == Spec => []TypeOK
<1>1. IInv => TypeOK  BY DEF IInv
<1> QED BY Invariant, <1>1, PTL

\* No scheduled command is under way while a migration is.
THEOREM MigratesAlone == Spec => []MigrationExclusive
<1>1. IInv => MigrationExclusive  BY DEF IInv
<1> QED BY Invariant, <1>1, PTL

\* The gate belongs to the release that set it until that release clears it.
THEOREM GateStaysHeld == Spec => []GateHeld
<1>1. IInv => GateHeld  BY DEF IInv
<1> QED BY Invariant, <1>1, PTL

\* A step of a command is a step of the lock, or none.
LEMMA WorkerRefines ==
  ASSUME IInv, NEW w \in Workers,
         CheckSchema(w) \/ Enter(w) \/ Leave(w) \/ Crash(w) \/ LeaseLapses(w)
  PROVE  [Lock!Next]_(Lock!vars)
<1>1. schema' = schema /\ Migrating' = Migrating
  BY DEF CheckSchema, Enter, Leave, Crash, LeaseLapses, Migrating
<1>2. CASE Running' = Running
  BY <1>1, <1>2 DEF Lock!vars
<1>3. CASE Running' # Running
  <2>1. CASE Enter(w)
    <3>1. w \notin Running /\ Running' = Running \cup {w} /\ MayEnter
      BY <1>3, <2>1 DEF Enter, Running, IInv, TypeOK
    <3>2. ~Migrating
      BY <3>1, RuntimeGateAssumption DEF MayEnter, Migrating, IInv, GateHeld
    <3> QED BY <1>1, <3>1, <3>2 DEF Lock!Enter, Lock!Next
  <2>2. CASE Leave(w) \/ Crash(w)
    <3>1. w \in Running /\ Running' = Running \ {w}
      BY <1>3, <2>2 DEF Leave, Crash, Running, IInv, TypeOK
    <3> QED BY <1>1, <3>1 DEF Lock!Exit, Lock!Next
  <2>3. CASE CheckSchema(w) \/ LeaseLapses(w)
    BY <1>3, <2>3 DEF CheckSchema, LeaseLapses, Running, IInv, TypeOK
  <2> QED BY <2>1, <2>2, <2>3
<1> QED BY <1>2, <1>3

\* A step of a release is a step of the lock, or none.
LEMMA MigratorRefines ==
  ASSUME IInv, IInv', NEW m \in Migrators,
         \/ Pause(m) \/ Drain(m) \/ GiveUp(m) \/ Migrate(m) \/ MigrationFails(m)
         \/ Reopen(m) \/ MigratorCrash(m)
  PROVE  [Lock!Next]_(Lock!vars)
<1>1. Running' = Running
  BY DEF Pause, Drain, GiveUp, Migrate, MigrationFails, Reopen, MigratorCrash, Running
<1>2. schema' \in Schemas
  BY DEF IInv, TypeOK
<1>3. CASE schema' = schema /\ Migrating' = Migrating
  BY <1>1, <1>3 DEF Lock!vars
<1>4. CASE Migrating /\ ~Migrating'
  BY <1>1, <1>2, <1>4 DEF Lock!Close, Lock!Next
<1>5. CASE ~Migrating /\ Migrating'
  <2>1. Drain(m)
    BY <1>5 DEF Pause, GiveUp, Migrate, MigrationFails, Reopen, MigratorCrash, Migrating, IInv, TypeOK
  <2>2. Running = {}
    BY <2>1 DEF Drain, Drained, IInv, LeaseHeld
  <2>3. schema' = schema
    BY <2>1 DEF Drain
  <2> QED BY <1>1, <1>5, <2>2, <2>3 DEF Lock!Open, Lock!Next
<1>6. CASE schema' # schema /\ Migrating' = Migrating
  <2>1. Migrate(m)
    BY <1>6 DEF Pause, Drain, GiveUp, MigrationFails, Reopen, MigratorCrash
  <2>2. Migrating
    BY <2>1 DEF Migrate, Migrating
  <2>3. \A n \in Migrators : migrator[n] = "migrating" => n = m
    BY <2>1 DEF Migrate, IInv, GateHeld
  <2>4. ~Migrating'
    BY <2>1, <2>3 DEF Migrate, Migrating, IInv, TypeOK
  <2> QED BY <1>6, <2>2, <2>4
<1>7. Migrating \in BOOLEAN /\ Migrating' \in BOOLEAN
  BY DEF Migrating
<1> QED BY <1>3, <1>4, <1>5, <1>6, <1>7

\* The gate implements the lock: commands run together, a migration runs alone.
THEOREM ImplementsLock == Spec => LockSpec
<1>1. Init => Lock!Init
  BY DEF Init, Lock!Init, Running, Migrating, Schemas
<1>2. IInv /\ IInv' /\ [Next]_vars => [Lock!Next]_(Lock!vars)
  <2>1. ASSUME IInv, IInv', Next PROVE [Lock!Next]_(Lock!vars)
    BY <2>1, WorkerRefines, MigratorRefines DEF Next
  <2>2. ASSUME UNCHANGED vars PROVE [Lock!Next]_(Lock!vars)
    BY <2>2 DEF vars, Lock!vars, Running, Migrating
  <2> QED BY <2>1, <2>2
<1> QED BY Invariant, <1>1, <1>2, PTL DEF Spec, LockSpec, Lock!Spec
=============================================================================
