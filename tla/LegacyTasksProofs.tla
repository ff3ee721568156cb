-------------------------- MODULE LegacyTasksProofs --------------------------
(****************************************************************************)
(* Proofs about LegacyTasks, for any offers, versions and runs, any bound   *)
(* on attempts, edits and faults.  The argument is about who holds a task:  *)
(* a run that writes it has its lease, so no other run writes it and no     *)
(* other action settles it, unless a remediation dropped the lease.         *)
(****************************************************************************)
EXTENDS LegacyTasks, TLAPS

(* A task under way has counted its attempt: "sent" may take it back. *)
Counted == \A k \in Tasks : task[k].status = "processing" => task[k].attempts > 0

TypeInv == TypeOK /\ Counted

(* The run that owns the source compares with the saved snapshot: nobody else moves it. *)
Accounted(k) == task[k].status # "absent" \/ k \in exempt
Current ==
    \A r \in Runs : run[r].pc \in {"reserved", "fetched"} /\ Owned(r) =>
      run[r].previous = snapshot.offers

OffersInv == TypeInv /\ NothingDropped /\ Current

(* A run has a task between its claim and the outcome. *)
HasTask == \A r \in Runs : run[r].at # Nothing <=> run[r].pc \in {"writing", "answered"}

Dropped(k) == k[1] = "notion" /\ k[2] \in unleased

(* It then has the lease of the task, which is still to be settled. *)
Held ==
    \A r \in Runs, k \in Tasks : run[r].at = k /\ ~Dropped(k) =>
      task[k].next = r /\ task[k].status \in {"pending", "processing"}

(* Mail is never replaced while it is sent. *)
MailHeld ==
    \A r \in Runs, k \in Tasks : run[r].at = k /\ k[1] = "email" =>
      task[k].status = "processing" /\ task[k].payload = run[r].payload

HoldInv == TypeInv /\ HasTask /\ Held /\ MailHeld

(* A page that was answered for shows what its run wrote. *)
Written ==
    \A r \in Runs, k \in Tasks :
      run[r].at = k /\ k[1] = "notion" /\ k[2] \notin unleased
        /\ run[r].pc = "answered" /\ ~run[r].erred => page[k[2]] = run[r].payload

PageInv == HoldInv /\ Written /\ PageIsCurrent

(* The message a fault does not explain belongs to a task that is sent, or that the
   run that sent it is about to record. *)
Accepted(o) ==
    \/ task[<<"email", o>>].status = "sent"
    \/ \E r \in Runs : run[r].at = <<"email", o>> /\ run[r].pc = "answered" /\ ~run[r].erred
Mailed ==
    \A o \in Offers : mails[o] <= faults \/ (mails[o] <= 1 + faults /\ Accepted(o))

MailInv == HoldInv /\ Mailed

----------------------------------------------------------------------------
(* Operators. *)

(* A listing publishes offers, each in one of its versions. *)
LEMMA ListingIsTyped ==
    ASSUME NEW raw \in Listings
    PROVE  DOMAIN raw \subseteq Offers /\ \A o \in DOMAIN raw : raw[o] \in Versions
BY DEF Listings

LEMMA NothingListedIsTyped == NothingListed \in Listings
<1>1. NothingListed \in [{} -> Versions]
  BY DEF NothingListed
<1> QED
  BY <1>1 DEF Listings

LEMMA IdleIsTyped == Idle \in Run
BY NothingListedIsTyped DEF Idle, Run, AllOn, Switches

LEMMA AbsentIsTyped == Absent \in Task
BY LegacyTasksAssumption DEF Absent, Task

(* enqueue leaves a task behind, and keeps lease, backoff and mail of the one it finds. *)
LEMMA EnqueueKeeps ==
    ASSUME NEW row \in Task, NEW v \in Versions, NEW channel
    PROVE  LET new == Enqueue(row, v, channel) IN
           /\ new \in Task
           /\ new.status # "absent"
           /\ new.status # "processing" \/ new = row
           /\ new.status # "sent" \/ new = row
           /\ row.status \notin {"absent", "purged"} =>
                new.next = row.next /\ (new.status = "pending" \/ new = row)
           /\ row.status \notin {"absent", "purged"} /\ channel # "notion" => new = row
<1> DEFINE new == Enqueue(row, v, channel)
<1>1. CASE row.status \in {"absent", "purged"}
  <2>1. new = [status |-> "pending", payload |-> v, attempts |-> 0, next |-> Now]
    BY <1>1 DEF Enqueue
  <2> QED
    BY <1>1, <2>1, LegacyTasksAssumption DEF Task
<1>2. CASE row.status \notin {"absent", "purged"} /\ channel = "notion" /\ row.payload # v
  <2>1. new = [row EXCEPT !.payload = v, !.status = "pending", !.attempts = 0]
    BY <1>2 DEF Enqueue
  <2>2. new.status = "pending" /\ new.next = row.next
    BY <2>1 DEF Task
  <2>3. v \in Versions \cup {Nothing} /\ 0 \in 0..MaxAttempts
    BY LegacyTasksAssumption
  <2>4. new \in Task
    BY <2>1, <2>3 DEF Task
  <2> QED
    BY <1>2, <2>2, <2>4
<1>3. CASE row.status \notin {"absent", "purged"} /\ ~(channel = "notion" /\ row.payload # v)
  BY <1>3 DEF Enqueue, Task
<1> QED
  BY <1>1, <1>2, <1>3

(* An outcome settles a claim, or plans its retry. *)
LEMMA OutcomeIsTyped ==
    ASSUME NEW row \in Task, row.attempts > 0, NEW erred \in BOOLEAN, NEW malformed \in BOOLEAN
    PROVE  LET new == Outcome(row, erred, malformed) IN
           /\ new \in Task
           /\ new.status \in {"pending", "sent", "failed"}
           /\ new.payload = row.payload
           /\ new.status = "sent" <=> ~erred
<1> DEFINE new == Outcome(row, erred, malformed)
<1>1. CASE ~erred
  <2>1. new = [row EXCEPT !.status = "sent", !.next = Now, !.attempts = @ - 1]
    BY <1>1 DEF Outcome
  <2>2. row.attempts - 1 \in 0..MaxAttempts
    BY LegacyTasksAssumption DEF Task
  <2> QED
    BY <1>1, <2>1, <2>2 DEF Task
<1>2. CASE erred /\ (row.attempts >= MaxAttempts \/ malformed)
  <2>1. new = [row EXCEPT !.status = "failed", !.next = Later]
    BY <1>2 DEF Outcome
  <2> QED
    BY <1>2, <2>1 DEF Task
<1>3. CASE erred /\ ~(row.attempts >= MaxAttempts \/ malformed)
  <2>1. new = [row EXCEPT !.status = "pending", !.next = Later]
    BY <1>3 DEF Outcome
  <2> QED
    BY <1>3, <2>1 DEF Task
<1> QED
  BY <1>1, <1>2, <1>3

----------------------------------------------------------------------------
(* Types. *)

LEMMA WithTasksIsTyped ==
    ASSUME TypeOK, NEW r \in Runs, NEW todo \in SUBSET Tasks
    PROVE  WithTasks(r, todo) \in Run
<1>1. [Idle EXCEPT !.pc = "working", !.on = run[r].on, !.todo = todo] \in Run
  <2>1. run[r].on \in Switches
    BY DEF TypeOK, Run
  <2> QED
    BY <2>1, IdleIsTyped DEF Run
<1> QED
  BY <1>1, IdleIsTyped DEF WithTasks

LEMMA SetRunIsTyped ==
    ASSUME TypeOK, NEW r \in Runs, NEW row \in Run, SetRun(r, row)
    PROVE  run' \in [Runs -> Run]
BY DEF TypeOK, SetRun

LEMMA SetTaskIsTyped ==
    ASSUME TypeInv, NEW k \in Tasks, NEW row \in Task, SetTask(k, row),
           row.status = "processing" => row.attempts > 0
    PROVE  task' \in [Tasks -> Task] /\ Counted'
BY DEF TypeInv, TypeOK, Counted, SetTask

LEMMA BoundsAreTyped ==
    ASSUME TypeOK, MayEdit \/ MayFail \/ UNCHANGED bounds
    PROVE  edits' \in 0..MaxEdits /\ faults' \in 0..MaxFaults
BY LegacyTasksAssumption DEF TypeOK, MayEdit, MayFail, bounds

(* A run that leaves a task to the next one. *)
LEMMA LeaveIsTyped ==
    ASSUME TypeOK, NEW r \in Runs, NEW k \in Tasks, Leave(r, k)
    PROVE  run' \in [Runs -> Run]
<1>1. run[r].todo \ {k} \in SUBSET Tasks
  BY DEF TypeOK, Run
<1>2. WithTasks(r, run[r].todo \ {k}) \in Run
  BY <1>1, WithTasksIsTyped
<1> QED
  BY <1>2, SetRunIsTyped DEF Leave

(* A source that is given up keeps its offers and belongs to no run. *)
LEMMA UnleasedKeeps ==
    ASSUME TypeInv
    PROVE  Unleased \in Snapshot /\ Unleased.offers = snapshot.offers /\ Unleased.token = Nothing
BY DEF TypeInv, TypeOK, Snapshot, Unleased

(* Collection keeps the types. *)
LEMMA CollectionIsTyped ==
    ASSUME TypeInv, NEW r \in Runs,
           Reserve(r) \/ Fetch(r) \/ Apply(r) \/ Discard(r) \/ Fail(r)
    PROVE  TypeInv'
<1>0. run[r] \in Run /\ snapshot \in Snapshot /\ run[r].on \in Switches /\ run[r].raw \in Listings
  BY DEF TypeInv, TypeOK, Run
<1>1. CASE Reserve(r)
  <2>1. Previous \in SUBSET Offers
    BY <1>0, LegacyTasksAssumption DEF Previous, Snapshot
  <2>2. snapshot' \in Snapshot
    BY <1>0, <1>1, <2>1 DEF Reserve, Snapshot
  <2>3. [Idle EXCEPT !.pc = "reserved", !.on = switches, !.previous = Previous,
                     !.baseline = ~snapshot.dated /\ ~HasArchive] \in Run
    <3>1. switches \in Switches /\ (~snapshot.dated /\ ~HasArchive) \in BOOLEAN
      BY DEF TypeInv, TypeOK
    <3> QED
      BY <2>1, <3>1, IdleIsTyped DEF Run
  <2>4. run' \in [Runs -> Run]
    BY <1>1, <2>3, SetRunIsTyped DEF TypeInv, Reserve
  <2> QED
    BY <1>1, <2>2, <2>4 DEF TypeInv, TypeOK, Counted, Reserve, outside, world, ghosts, bounds
<1>2. CASE Fetch(r)
  <2>1. [run[r] EXCEPT !.pc = "fetched", !.raw = listing] \in Run
    BY <1>0 DEF TypeInv, TypeOK, Run
  <2>2. run' \in [Runs -> Run]
    BY <1>2, <2>1, SetRunIsTyped DEF TypeInv, Fetch
  <2> QED
    BY <1>2, <2>2 DEF TypeInv, TypeOK, Counted, Fetch, outside, world, ghosts, bounds
<1>3. ASSUME NEW on \in Switches PROVE [Idle EXCEPT !.pc = "applied", !.on = on] \in Run
  BY IdleIsTyped DEF Run
<1>4. CASE Apply(r)
  <2>1. DOMAIN run[r].raw \in SUBSET Offers
    BY <1>0, ListingIsTyped
  <2>2. snapshot' \in Snapshot
    BY <1>0, <1>4, <2>1, UnleasedKeeps DEF Apply, Snapshot
  <2>3. run' \in [Runs -> Run]
    BY <1>0, <1>3, <1>4, SetRunIsTyped DEF TypeInv, Apply
  <2>4. exempt' \subseteq Tasks
    BY <1>4 DEF Apply, TypeInv, TypeOK
  <2>5. ASSUME NEW k \in Tasks
        PROVE  task'[k] \in Task /\ (task'[k].status = "processing" => task'[k].attempts > 0)
    <3>1. task[k] \in Task /\ (task[k].status = "processing" => task[k].attempts > 0)
      BY DEF TypeInv, TypeOK, Counted
    <3>2. task'[k] = task[k]
          \/ (k[2] \in DOMAIN run[r].raw /\ task'[k] = Enqueue(task[k], run[r].raw[k[2]], k[1]))
      BY <1>4 DEF Apply
    <3>3. CASE k[2] \in DOMAIN run[r].raw /\ task'[k] = Enqueue(task[k], run[r].raw[k[2]], k[1])
      <4>1. run[r].raw[k[2]] \in Versions
        BY <1>0, <3>3, ListingIsTyped
      <4>2. Enqueue(task[k], run[r].raw[k[2]], k[1]) \in Task
            /\ (Enqueue(task[k], run[r].raw[k[2]], k[1]).status # "processing"
                \/ Enqueue(task[k], run[r].raw[k[2]], k[1]) = task[k])
        BY <3>1, <4>1, EnqueueKeeps
      <4> QED
        BY <3>1, <3>3, <4>2
    <3> QED
      BY <3>1, <3>2, <3>3
  <2>6. task' \in [Tasks -> Task]
    <3>1. task' = [k \in Tasks |-> task'[k]]
      BY <1>4 DEF Apply
    <3> QED
      BY <2>5, <3>1
  <2> QED
    BY <1>4, <2>2, <2>3, <2>4, <2>5, <2>6
    DEF TypeInv, TypeOK, Counted, Apply, outside, world, bounds
<1>5. CASE Discard(r)
  <2>1. run' \in [Runs -> Run]
    BY <1>5, IdleIsTyped, SetRunIsTyped DEF TypeInv, Discard
  <2> QED
    BY <1>5, <2>1 DEF TypeInv, TypeOK, Counted, Discard, outside, world, ghosts, bounds
<1>6. CASE Fail(r)
  <2>1. snapshot' \in Snapshot
    BY <1>6, UnleasedKeeps DEF Fail, TypeInv, TypeOK
  <2>2. run' \in [Runs -> Run]
    BY <1>0, <1>3, <1>6, SetRunIsTyped DEF TypeInv, Fail
  <2>3. edits' \in 0..MaxEdits /\ faults' \in 0..MaxFaults
    BY <1>6, BoundsAreTyped DEF TypeInv, Fail
  <2> QED
    BY <1>6, <2>1, <2>2, <2>3 DEF TypeInv, TypeOK, Counted, Fail, outside, world, ghosts
<1> QED
  BY <1>1, <1>2, <1>4, <1>5, <1>6

(* Working through the tasks keeps the types. *)
LEMMA DeliveryIsTyped ==
    ASSUME TypeInv, NEW r \in Runs,
           Select(r) \/ Write(r) \/ Finalise(r) \/ Defer(r) \/ Crash(r)
           \/ \E k \in Tasks : Skip(r, k) \/ GiveUp(r, k) \/ Cancel(r, k) \/ Claim(r, k),
           HasTask
    PROVE  TypeInv'
<1>0. run[r] \in Run /\ run[r].todo \in SUBSET Tasks /\ run[r].at \in Tasks \cup {Nothing}
      /\ run[r].payload \in Versions \cup {Nothing}
  BY DEF TypeInv, TypeOK, Run
<1>1. CASE Select(r)
  <2>1. WithTasks(r, {k \in Tasks : Available(k)}) \in Run
    BY WithTasksIsTyped DEF TypeInv
  <2>2. run' \in [Runs -> Run]
    BY <1>1, <2>1, SetRunIsTyped DEF TypeInv, Select
  <2> QED
    BY <1>1, <2>2 DEF TypeInv, TypeOK, Counted, Select, outside, world, ghosts, bounds
<1>2. CASE Write(r)
  <2>1. PICK answer \in {"ok", "refused", "lost"} :
          /\ IF answer = "refused" THEN UNCHANGED world ELSE Deliver(r)
          /\ IF answer = "ok" THEN UNCHANGED bounds ELSE MayFail
          /\ SetRun(r, [run[r] EXCEPT !.pc = "answered", !.erred = answer # "ok"])
    BY <1>2 DEF Write
  <2>2. [run[r] EXCEPT !.pc = "answered", !.erred = answer # "ok"] \in Run
    BY <1>0 DEF Run
  <2>3. run' \in [Runs -> Run]
    BY <2>1, <2>2, SetRunIsTyped DEF TypeInv
  <2>4. edits' \in 0..MaxEdits /\ faults' \in 0..MaxFaults
    BY <2>1, BoundsAreTyped DEF TypeInv
  <2>5. run[r].at \in Tasks
    BY <1>0, <1>2 DEF Write, HasTask
  <2>6. page' \in [Offers -> Versions \cup {Nothing}] /\ mails' \in [Offers -> Nat]
    <3>1. run[r].at[2] \in Offers
      BY <2>5 DEF Tasks
    <3>2. page \in [Offers -> Versions \cup {Nothing}] /\ mails \in [Offers -> Nat]
      BY DEF TypeInv, TypeOK
    <3> QED
      BY <1>0, <2>1, <3>1, <3>2 DEF Deliver, world
  <2> QED
    BY <1>2, <2>3, <2>4, <2>6 DEF TypeInv, TypeOK, Counted, Write, outside, ghosts
<1>3. CASE Finalise(r)
  <2>1. PICK todo \in {{}, run[r].todo} : SetRun(r, WithTasks(r, todo))
    BY <1>3 DEF Finalise
  <2>2. WithTasks(r, todo) \in Run
    BY <1>0, <2>1, WithTasksIsTyped DEF TypeInv
  <2>3. run' \in [Runs -> Run]
    BY <2>1, <2>2, SetRunIsTyped DEF TypeInv
  <2>4. task' \in [Tasks -> Task] /\ Counted'
    <3>1. run[r].at \in Tasks /\ run[r].erred \in BOOLEAN
      BY <1>0, <1>3 DEF Finalise, HasTask, Run
    <3>2. CASE Owns(r) /\ \E malformed \in BOOLEAN :
                 SetTask(run[r].at, Outcome(task[run[r].at], run[r].erred, malformed))
      <4>1. PICK malformed \in BOOLEAN :
              SetTask(run[r].at, Outcome(task[run[r].at], run[r].erred, malformed))
        BY <3>2
      <4>2. task[run[r].at] \in Task /\ task[run[r].at].attempts > 0
        BY <3>1, <3>2 DEF Owns, TypeInv, TypeOK, Counted
      <4>3. Outcome(task[run[r].at], run[r].erred, malformed) \in Task
            /\ Outcome(task[run[r].at], run[r].erred, malformed).status # "processing"
        BY <3>1, <4>2, OutcomeIsTyped
      <4> QED
        BY <3>1, <4>1, <4>3, SetTaskIsTyped
    <3>3. CASE UNCHANGED task
      BY <3>3 DEF TypeInv, TypeOK, Counted
    <3> QED
      BY <1>3, <3>2, <3>3 DEF Finalise
  <2> QED
    BY <1>3, <2>3, <2>4 DEF TypeInv, TypeOK, Finalise, outside, world, ghosts, bounds
<1>4. CASE Defer(r)
  <2>1. WithTasks(r, run[r].todo) \in Run
    BY <1>0, WithTasksIsTyped DEF TypeInv
  <2>2. run' \in [Runs -> Run]
    BY <1>4, <2>1, SetRunIsTyped DEF TypeInv, Defer
  <2>3. edits' \in 0..MaxEdits /\ faults' \in 0..MaxFaults
    BY <1>4, BoundsAreTyped DEF TypeInv, Defer
  <2> QED
    BY <1>4, <2>2, <2>3 DEF TypeInv, TypeOK, Counted, Defer, outside, world, ghosts
<1>5. CASE Crash(r)
  <2>1. run' \in [Runs -> Run]
    BY <1>5, IdleIsTyped, SetRunIsTyped DEF TypeInv, Crash
  <2>2. edits' \in 0..MaxEdits /\ faults' \in 0..MaxFaults
    BY <1>5, BoundsAreTyped DEF TypeInv, Crash
  <2> QED
    BY <1>5, <2>1, <2>2 DEF TypeInv, TypeOK, Counted, Crash, outside, world, ghosts
<1>6. ASSUME NEW k \in Tasks, Skip(r, k) PROVE TypeInv'
  <2>1. run' \in [Runs -> Run]
    BY <1>6, LeaveIsTyped DEF TypeInv, Skip
  <2> QED
    BY <1>6, <2>1 DEF TypeInv, TypeOK, Counted, Skip, Leave, outside, world, ghosts, bounds
<1>7. ASSUME NEW k \in Tasks, GiveUp(r, k) \/ Cancel(r, k) PROVE TypeInv'
  <2>1. run' \in [Runs -> Run]
    BY <1>7, LeaveIsTyped DEF TypeInv, GiveUp, Cancel
  <2>2. PICK outcome \in {"failed", "cancelled"} : SetTask(k, [task[k] EXCEPT !.status = outcome])
    BY <1>7 DEF GiveUp, Cancel
  <2>3. [task[k] EXCEPT !.status = outcome] \in Task
        /\ [task[k] EXCEPT !.status = outcome].status # "processing"
    BY DEF TypeInv, TypeOK, Task
  <2>4. task' \in [Tasks -> Task] /\ Counted'
    BY <2>2, <2>3, SetTaskIsTyped
  <2> QED
    BY <1>7, <2>1, <2>4
    DEF TypeInv, TypeOK, GiveUp, Cancel, Leave, outside, world, ghosts, bounds
<1>8. ASSUME NEW k \in Tasks, Claim(r, k) PROVE TypeInv'
  <2>1. task[k] \in Task /\ task[k].attempts + 1 \in 0..MaxAttempts /\ task[k].attempts + 1 > 0
    <3>1. task[k] \in Task
      BY DEF TypeInv, TypeOK
    <3>2. task[k].attempts \in 0..MaxAttempts /\ ~(task[k].attempts >= MaxAttempts)
      BY <1>8, <3>1 DEF Claim, Exhausted, Task
    <3> QED
      BY <3>1, <3>2, LegacyTasksAssumption
  <2>2. [task[k] EXCEPT !.status = "processing", !.next = r, !.attempts = @ + 1] \in Task
        /\ [task[k] EXCEPT !.status = "processing", !.next = r, !.attempts = @ + 1].attempts > 0
    BY <2>1 DEF Task
  <2>3. task' \in [Tasks -> Task] /\ Counted'
    BY <1>8, <2>2, SetTaskIsTyped DEF Claim
  <2>4. run[r].todo \ {k} \in SUBSET Tasks /\ task[k].payload \in Versions \cup {Nothing}
    BY <1>0, <2>1 DEF Task
  <2>5. [run[r] EXCEPT !.pc = "writing", !.todo = @ \ {k}, !.at = k,
                       !.payload = task[k].payload] \in Run
    BY <1>0, <2>4 DEF Run
  <2>6. run' \in [Runs -> Run]
    BY <1>8, <2>5, SetRunIsTyped DEF TypeInv, Claim
  <2> QED
    BY <1>8, <2>3, <2>6 DEF TypeInv, TypeOK, Claim, outside, world, ghosts, bounds
<1> QED
  BY <1>1, <1>2, <1>3, <1>4, <1>5, <1>6, <1>7, <1>8

(* So do time, trouble, operators and the tracker. *)
LEMMA OutsideIsTyped ==
    ASSUME TypeInv,
           \/ \E k \in Tasks : LeaseLapses(k) \/ RetryDue(k) \/ AdminRetry(k) \/ Purge(k)
           \/ \E o \in Offers : Remediate(o)
           \/ SnapshotLapses \/ Migrate
           \/ \E new \in Listings : Publish(new)
           \/ \E on \in Settings : Switch(on)
    PROVE  TypeInv'
<1>1. ASSUME NEW k \in Tasks, LeaseLapses(k) \/ RetryDue(k) PROVE TypeInv'
  <2>1. [task[k] EXCEPT !.next = Now] \in Task
        /\ ([task[k] EXCEPT !.next = Now].status = "processing"
              => [task[k] EXCEPT !.next = Now].attempts > 0)
    BY DEF TypeInv, TypeOK, Counted, Task
  <2>2. task' \in [Tasks -> Task] /\ Counted'
    BY <1>1, <2>1, SetTaskIsTyped DEF LeaseLapses, RetryDue
  <2> QED
    BY <1>1, <2>2 DEF TypeInv, TypeOK, LeaseLapses, RetryDue, outside, world, ghosts, bounds
<1>2. ASSUME NEW k \in Tasks, AdminRetry(k) PROVE TypeInv'
  <2>1. 0 \in 0..MaxAttempts
    BY LegacyTasksAssumption
  <2>2. [task[k] EXCEPT !.status = "pending", !.attempts = 0, !.next = Now] \in Task
        /\ [task[k] EXCEPT !.status = "pending", !.attempts = 0, !.next = Now].status # "processing"
    BY <2>1 DEF TypeInv, TypeOK, Task
  <2>3. task' \in [Tasks -> Task] /\ Counted'
    BY <1>2, <2>2, SetTaskIsTyped DEF AdminRetry
  <2>4. edits' \in 0..MaxEdits /\ faults' \in 0..MaxFaults
    BY <1>2, BoundsAreTyped DEF TypeInv, AdminRetry
  <2> QED
    BY <1>2, <2>3, <2>4 DEF TypeInv, TypeOK, AdminRetry, outside, world, ghosts
<1>3. ASSUME NEW k \in Tasks, Purge(k) PROVE TypeInv'
  <2>1. [Absent EXCEPT !.status = "purged"] \in Task
        /\ [Absent EXCEPT !.status = "purged"].status # "processing"
    BY AbsentIsTyped DEF Absent, Task
  <2>2. task' \in [Tasks -> Task] /\ Counted'
    BY <1>3, <2>1, SetTaskIsTyped DEF Purge
  <2>3. mails' \in [Offers -> Nat]
    BY <1>3 DEF Purge, TypeInv, TypeOK, Tasks
  <2>4. edits' \in 0..MaxEdits /\ faults' \in 0..MaxFaults
    BY <1>3, BoundsAreTyped DEF TypeInv, Purge
  <2> QED
    BY <1>3, <2>2, <2>3, <2>4 DEF TypeInv, TypeOK, Purge, outside, ghosts
<1>4. ASSUME NEW o \in Offers, Remediate(o) PROVE TypeInv'
  <2>1. <<"notion", o>> \in Tasks
    BY DEF Tasks
  <2>2. [task[<<"notion", o>>] EXCEPT !.status = "cancelled", !.next = Now] \in Task
        /\ [task[<<"notion", o>>] EXCEPT !.status = "cancelled", !.next = Now].status # "processing"
    BY <2>1 DEF TypeInv, TypeOK, Task
  <2>3. task' \in [Tasks -> Task] /\ Counted'
    BY <1>4, <2>1, <2>2, SetTaskIsTyped DEF Remediate
  <2>4. edits' \in 0..MaxEdits /\ faults' \in 0..MaxFaults
    BY <1>4, BoundsAreTyped DEF TypeInv, Remediate
  <2>5. unleased' \subseteq Offers
    BY <1>4 DEF Remediate, TypeInv, TypeOK
  <2> QED
    BY <1>4, <2>3, <2>4, <2>5 DEF TypeInv, TypeOK, Remediate, outside, world
<1>5. CASE SnapshotLapses
  <2>1. snapshot' \in Snapshot
    BY <1>5, UnleasedKeeps DEF SnapshotLapses, TypeInv, TypeOK, Snapshot
  <2>2. edits' \in 0..MaxEdits /\ faults' \in 0..MaxFaults
    BY <1>5, BoundsAreTyped DEF TypeInv, SnapshotLapses
  <2> QED
    BY <1>5, <2>1, <2>2 DEF TypeInv, TypeOK, Counted, SnapshotLapses, outside, world, ghosts
<1>6. CASE Migrate
  <2>1. edits' \in 0..MaxEdits /\ faults' \in 0..MaxFaults
    BY <1>6, BoundsAreTyped DEF TypeInv, Migrate
  <2> QED
    BY <1>6, <2>1 DEF TypeInv, TypeOK, Counted, Migrate, world, ghosts
<1>7. ASSUME NEW new \in Listings, Publish(new) PROVE TypeInv'
  <2>1. edits' \in 0..MaxEdits /\ faults' \in 0..MaxFaults
    BY <1>7, BoundsAreTyped DEF TypeInv, Publish
  <2> QED
    BY <1>7, <2>1 DEF TypeInv, TypeOK, Counted, Publish, world, ghosts
<1>8. ASSUME NEW on \in Settings, Switch(on) PROVE TypeInv'
  <2>1. edits' \in 0..MaxEdits /\ faults' \in 0..MaxFaults
    BY <1>8, BoundsAreTyped DEF TypeInv, Switch
  <2> QED
    BY <1>8, <2>1, LegacyTasksAssumption DEF TypeInv, TypeOK, Counted, Switch, Switches, world, ghosts
<1> QED
  BY <1>1, <1>2, <1>3, <1>4, <1>5, <1>6, <1>7, <1>8

(* A run has a task exactly from its claim to the outcome. *)
LEMMA WithTasksHasNone ==
    ASSUME NEW r \in Runs, NEW todo
    PROVE  WithTasks(r, todo).at = Nothing
           /\ WithTasks(r, todo).pc \in {"idle", "working"}
BY DEF WithTasks, Idle

LEMMA HasTaskStep ==
    ASSUME TypeInv, HasTask, [Next]_vars
    PROVE  HasTask'
<1> DEFINE Good(row) == row.at # Nothing <=> row.pc \in {"writing", "answered"}
<1>1. CASE UNCHANGED run
  BY <1>1 DEF HasTask
<1>2. ASSUME NEW r \in Runs, NEW row, SetRun(r, row), Good(row) PROVE HasTask'
  BY <1>2 DEF HasTask, SetRun, TypeInv, TypeOK
<1>3. ASSUME NEW r \in Runs, RunStep(r) \/ Fail(r) \/ Defer(r) \/ Crash(r) PROVE HasTask'
  <2>0. run[r] \in Run /\ Good(run[r])
    BY DEF TypeInv, TypeOK, HasTask
  <2>1. ASSUME NEW todo, SetRun(r, WithTasks(r, todo)) PROVE HasTask'
    <3>1. Good(WithTasks(r, todo))
      BY WithTasksHasNone
    <3> QED
      BY <1>2, <2>1, <3>1
  <2>2. CASE Reserve(r)
    BY <1>2, <2>2 DEF Reserve, Idle
  <2>3. CASE Fetch(r)
    <3>1. Good([run[r] EXCEPT !.pc = "fetched", !.raw = listing])
      BY <2>0, <2>3 DEF Fetch, Run
    <3> QED
      BY <1>2, <2>3, <3>1 DEF Fetch
  <2>4. CASE Apply(r) \/ Discard(r) \/ Fail(r) \/ Crash(r)
    <3>1. Good(Idle) /\ \A on : Good([Idle EXCEPT !.pc = "applied", !.on = on])
      BY DEF Idle
    <3> QED
      BY <1>2, <2>4, <3>1 DEF Apply, Discard, Fail, Crash
  <2>5. CASE Select(r)
    BY <2>1, <2>5 DEF Select
  <2>6. CASE Write(r)
    <3>1. PICK erred \in BOOLEAN : SetRun(r, [run[r] EXCEPT !.pc = "answered", !.erred = erred])
      BY <2>6 DEF Write
    <3>2. Good([run[r] EXCEPT !.pc = "answered", !.erred = erred])
      BY <2>0, <2>6 DEF Write, Run
    <3> QED
      BY <1>2, <3>1, <3>2
  <2>7. CASE Finalise(r) \/ Defer(r)
    BY <2>1, <2>7 DEF Finalise, Defer
  <2>8. ASSUME NEW k \in Tasks, Skip(r, k) \/ GiveUp(r, k) \/ Cancel(r, k) PROVE HasTask'
    BY <2>1, <2>8 DEF Skip, GiveUp, Cancel, Leave
  <2>9. ASSUME NEW k \in Tasks, Claim(r, k) PROVE HasTask'
    <3>1. k # Nothing
      BY LegacyTasksAssumption DEF Tasks
    <3>2. Good([run[r] EXCEPT !.pc = "writing", !.todo = @ \ {k}, !.at = k,
                              !.payload = task[k].payload])
      BY <2>0, <3>1 DEF Run
    <3> QED
      BY <1>2, <2>9, <3>2 DEF Claim
  <2> QED
    BY <1>3, <2>2, <2>3, <2>4, <2>5, <2>6, <2>7, <2>8, <2>9 DEF RunStep
<1>4. CASE \/ \E k \in Tasks : LeaseLapses(k) \/ RetryDue(k) \/ AdminRetry(k) \/ Purge(k)
           \/ \E o \in Offers : Remediate(o)
           \/ SnapshotLapses \/ Migrate
           \/ \E new \in Listings : Publish(new)
           \/ \E on \in Settings : Switch(on)
  BY <1>1, <1>4
  DEF LeaseLapses, RetryDue, AdminRetry, Purge, Remediate, SnapshotLapses, Migrate, Publish, Switch
<1>5. CASE UNCHANGED vars
  BY <1>1, <1>5 DEF vars
<1> QED
  BY <1>3, <1>4, <1>5 DEF Next

LEMMA TypeStep ==
    ASSUME TypeInv, HasTask, [Next]_vars
    PROVE  TypeInv'
<1>1. ASSUME NEW r \in Runs, RunStep(r) \/ Fail(r) \/ Defer(r) \/ Crash(r) PROVE TypeInv'
  BY <1>1, CollectionIsTyped, DeliveryIsTyped DEF RunStep
<1>2. CASE UNCHANGED vars
  BY <1>2 DEF TypeInv, TypeOK, Counted, vars, outside, world, ghosts, bounds
<1> QED
  BY <1>1, <1>2, OutsideIsTyped DEF Next

LEMMA InitIsTyped == Init => TypeInv /\ HasTask
<1> SUFFICES ASSUME Init PROVE TypeInv /\ HasTask
  OBVIOUS
<1>1. listing \in Listings
  BY DEF Init, Listings
<1>2. snapshot \in Snapshot /\ switches \in Switches
  BY LegacyTasksAssumption DEF Init, Snapshot, Switches
<1>3. task \in [Tasks -> Task] /\ Counted
  BY AbsentIsTyped DEF Init, Counted, Absent
<1>4. run \in [Runs -> Run] /\ HasTask
  BY IdleIsTyped DEF Init, HasTask, Idle
<1>5. edits \in 0..MaxEdits /\ faults \in 0..MaxFaults
  BY LegacyTasksAssumption DEF Init
<1> QED
  BY <1>1, <1>2, <1>3, <1>4, <1>5 DEF Init, TypeInv, TypeOK

(* Snapshot, tasks, runs, pages and bounds keep their types, whatever the trackers,
   the switches and the trouble (models.LegacyTask, models.SourceSnapshot). *)
THEOREM TypeCorrect == Spec => []TypeOK
<1>1. TypeInv /\ HasTask /\ [Next]_vars => (TypeInv /\ HasTask)'
  BY TypeStep, HasTaskStep
<1>2. TypeInv => TypeOK
  BY DEF TypeInv
<1> QED
  BY InitIsTyped, <1>1, <1>2, PTL DEF Spec

----------------------------------------------------------------------------
(* No offer is dropped. *)

(* No task goes back to being absent, and none loses its exemption but by a run that
   finds its offer new. *)
LEMMA AccountedStays ==
    ASSUME TypeInv, [Next]_vars, NEW j \in Tasks, Accounted(j),
           \A r \in Runs : Apply(r) => j[2] \in run[r].previous
    PROVE  Accounted(j)'
<1>0. task \in [Tasks -> Task]
  BY DEF TypeInv, TypeOK
<1>1. CASE UNCHANGED task /\ exempt' = exempt
  BY <1>1 DEF Accounted
<1>2. ASSUME NEW k \in Tasks, NEW row, SetTask(k, row), exempt' = exempt,
             row.status # "absent" \/ row.status = task[k].status
      PROVE  Accounted(j)'
  BY <1>0, <1>2 DEF Accounted, SetTask
<1>3. ASSUME NEW r \in Runs, RunStep(r) \/ Fail(r) \/ Defer(r) \/ Crash(r) PROVE Accounted(j)'
  <2>1. CASE Reserve(r) \/ Fetch(r) \/ Discard(r) \/ Select(r) \/ Write(r) \/ Fail(r)
             \/ Defer(r) \/ Crash(r)
    BY <1>1, <2>1
    DEF Reserve, Fetch, Discard, Select, Write, Fail, Defer, Crash, ghosts
  <2>2. CASE Apply(r)
    <3>1. task'[j] = task[j]
          \/ (j[2] \in DOMAIN run[r].raw /\ task'[j] = Enqueue(task[j], run[r].raw[j[2]], j[1]))
      BY <2>2 DEF Apply
    <3>2. run[r].raw \in Listings /\ task[j] \in Task
      BY <1>0 DEF TypeInv, TypeOK, Run
    <3>3. CASE j[2] \in DOMAIN run[r].raw /\ task'[j] = Enqueue(task[j], run[r].raw[j[2]], j[1])
      BY <3>2, <3>3, ListingIsTyped, EnqueueKeeps DEF Accounted
    <3>4. j \in exempt => j \in exempt'
      BY <2>2 DEF Apply
    <3> QED
      BY <3>1, <3>3, <3>4 DEF Accounted
  <2>3. CASE Finalise(r)
    <3>1. CASE UNCHANGED task
      BY <1>1, <2>3, <3>1 DEF Finalise, ghosts
    <3>2. CASE Owns(r) /\ \E malformed \in BOOLEAN :
                 SetTask(run[r].at, Outcome(task[run[r].at], run[r].erred, malformed))
      <4>1. PICK malformed \in BOOLEAN :
              SetTask(run[r].at, Outcome(task[run[r].at], run[r].erred, malformed))
        BY <3>2
      <4>2. CASE run[r].at \notin Tasks
        BY <1>0, <1>1, <2>3, <4>1, <4>2 DEF SetTask, Finalise, ghosts
      <4>3. CASE run[r].at \in Tasks
        <5>1. task[run[r].at] \in Task /\ task[run[r].at].attempts > 0 /\ run[r].erred \in BOOLEAN
          BY <3>2, <4>3 DEF Owns, TypeInv, TypeOK, Counted, Run
        <5>2. Outcome(task[run[r].at], run[r].erred, malformed).status # "absent"
          BY <5>1, OutcomeIsTyped
        <5> QED
          BY <1>2, <2>3, <4>1, <4>3, <5>2 DEF Finalise, ghosts
      <4> QED
        BY <4>2, <4>3
    <3> QED
      BY <2>3, <3>1, <3>2 DEF Finalise
  <2>4. ASSUME NEW k \in Tasks, Skip(r, k) PROVE Accounted(j)'
    BY <1>1, <2>4 DEF Skip, Leave, ghosts
  <2>5. ASSUME NEW k \in Tasks, GiveUp(r, k) \/ Cancel(r, k) PROVE Accounted(j)'
    <3>1. \A outcome : [task[k] EXCEPT !.status = outcome].status = outcome
      BY <1>0 DEF Task
    <3> QED
      BY <1>2, <2>5, <3>1 DEF GiveUp, Cancel, Leave, ghosts
  <2>6. ASSUME NEW k \in Tasks, Claim(r, k) PROVE Accounted(j)'
    <3>1. [task[k] EXCEPT !.status = "processing", !.next = r, !.attempts = @ + 1].status
            = "processing"
      BY <1>0 DEF Task
    <3> QED
      BY <1>2, <2>6, <3>1 DEF Claim, ghosts
  <2> QED
    BY <1>3, <2>1, <2>2, <2>3, <2>4, <2>5, <2>6 DEF RunStep
<1>4. ASSUME NEW k \in Tasks, LeaseLapses(k) \/ RetryDue(k) PROVE Accounted(j)'
  <2>1. [task[k] EXCEPT !.next = Now].status = task[k].status
    BY <1>0 DEF Task
  <2> QED
    BY <1>2, <1>4, <2>1 DEF LeaseLapses, RetryDue, ghosts
<1>5. ASSUME NEW k \in Tasks, AdminRetry(k) \/ Purge(k) PROVE Accounted(j)'
  <2>1. [task[k] EXCEPT !.status = "pending", !.attempts = 0, !.next = Now].status = "pending"
        /\ [Absent EXCEPT !.status = "purged"].status = "purged"
    BY <1>0 DEF Task, Absent
  <2> QED
    BY <1>2, <1>5, <2>1 DEF AdminRetry, Purge, ghosts
<1>6. ASSUME NEW o \in Offers, Remediate(o) PROVE Accounted(j)'
  <2>1. <<"notion", o>> \in Tasks
    BY DEF Tasks
  <2>2. [task[<<"notion", o>>] EXCEPT !.status = "cancelled", !.next = Now].status = "cancelled"
    BY <1>0, <2>1 DEF Task
  <2> QED
    BY <1>2, <1>6, <2>1, <2>2 DEF Remediate
<1>7. CASE \/ SnapshotLapses \/ Migrate
           \/ \E new \in Listings : Publish(new)
           \/ \E on \in Settings : Switch(on)
  BY <1>1, <1>7 DEF SnapshotLapses, Migrate, Publish, Switch, ghosts
<1>8. CASE UNCHANGED vars
  BY <1>1, <1>8 DEF vars, ghosts
<1> QED
  BY <1>3, <1>4, <1>5, <1>6, <1>7, <1>8 DEF Next

(* Only a reservation gives a run a snapshot to compare with. *)
LEMMA PreviousStays ==
    ASSUME TypeInv, [Next]_vars, NEW r \in Runs, ~Reserve(r),
           run'[r].pc \in {"reserved", "fetched"}
    PROVE  run[r].pc \in {"reserved", "fetched"} /\ run'[r].previous = run[r].previous
<1> DEFINE Kept(row) ==
             row.pc \in {"reserved", "fetched"} =>
               run[r].pc \in {"reserved", "fetched"} /\ row.previous = run[r].previous
<1>0. run \in [Runs -> Run]
  BY DEF TypeInv, TypeOK
<1>1. CASE UNCHANGED run
  BY <1>1
<1>2. ASSUME NEW s \in Runs, NEW row, SetRun(s, row),
             s = r => Kept(row)
      PROVE  Kept(run'[r])
  BY <1>0, <1>2 DEF SetRun
<1>3. ASSUME NEW s \in Runs, RunStep(s) \/ Fail(s) \/ Defer(s) \/ Crash(s)
      PROVE  Kept(run'[r])
  <2>1. ASSUME NEW todo, SetRun(s, WithTasks(s, todo))
        PROVE  Kept(run'[r])
    <3>1. WithTasks(s, todo).pc \in {"idle", "working"}
      BY DEF WithTasks, Idle
    <3> QED
      BY <1>2, <2>1, <3>1
  <2>2. CASE Reserve(s)
    BY <1>2, <2>2 DEF Reserve
  <2>3. CASE Fetch(s)
    <3>1. s = r => Kept([run[s] EXCEPT !.pc = "fetched", !.raw = listing])
      BY <1>0, <2>3 DEF Fetch, Run
    <3> QED
      BY <1>2, <2>3, <3>1 DEF Fetch
  <2>4. CASE Apply(s) \/ Discard(s) \/ Fail(s) \/ Crash(s)
    <3>1. Idle.pc = "idle" /\ \A on : [Idle EXCEPT !.pc = "applied", !.on = on].pc = "applied"
      BY DEF Idle
    <3> QED
      BY <1>2, <2>4, <3>1 DEF Apply, Discard, Fail, Crash
  <2>5. CASE Select(s) \/ Finalise(s) \/ Defer(s)
    BY <2>1, <2>5 DEF Select, Finalise, Defer
  <2>6. CASE Write(s)
    <3>1. PICK erred \in BOOLEAN : SetRun(s, [run[s] EXCEPT !.pc = "answered", !.erred = erred])
      BY <2>6 DEF Write
    <3>2. [run[s] EXCEPT !.pc = "answered", !.erred = erred].pc = "answered"
      BY <1>0 DEF Run
    <3> QED
      BY <1>2, <3>1, <3>2
  <2>7. ASSUME NEW k \in Tasks, Skip(s, k) \/ GiveUp(s, k) \/ Cancel(s, k)
        PROVE  Kept(run'[r])
    BY <2>1, <2>7 DEF Skip, GiveUp, Cancel, Leave
  <2>8. ASSUME NEW k \in Tasks, Claim(s, k)
        PROVE  Kept(run'[r])
    <3>1. [run[s] EXCEPT !.pc = "writing", !.todo = @ \ {k}, !.at = k,
                         !.payload = task[k].payload].pc = "writing"
      BY <1>0 DEF Run
    <3> QED
      BY <1>2, <2>8, <3>1 DEF Claim
  <2> QED
    BY <1>3, <2>2, <2>3, <2>4, <2>5, <2>6, <2>7, <2>8 DEF RunStep
<1>4. CASE \/ \E k \in Tasks : LeaseLapses(k) \/ RetryDue(k) \/ AdminRetry(k) \/ Purge(k)
           \/ \E o \in Offers : Remediate(o)
           \/ SnapshotLapses \/ Migrate
           \/ \E new \in Listings : Publish(new)
           \/ \E on \in Settings : Switch(on)
  BY <1>1, <1>4
  DEF LeaseLapses, RetryDue, AdminRetry, Purge, Remediate, SnapshotLapses, Migrate, Publish, Switch
<1>5. CASE UNCHANGED vars
  BY <1>1, <1>5 DEF vars
<1> QED
  BY <1>3, <1>4, <1>5 DEF Next

(* Only a reservation and a run that advances it move the saved snapshot. *)
LEMMA SnapshotStays ==
    ASSUME TypeInv, [Next]_vars, \A r \in Runs : ~Reserve(r) /\ ~(Apply(r) /\ Advances(r))
    PROVE  snapshot'.offers = snapshot.offers /\ snapshot'.token \in {snapshot.token, Nothing}
<1>0. snapshot \in Snapshot
  BY DEF TypeInv, TypeOK
<1>1. CASE snapshot' = Unleased \/ snapshot' = [snapshot EXCEPT !.leased = FALSE]
  BY <1>0, <1>1, UnleasedKeeps DEF Snapshot
<1>2. CASE UNCHANGED snapshot
  BY <1>2
<1>3. ASSUME NEW r \in Runs, Apply(r)
      PROVE  snapshot'.offers = snapshot.offers /\ snapshot'.token \in {snapshot.token, Nothing}
  BY <1>1, <1>3 DEF Apply
<1>4. CASE SnapshotLapses \/ \E r \in Runs : Fail(r)
  BY <1>1, <1>2, <1>4 DEF SnapshotLapses, Fail
<1>5. ASSUME NEW r \in Runs,
             \/ Fetch(r) \/ Discard(r) \/ Select(r) \/ Write(r) \/ Finalise(r)
             \/ Defer(r) \/ Crash(r)
             \/ \E k \in Tasks : Skip(r, k) \/ GiveUp(r, k) \/ Cancel(r, k) \/ Claim(r, k)
      PROVE  UNCHANGED snapshot
  BY <1>5
  DEF Fetch, Discard, Select, Write, Finalise, Defer, Crash, Skip, GiveUp, Cancel, Claim, Leave
<1>6. CASE \/ \E k \in Tasks : LeaseLapses(k) \/ RetryDue(k) \/ AdminRetry(k) \/ Purge(k)
           \/ \E o \in Offers : Remediate(o)
           \/ Migrate
           \/ \E new \in Listings : Publish(new)
           \/ \E on \in Settings : Switch(on)
  BY <1>6 DEF LeaseLapses, RetryDue, AdminRetry, Purge, Remediate, Migrate, Publish, Switch
<1>7. CASE UNCHANGED vars
  BY <1>7 DEF vars
<1> QED
  BY <1>2, <1>3, <1>4, <1>5, <1>6, <1>7 DEF Next, RunStep

LEMMA OffersStep ==
    ASSUME OffersInv, [Next]_vars
    PROVE  (NothingDropped /\ Current)'
<1>0. TypeInv /\ NothingDropped /\ Current
  BY DEF OffersInv
<1>1. ASSUME NEW r \in Runs, Reserve(r) PROVE (NothingDropped /\ Current)'
  <2>1. \A k \in Tasks : k[2] \in Previous \ Archive => Accounted(k)
    BY <1>0 DEF Previous, NothingDropped, Accounted
  <2>2. snapshot'.offers = Previous /\ snapshot'.token = r
    BY <1>0, <1>1 DEF Reserve, TypeInv, TypeOK, Snapshot
  <2>3. run'[r].previous = Previous
    BY <1>0, <1>1 DEF Reserve, SetRun, TypeInv, TypeOK, Idle
  <2>4. UNCHANGED <<task, exempt>>
    BY <1>1 DEF Reserve, ghosts
  <2> QED
    BY <2>1, <2>2, <2>3, <2>4 DEF NothingDropped, Current, Accounted, Owned
<1>2. ASSUME NEW r \in Runs, Apply(r), Advances(r) PROVE (NothingDropped /\ Current)'
  <2>1. snapshot'.offers = DOMAIN run[r].raw /\ snapshot'.token = Nothing
    BY <1>0, <1>2, UnleasedKeeps DEF Apply, Snapshot
  <2>2. run[r].pc = "fetched" /\ snapshot.token = r /\ run'[r].pc = "applied"
    BY <1>0, <1>2 DEF Apply, Owned, SetRun, Idle, TypeInv, TypeOK
  <2>3. run[r].previous = snapshot.offers
    BY <1>0, <2>2 DEF Current, Owned
  <2>4. Current'
    BY <2>1, LegacyTasksAssumption DEF Current, Owned
  <2>5. ASSUME NEW k \in Tasks, k[2] \in snapshot'.offers \ Archive PROVE Accounted(k)'
    <3>1. CASE k[2] \in run[r].previous
      <4>1. Accounted(k)
        BY <1>0, <2>3, <2>5, <3>1 DEF NothingDropped, Accounted
      <4>2. \A s \in Runs : Apply(s) => k[2] \in run[s].previous
        BY <2>2, <3>1 DEF Apply, Owned
      <4> QED
        BY <1>0, <4>1, <4>2, AccountedStays
    <3>2. CASE k[2] \notin run[r].previous /\ ~Owes(r, k)
      BY <1>2, <2>1, <2>5, <3>2 DEF Apply, Accounted
    <3>3. CASE k[2] \notin run[r].previous /\ Owes(r, k)
      <4>1. k[1] = "email" => run[r].on.recipients
        BY <1>2, <3>3 DEF Owes, Advances
      <4>2. task'[k] = Enqueue(task[k], run[r].raw[k[2]], k[1])
        BY <1>2, <2>1, <2>5, <3>3, <4>1 DEF Apply
      <4>3. task[k] \in Task /\ run[r].raw[k[2]] \in Versions
        BY <1>0, <2>1, <2>5, ListingIsTyped DEF TypeInv, TypeOK, Run
      <4> QED
        BY <4>2, <4>3, EnqueueKeeps DEF Accounted
    <3> QED
      BY <3>1, <3>2, <3>3
  <2>6. NothingDropped'
    BY <2>5 DEF NothingDropped, Accounted
  <2> QED
    BY <2>4, <2>6
<1>3. CASE \A r \in Runs : ~Reserve(r) /\ ~(Apply(r) /\ Advances(r))
  <2>1. snapshot'.offers = snapshot.offers /\ snapshot'.token \in {snapshot.token, Nothing}
    BY <1>0, <1>3, SnapshotStays
  <2>2. Current'
    BY <1>0, <1>3, <2>1, PreviousStays, LegacyTasksAssumption DEF Current, Owned
  <2>3. ASSUME NEW k \in Tasks, k[2] \in snapshot'.offers \ Archive PROVE Accounted(k)'
    <3>1. Accounted(k)
      BY <1>0, <2>1, <2>3 DEF NothingDropped, Accounted
    <3>2. \A r \in Runs : Apply(r) => k[2] \in run[r].previous
      BY <1>0, <2>1, <2>3 DEF Apply, Current
    <3> QED
      BY <1>0, <3>1, <3>2, AccountedStays
  <2>4. NothingDropped'
    BY <2>3 DEF NothingDropped, Accounted
  <2> QED
    BY <2>2, <2>4
<1> QED
  BY <1>1, <1>2, <1>3

(* An offer the saved snapshot knows has its tasks, or owed none to the run that found
   it new, by its start term or the switches: the snapshot and the outbox advance
   together (legacy.run_collector), however runs overlap, fail or die. *)
THEOREM OffersAreKept == Spec => []NothingDropped
<1>1. Init => OffersInv /\ HasTask
  <2> SUFFICES ASSUME Init PROVE NothingDropped /\ Current
    BY InitIsTyped DEF OffersInv
  <2>1. snapshot.offers = {}
    BY DEF Init
  <2>2. \A r \in Runs : run[r].pc = "idle"
    BY DEF Init, Idle
  <2> QED
    BY <2>1, <2>2 DEF NothingDropped, Current
<1>2. OffersInv /\ HasTask /\ [Next]_vars => (OffersInv /\ HasTask)'
  <2> SUFFICES ASSUME OffersInv, HasTask, [Next]_vars PROVE (OffersInv /\ HasTask)'
    OBVIOUS
  <2>1. TypeInv' /\ HasTask'
    BY TypeStep, HasTaskStep DEF OffersInv
  <2> QED
    BY <2>1, OffersStep DEF OffersInv
<1>3. OffersInv => NothingDropped
  BY DEF OffersInv
<1> QED
  BY <1>1, <1>2, <1>3, PTL DEF Spec

----------------------------------------------------------------------------
(* A task under way belongs to one run. *)

(* Only a claim gives a run a task, and a run keeps what it read with it. *)
LEMMA AtStays ==
    ASSUME TypeInv, [Next]_vars, NEW r \in Runs, ~\E k \in Tasks : Claim(r, k)
    PROVE  \/ run'[r].at = Nothing
           \/ run'[r].at = run[r].at /\ run'[r].payload = run[r].payload
<1> DEFINE Kept(row) == row.at = Nothing \/ (row.at = run[r].at /\ row.payload = run[r].payload)
<1>0. run \in [Runs -> Run]
  BY DEF TypeInv, TypeOK
<1>1. CASE UNCHANGED run
  BY <1>1
<1>2. ASSUME NEW s \in Runs, NEW row, SetRun(s, row), s = r => Kept(row)
      PROVE  Kept(run'[r])
  BY <1>0, <1>2 DEF SetRun
<1>3. ASSUME NEW s \in Runs, RunStep(s) \/ Fail(s) \/ Defer(s) \/ Crash(s)
      PROVE  Kept(run'[r])
  <2>1. ASSUME NEW todo, SetRun(s, WithTasks(s, todo)) PROVE Kept(run'[r])
    <3>1. Kept(WithTasks(s, todo))
      BY WithTasksHasNone
    <3> QED
      BY <1>2, <2>1, <3>1
  <2>2. CASE Reserve(s) \/ Apply(s) \/ Discard(s) \/ Fail(s) \/ Crash(s)
    <3>1. Idle.at = Nothing /\ \A on : [Idle EXCEPT !.pc = "applied", !.on = on].at = Nothing
      BY DEF Idle
    <3>2. CASE Reserve(s)
      BY <1>2, <3>2 DEF Reserve, Idle
    <3> QED
      BY <1>2, <2>2, <3>1, <3>2 DEF Apply, Discard, Fail, Crash
  <2>3. CASE Fetch(s)
    <3>1. s = r => Kept([run[s] EXCEPT !.pc = "fetched", !.raw = listing])
      BY <1>0 DEF Run
    <3> QED
      BY <1>2, <2>3, <3>1 DEF Fetch
  <2>4. CASE Select(s) \/ Finalise(s) \/ Defer(s)
    BY <2>1, <2>4 DEF Select, Finalise, Defer
  <2>5. CASE Write(s)
    <3>1. PICK erred \in BOOLEAN : SetRun(s, [run[s] EXCEPT !.pc = "answered", !.erred = erred])
      BY <2>5 DEF Write
    <3>2. s = r => Kept([run[s] EXCEPT !.pc = "answered", !.erred = erred])
      BY <1>0 DEF Run
    <3> QED
      BY <1>2, <3>1, <3>2
  <2>6. ASSUME NEW k \in Tasks, Skip(s, k) \/ GiveUp(s, k) \/ Cancel(s, k) PROVE Kept(run'[r])
    BY <2>1, <2>6 DEF Skip, GiveUp, Cancel, Leave
  <2>7. ASSUME NEW k \in Tasks, Claim(s, k) PROVE Kept(run'[r])
    BY <1>2, <2>7 DEF Claim
  <2> QED
    BY <1>3, <2>2, <2>3, <2>4, <2>5, <2>6, <2>7 DEF RunStep
<1>4. CASE \/ \E k \in Tasks : LeaseLapses(k) \/ RetryDue(k) \/ AdminRetry(k) \/ Purge(k)
           \/ \E o \in Offers : Remediate(o)
           \/ SnapshotLapses \/ Migrate
           \/ \E new \in Listings : Publish(new)
           \/ \E on \in Settings : Switch(on)
  BY <1>1, <1>4
  DEF LeaseLapses, RetryDue, AdminRetry, Purge, Remediate, SnapshotLapses, Migrate, Publish, Switch
<1>5. CASE UNCHANGED vars
  BY <1>1, <1>5 DEF vars
<1> QED
  BY <1>3, <1>4, <1>5 DEF Next

(* No step settles or takes a task that a run writes, but the outcome of that run. *)
LEMMA HeldStays ==
    ASSUME HoldInv, [Next]_vars, NEW r \in Runs, NEW k \in Tasks,
           run[r].at = k, run'[r].at = k, ~Dropped(k), ~Dropped(k)'
    PROVE  /\ task'[k].next = r /\ task'[k].status \in {"pending", "processing"}
           /\ k[1] = "email" => task'[k] = task[k]
<1> DEFINE Goal == /\ task'[k].next = r /\ task'[k].status \in {"pending", "processing"}
                   /\ k[1] = "email" => task'[k] = task[k]
<1>0. task \in [Tasks -> Task] /\ task[k] \in Task /\ run \in [Runs -> Run]
  BY DEF HoldInv, TypeInv, TypeOK
<1>1. task[k].next = r /\ task[k].status \in {"pending", "processing"}
  BY DEF HoldInv, Held
<1>2. r # Now /\ r # Later /\ k # Nothing
  BY LegacyTasksAssumption DEF Tasks
<1>3. CASE task'[k] = task[k]
  BY <1>1, <1>3
<1>4. ASSUME NEW j \in Tasks, NEW row, SetTask(j, row), j # k PROVE Goal
  <2>1. task'[k] = task[k]
    BY <1>0, <1>4 DEF SetTask
  <2> QED
    BY <1>3, <2>1
<1>5. ASSUME NEW s \in Runs, RunStep(s) \/ Fail(s) \/ Defer(s) \/ Crash(s) PROVE Goal
  <2>1. CASE Reserve(s) \/ Fetch(s) \/ Discard(s) \/ Select(s) \/ Write(s) \/ Fail(s)
             \/ Defer(s) \/ Crash(s)
    BY <1>3, <2>1 DEF Reserve, Fetch, Discard, Select, Write, Fail, Defer, Crash
  <2>2. CASE Apply(s)
    <3>1. task'[k] = task[k]
          \/ (k[2] \in DOMAIN run[s].raw /\ task'[k] = Enqueue(task[k], run[s].raw[k[2]], k[1]))
      BY <2>2 DEF Apply
    <3>2. run[s].raw \in Listings
      BY <1>0 DEF Run
    <3>3. CASE k[2] \in DOMAIN run[s].raw /\ task'[k] = Enqueue(task[k], run[s].raw[k[2]], k[1])
      <4>1. run[s].raw[k[2]] \in Versions
        BY <3>2, <3>3, ListingIsTyped
      <4>2. task'[k].next = task[k].next
            /\ (task'[k].status = "pending" \/ task'[k] = task[k])
            /\ (k[1] # "notion" => task'[k] = task[k])
        BY <1>0, <1>1, <3>3, <4>1, EnqueueKeeps
      <4> QED
        BY <1>1, <4>2
    <3> QED
      BY <1>3, <3>1, <3>3
  <2>3. CASE Finalise(s)
    <3>1. CASE UNCHANGED task
      BY <1>3, <3>1
    <3>2. CASE Owns(s) /\ \E malformed \in BOOLEAN :
                 SetTask(run[s].at, Outcome(task[run[s].at], run[s].erred, malformed))
      <4>1. run[s].at \in Tasks
        BY <1>0, <2>3 DEF Finalise, HoldInv, HasTask, Run
      <4>2. CASE run[s].at = k
        <5>1. s = r
          BY <1>1, <3>2, <4>2 DEF Owns
        <5>2. PICK todo : run' = [run EXCEPT ![s] = WithTasks(s, todo)]
          BY <2>3 DEF Finalise, SetRun
        <5>3. run'[r].at = Nothing
          BY <1>0, <5>1, <5>2, WithTasksHasNone
        <5> QED
          BY <1>2, <5>3
      <4> QED
        BY <1>4, <3>2, <4>1, <4>2
    <3> QED
      BY <2>3, <3>1, <3>2 DEF Finalise
  <2>4. ASSUME NEW j \in Tasks, Skip(s, j) PROVE Goal
    BY <1>3, <2>4 DEF Skip
  <2>5. ASSUME NEW j \in Tasks, GiveUp(s, j) \/ Cancel(s, j) \/ Claim(s, j) PROVE Goal
    <3>1. j # k
      BY <1>1, <1>2, <2>5 DEF GiveUp, Cancel, Claim, Available
    <3> QED
      BY <1>4, <2>5, <3>1 DEF GiveUp, Cancel, Claim
  <2> QED
    BY <1>5, <2>1, <2>2, <2>3, <2>4, <2>5 DEF RunStep
<1>6. ASSUME NEW j \in Tasks, LeaseLapses(j) \/ RetryDue(j) \/ AdminRetry(j) \/ Purge(j) PROVE Goal
  <2>1. j # k
    BY <1>1, <1>2, <1>6 DEF LeaseLapses, RetryDue, AdminRetry, Purge
  <2> QED
    BY <1>4, <1>6, <2>1 DEF LeaseLapses, RetryDue, AdminRetry, Purge
<1>7. ASSUME NEW o \in Offers, Remediate(o) PROVE Goal
  <2>1. <<"notion", o>> \in Tasks
    BY DEF Tasks
  <2>2. <<"notion", o>> # k
    BY <1>1, <1>7 DEF Remediate, Dropped
  <2> QED
    BY <1>4, <1>7, <2>1, <2>2 DEF Remediate
<1>8. CASE \/ SnapshotLapses \/ Migrate
           \/ \E new \in Listings : Publish(new)
           \/ \E on \in Settings : Switch(on)
  BY <1>3, <1>8 DEF SnapshotLapses, Migrate, Publish, Switch
<1>9. CASE UNCHANGED vars
  BY <1>3, <1>9 DEF vars
<1> QED
  BY <1>5, <1>6, <1>7, <1>8, <1>9 DEF Next

(* Pages, mail, dropped leases and faults each change by few actions. *)
LEMMA StepFrames ==
    ASSUME [Next]_vars
    PROVE  /\ UNCHANGED unleased \/ \E o \in Offers : Remediate(o)
           /\ UNCHANGED page \/ \E s \in Runs : Write(s)
           /\ UNCHANGED mails \/ (\E s \in Runs : Write(s)) \/ (\E k \in Tasks : Purge(k))
           /\ UNCHANGED faults \/ MayFail \/ MayEdit
<1> DEFINE Goal == /\ UNCHANGED unleased \/ \E o \in Offers : Remediate(o)
                   /\ UNCHANGED page \/ \E s \in Runs : Write(s)
                   /\ UNCHANGED mails \/ (\E s \in Runs : Write(s)) \/ (\E k \in Tasks : Purge(k))
                   /\ UNCHANGED faults \/ MayFail \/ MayEdit
<1>1. ASSUME NEW s \in Runs,
             Reserve(s) \/ Fetch(s) \/ Apply(s) \/ Discard(s) \/ Select(s) \/ Finalise(s)
      PROVE  Goal
  BY <1>1 DEF Reserve, Fetch, Apply, Discard, Select, Finalise, world, ghosts, bounds
<1>2. ASSUME NEW s \in Runs, Fail(s) \/ Defer(s) \/ Crash(s) PROVE Goal
  BY <1>2 DEF Fail, Defer, Crash, world, ghosts
<1>3. ASSUME NEW s \in Runs, NEW k \in Tasks,
             Skip(s, k) \/ GiveUp(s, k) \/ Cancel(s, k) \/ Claim(s, k)
      PROVE  Goal
  BY <1>3 DEF Skip, GiveUp, Cancel, Leave, Claim, world, ghosts, bounds
<1>4. ASSUME NEW s \in Runs, Write(s) PROVE Goal
  <2>1. UNCHANGED bounds \/ MayFail
    BY <1>4 DEF Write
  <2> QED
    BY <1>4, <2>1 DEF Write, ghosts, bounds
<1>5. ASSUME NEW k \in Tasks, LeaseLapses(k) \/ RetryDue(k) \/ AdminRetry(k) PROVE Goal
  BY <1>5 DEF LeaseLapses, RetryDue, AdminRetry, world, ghosts, bounds
<1>6. ASSUME NEW k \in Tasks, Purge(k) PROVE Goal
  BY <1>6 DEF Purge, ghosts
<1>7. ASSUME NEW o \in Offers, Remediate(o) PROVE Goal
  BY <1>7 DEF Remediate, world
<1>8. CASE \/ Migrate
           \/ \E new \in Listings : Publish(new)
           \/ \E on \in Settings : Switch(on)
  BY <1>8 DEF Migrate, Publish, Switch, world, ghosts
<1>9. CASE SnapshotLapses
  <2>1. UNCHANGED bounds \/ MayFail
    BY <1>9 DEF SnapshotLapses
  <2> QED
    BY <1>9, <2>1 DEF SnapshotLapses, world, ghosts, bounds
<1>10. CASE UNCHANGED vars
  BY <1>10 DEF vars, world, ghosts, bounds
<1>11. CASE Next
  <2>1. ASSUME NEW s \in Runs, RunStep(s) PROVE Goal
    BY <1>1, <1>3, <1>4, <2>1 DEF RunStep
  <2>2. ASSUME NEW s \in Runs, Fail(s) \/ Defer(s) \/ Crash(s) PROVE Goal
    BY <1>2, <2>2
  <2> QED
    BY <1>5, <1>6, <1>7, <1>8, <1>9, <1>11, <2>1, <2>2 DEF Next
<1> QED
  BY <1>10, <1>11

(* A dropped lease stays dropped. *)
LEMMA DroppedStays ==
    ASSUME [Next]_vars
    PROVE  unleased \subseteq unleased'
<1>1. CASE UNCHANGED unleased
  BY <1>1
<1>2. ASSUME NEW o \in Offers, Remediate(o) PROVE unleased \subseteq unleased'
  BY <1>2 DEF Remediate
<1> QED
  BY <1>1, <1>2, StepFrames

LEMMA HoldStep ==
    ASSUME HoldInv, [Next]_vars
    PROVE  HoldInv'
<1>0. TypeInv /\ HasTask /\ Held /\ MailHeld
  BY DEF HoldInv
<1>1. TypeInv' /\ HasTask'
  BY <1>0, TypeStep, HasTaskStep
<1>2. ASSUME NEW r \in Runs, NEW k \in Tasks, run'[r].at = k
      PROVE  /\ ~Dropped(k)' => task'[k].next = r /\ task'[k].status \in {"pending", "processing"}
             /\ k[1] = "email" => task'[k].status = "processing" /\ task'[k].payload = run'[r].payload
  <2>0. k # Nothing
    BY LegacyTasksAssumption DEF Tasks
  <2>1. CASE \E j \in Tasks : Claim(r, j)
    <3>1. PICK j \in Tasks : Claim(r, j)
      BY <2>1
    <3>2. run'[r].at = j /\ run'[r].payload = task[j].payload
      BY <1>0, <3>1 DEF Claim, SetRun, TypeInv, TypeOK, Run
    <3>3. task'[j].next = r /\ task'[j].status = "processing" /\ task'[j].payload = task[j].payload
      BY <1>0, <3>1 DEF Claim, SetTask, TypeInv, TypeOK, Task
    <3> QED
      BY <1>2, <3>2, <3>3
  <2>2. CASE ~\E j \in Tasks : Claim(r, j)
    <3>1. run[r].at = k /\ run'[r].payload = run[r].payload
      BY <1>0, <1>2, <2>0, <2>2, AtStays
    <3>2. ~Dropped(k)' => ~Dropped(k)
      BY DroppedStays DEF Dropped
    <3>3. k[1] = "email" => ~Dropped(k)'
      BY DEF Dropped
    <3>4. ~Dropped(k)' => /\ task'[k].next = r /\ task'[k].status \in {"pending", "processing"}
                          /\ k[1] = "email" => task'[k] = task[k]
      BY <1>2, <3>1, <3>2, HeldStays
    <3>5. k[1] = "email" => task[k].status = "processing" /\ task[k].payload = run[r].payload
      BY <1>0, <3>1 DEF MailHeld
    <3> QED
      BY <3>1, <3>3, <3>4, <3>5
  <2> QED
    BY <2>1, <2>2
<1> QED
  BY <1>1, <1>2 DEF HoldInv, Held, MailHeld, Dropped

LEMMA InitHolds == Init => HoldInv
<1> SUFFICES ASSUME Init PROVE Held /\ MailHeld
  BY InitIsTyped DEF HoldInv
<1>1. \A r \in Runs : run[r].at \notin Tasks
  BY LegacyTasksAssumption DEF Init, Idle, Tasks
<1> QED
  BY <1>1 DEF Held, MailHeld

----------------------------------------------------------------------------
(* Who changes what. *)

(* A run changes by its own steps. *)
LEMMA RunIsOwn ==
    ASSUME TypeInv, [Next]_vars, NEW r \in Runs
    PROVE  run'[r] = run[r] \/ RunStep(r) \/ Fail(r) \/ Defer(r) \/ Crash(r)
<1>0. run \in [Runs -> Run]
  BY DEF TypeInv, TypeOK
<1>1. CASE UNCHANGED run
  BY <1>1
<1>2. ASSUME NEW s \in Runs, s # r, NEW row, SetRun(s, row) PROVE run'[r] = run[r]
  BY <1>0, <1>2 DEF SetRun
<1>3. ASSUME NEW s \in Runs, s # r, RunStep(s) \/ Fail(s) \/ Defer(s) \/ Crash(s)
      PROVE  run'[r] = run[r]
  <2>1. CASE \/ Reserve(s) \/ Fetch(s) \/ Apply(s) \/ Discard(s) \/ Select(s) \/ Write(s)
             \/ Finalise(s) \/ Fail(s) \/ Defer(s) \/ Crash(s)
    <3>1. \E row : SetRun(s, row)
      BY <2>1 DEF Reserve, Fetch, Apply, Discard, Select, Write, Finalise, Fail, Defer, Crash
    <3> QED
      BY <1>2, <1>3, <3>1
  <2>2. ASSUME NEW k \in Tasks, Skip(s, k) \/ GiveUp(s, k) \/ Cancel(s, k) \/ Claim(s, k)
        PROVE  run'[r] = run[r]
    <3>1. \E row : SetRun(s, row)
      BY <2>2 DEF Skip, GiveUp, Cancel, Leave, Claim
    <3> QED
      BY <1>2, <1>3, <3>1
  <2> QED
    BY <1>3, <2>1, <2>2 DEF RunStep
<1>4. CASE \/ \E k \in Tasks : LeaseLapses(k) \/ RetryDue(k) \/ AdminRetry(k) \/ Purge(k)
           \/ \E o \in Offers : Remediate(o)
           \/ SnapshotLapses \/ Migrate
           \/ \E new \in Listings : Publish(new)
           \/ \E on \in Settings : Switch(on)
  BY <1>1, <1>4
  DEF LeaseLapses, RetryDue, AdminRetry, Purge, Remediate, SnapshotLapses, Migrate, Publish, Switch
<1>5. CASE UNCHANGED vars
  BY <1>1, <1>5 DEF vars
<1> QED
  BY <1>3, <1>4, <1>5 DEF Next

(* A run that was answered records the outcome, fails to, or dies. *)
LEMMA AnsweredEnds ==
    ASSUME TypeInv, [Next]_vars, NEW r \in Runs, run[r].pc = "answered"
    PROVE  run'[r] = run[r] \/ Finalise(r) \/ Defer(r) \/ Crash(r)
<1>1. CASE RunStep(r) \/ Fail(r)
  BY <1>1
  DEF RunStep, Fail, Reserve, Fetch, Apply, Discard, Select, Write, Skip, GiveUp, Cancel, Claim, Leave
<1> QED
  BY <1>1, RunIsOwn

(* A run is answered by its write. *)
LEMMA AnsweredByWrite ==
    ASSUME TypeInv, [Next]_vars, NEW r \in Runs, run'[r].pc = "answered"
    PROVE  run'[r] = run[r] \/ Write(r)
<1>0. run \in [Runs -> Run] /\ run[r] \in Run
  BY DEF TypeInv, TypeOK
<1>1. ASSUME NEW row, SetRun(r, row) PROVE row.pc = "answered"
  BY <1>0, <1>1 DEF SetRun
<1>2. \A todo : ~SetRun(r, WithTasks(r, todo))
  BY <1>1, WithTasksHasNone
<1>3. Idle.pc # "answered" /\ \A on : [Idle EXCEPT !.pc = "applied", !.on = on].pc # "answered"
  BY DEF Idle
<1>4. ~(Apply(r) \/ Discard(r) \/ Fail(r) \/ Crash(r))
  BY <1>1, <1>3 DEF Apply, Discard, Fail, Crash
<1>5. ~Reserve(r)
  <2>1. [Idle EXCEPT !.pc = "reserved", !.on = switches, !.previous = Previous,
                     !.baseline = ~snapshot.dated /\ ~HasArchive].pc # "answered"
    BY DEF Idle
  <2> QED
    BY <1>1, <2>1 DEF Reserve
<1>6. ~Fetch(r)
  <2>1. [run[r] EXCEPT !.pc = "fetched", !.raw = listing].pc # "answered"
    BY <1>0 DEF Run
  <2> QED
    BY <1>1, <2>1 DEF Fetch
<1>7. ~(Select(r) \/ Finalise(r) \/ Defer(r))
  BY <1>2 DEF Select, Finalise, Defer
<1>8. ASSUME NEW k \in Tasks, Skip(r, k) \/ GiveUp(r, k) \/ Cancel(r, k) PROVE FALSE
  BY <1>2, <1>8 DEF Skip, GiveUp, Cancel, Leave
<1>9. ASSUME NEW k \in Tasks, Claim(r, k) PROVE FALSE
  <2>1. [run[r] EXCEPT !.pc = "writing", !.todo = @ \ {k}, !.at = k,
                       !.payload = task[k].payload].pc # "answered"
    BY <1>0 DEF Run
  <2> QED
    BY <1>1, <1>9, <2>1 DEF Claim
<1> QED
  BY <1>4, <1>5, <1>6, <1>7, <1>8, <1>9, RunIsOwn DEF RunStep

(* A page changes when a run writes it. *)
LEMMA PageByWrite ==
    ASSUME TypeInv, [Next]_vars, NEW o \in Offers, page'[o] # page[o]
    PROVE  \E s \in Runs : Write(s) /\ run[s].at[1] = "notion" /\ run[s].at[2] = o
<1>1. ASSUME NEW s \in Runs, Write(s)
      PROVE  run[s].at[1] = "notion" /\ run[s].at[2] = o
  BY <1>1 DEF Write, Deliver, world, TypeInv, TypeOK
<1>2. page' # page
  OBVIOUS
<1> QED
  BY <1>1, <1>2, StepFrames

(* Mail is counted when a run has it accepted, and forgotten with its task. *)
LEMMA MailsByWrite ==
    ASSUME TypeInv, [Next]_vars, NEW o \in Offers
    PROVE  \/ mails'[o] = mails[o]
           \/ mails'[o] = 0
           \/ /\ mails'[o] = mails[o] + 1
              /\ \E s \in Runs : Write(s) /\ run[s].at[1] # "notion" /\ run[s].at[2] = o
<1>0. mails \in [Offers -> Nat]
  BY DEF TypeInv, TypeOK
<1>1. ASSUME NEW s \in Runs, Write(s)
      PROVE  mails'[o] = mails[o] \/ /\ mails'[o] = mails[o] + 1
                                     /\ run[s].at[1] # "notion" /\ run[s].at[2] = o
  BY <1>0, <1>1 DEF Write, Deliver, world
<1>2. ASSUME NEW k \in Tasks, Purge(k) PROVE mails'[o] = mails[o] \/ mails'[o] = 0
  BY <1>0, <1>2 DEF Purge
<1>3. CASE UNCHANGED mails
  BY <1>3
<1> QED
  BY <1>1, <1>2, <1>3, StepFrames

LEMMA FaultsGrow ==
    ASSUME TypeInv, [Next]_vars
    PROVE  faults \in Nat /\ faults' \in Nat /\ faults <= faults'
<1>0. faults \in Nat
  BY LegacyTasksAssumption DEF TypeInv, TypeOK
<1>1. CASE MayFail \/ MayEdit \/ UNCHANGED faults
  BY <1>0, <1>1 DEF MayFail, MayEdit
<1> QED
  BY <1>1, StepFrames

(* A task is sent because it was, or by the outcome of the run that owns it. *)
LEMMA SentByOutcome ==
    ASSUME HoldInv, [Next]_vars, NEW k \in Tasks, task'[k].status = "sent"
    PROVE  /\ task'[k].payload = task[k].payload
           /\ \/ task[k].status = "sent"
              \/ \E r \in Runs : Finalise(r) /\ run[r].at = k /\ Owns(r) /\ ~run[r].erred
<1> DEFINE Goal == /\ task'[k].payload = task[k].payload
                   /\ \/ task[k].status = "sent"
                      \/ \E r \in Runs : Finalise(r) /\ run[r].at = k /\ Owns(r) /\ ~run[r].erred
<1>0. task \in [Tasks -> Task] /\ task[k] \in Task /\ run \in [Runs -> Run]
  BY DEF HoldInv, TypeInv, TypeOK
<1>1. CASE task'[k] = task[k]
  BY <1>1
<1>2. ASSUME NEW j \in Tasks, NEW row, SetTask(j, row),
             row.status # "sent" \/ (row.status = task[j].status /\ row.payload = task[j].payload)
      PROVE  Goal
  BY <1>0, <1>2 DEF SetTask
<1>3. ASSUME NEW s \in Runs, RunStep(s) \/ Fail(s) \/ Defer(s) \/ Crash(s) PROVE Goal
  <2>1. CASE Reserve(s) \/ Fetch(s) \/ Discard(s) \/ Select(s) \/ Write(s) \/ Fail(s)
             \/ Defer(s) \/ Crash(s)
    BY <1>1, <2>1 DEF Reserve, Fetch, Discard, Select, Write, Fail, Defer, Crash
  <2>2. CASE Apply(s)
    <3>1. task'[k] = task[k]
          \/ (k[2] \in DOMAIN run[s].raw /\ task'[k] = Enqueue(task[k], run[s].raw[k[2]], k[1]))
      BY <2>2 DEF Apply
    <3>2. run[s].raw \in Listings
      BY <1>0 DEF Run
    <3>3. CASE k[2] \in DOMAIN run[s].raw /\ task'[k] = Enqueue(task[k], run[s].raw[k[2]], k[1])
      BY <1>0, <1>1, <3>2, <3>3, ListingIsTyped, EnqueueKeeps
    <3> QED
      BY <1>1, <3>1, <3>3
  <2>3. CASE Finalise(s)
    <3>1. CASE UNCHANGED task
      BY <1>1, <3>1
    <3>2. CASE Owns(s) /\ \E malformed \in BOOLEAN :
                 SetTask(run[s].at, Outcome(task[run[s].at], run[s].erred, malformed))
      <4>1. run[s].at \in Tasks /\ run[s].erred \in BOOLEAN
        BY <1>0, <2>3 DEF Finalise, HoldInv, HasTask, Run
      <4>2. PICK malformed \in BOOLEAN :
              SetTask(run[s].at, Outcome(task[run[s].at], run[s].erred, malformed))
        BY <3>2
      <4>3. task[run[s].at] \in Task /\ task[run[s].at].attempts > 0
        BY <3>2, <4>1 DEF Owns, HoldInv, TypeInv, TypeOK, Counted
      <4>4. CASE run[s].at = k
        <5>1. task'[k] = Outcome(task[k], run[s].erred, malformed)
          BY <1>0, <4>2, <4>4 DEF SetTask
        <5>2. task'[k].payload = task[k].payload /\ (task'[k].status = "sent" <=> ~run[s].erred)
          BY <4>1, <4>3, <4>4, <5>1, OutcomeIsTyped
        <5> QED
          BY <2>3, <3>2, <4>4, <5>2
      <4>5. CASE run[s].at # k
        BY <1>0, <1>1, <4>2, <4>5 DEF SetTask
      <4> QED
        BY <4>4, <4>5
    <3> QED
      BY <2>3, <3>1, <3>2 DEF Finalise
  <2>4. ASSUME NEW j \in Tasks, Skip(s, j) PROVE Goal
    BY <1>1, <2>4 DEF Skip
  <2>5. ASSUME NEW j \in Tasks, GiveUp(s, j) \/ Cancel(s, j) PROVE Goal
    <3>1. \A outcome : [task[j] EXCEPT !.status = outcome].status = outcome
      BY <1>0 DEF Task
    <3> QED
      BY <1>2, <2>5, <3>1 DEF GiveUp, Cancel
  <2>6. ASSUME NEW j \in Tasks, Claim(s, j) PROVE Goal
    <3>1. [task[j] EXCEPT !.status = "processing", !.next = s, !.attempts = @ + 1].status
            = "processing"
      BY <1>0 DEF Task
    <3> QED
      BY <1>2, <2>6, <3>1 DEF Claim
  <2> QED
    BY <1>3, <2>1, <2>2, <2>3, <2>4, <2>5, <2>6 DEF RunStep
<1>4. ASSUME NEW j \in Tasks, LeaseLapses(j) \/ RetryDue(j) PROVE Goal
  <2>1. [task[j] EXCEPT !.next = Now].status = task[j].status
        /\ [task[j] EXCEPT !.next = Now].payload = task[j].payload
    BY <1>0 DEF Task
  <2> QED
    BY <1>2, <1>4, <2>1 DEF LeaseLapses, RetryDue
<1>5. ASSUME NEW j \in Tasks, AdminRetry(j) \/ Purge(j) PROVE Goal
  <2>1. [task[j] EXCEPT !.status = "pending", !.attempts = 0, !.next = Now].status = "pending"
        /\ [Absent EXCEPT !.status = "purged"].status = "purged"
    BY <1>0 DEF Task, Absent
  <2> QED
    BY <1>2, <1>5, <2>1 DEF AdminRetry, Purge
<1>6. ASSUME NEW o \in Offers, Remediate(o) PROVE Goal
  <2>1. <<"notion", o>> \in Tasks
    BY DEF Tasks
  <2>2. [task[<<"notion", o>>] EXCEPT !.status = "cancelled", !.next = Now].status = "cancelled"
    BY <1>0, <2>1 DEF Task
  <2> QED
    BY <1>2, <1>6, <2>1, <2>2 DEF Remediate
<1>7. CASE \/ SnapshotLapses \/ Migrate
           \/ \E new \in Listings : Publish(new)
           \/ \E on \in Settings : Switch(on)
  BY <1>1, <1>7 DEF SnapshotLapses, Migrate, Publish, Switch
<1>8. CASE UNCHANGED vars
  BY <1>1, <1>8 DEF vars
<1> QED
  BY <1>3, <1>4, <1>5, <1>6, <1>7, <1>8 DEF Next

----------------------------------------------------------------------------
(* Pages. *)

LEMMA NotionTask ==
    ASSUME NEW k \in Tasks
    PROVE  k = <<k[1], k[2]>> /\ k[1] \in {"email", "notion"} /\ k[2] \in Offers
BY DEF Tasks

LEMMA PageStep ==
    ASSUME PageInv, HoldInv', [Next]_vars
    PROVE  PageInv'
<1>0. HoldInv /\ TypeInv /\ HasTask /\ Held /\ Written /\ PageIsCurrent
  BY DEF PageInv, HoldInv
<1>1. ASSUME NEW s \in Runs, Write(s), run[s].at[1] = "notion", run[s].at[2] \notin unleased,
             run[s].at[2] \in Offers
      PROVE  /\ run[s].at = <<"notion", run[s].at[2]>>
             /\ task[run[s].at].next = s
             /\ task[run[s].at].status \in {"pending", "processing"}
  <2>1. run[s].at \in Tasks
    BY <1>0, <1>1 DEF Write, HasTask, TypeInv, TypeOK, Run
  <2>2. run[s].at = <<"notion", run[s].at[2]>>
    BY <1>1, <2>1, NotionTask
  <2>3. ~Dropped(run[s].at)
    BY <1>1 DEF Dropped
  <2> QED
    BY <1>0, <2>1, <2>2, <2>3 DEF Held
<1>2. ASSUME NEW r \in Runs, NEW k \in Tasks, run'[r].at = k, k[1] = "notion",
             k[2] \notin unleased', run'[r].pc = "answered", ~run'[r].erred
      PROVE  page'[k[2]] = run'[r].payload
  <2>0. k = <<"notion", k[2]>> /\ k[2] \in Offers /\ k[2] \notin unleased
    BY <1>2, NotionTask, DroppedStays
  <2>1. CASE Write(r)
    <3>1. run[r].at = k /\ run'[r].payload = run[r].payload
      <4>1. PICK erred \in BOOLEAN : SetRun(r, [run[r] EXCEPT !.pc = "answered", !.erred = erred])
        BY <2>1 DEF Write
      <4> QED
        BY <1>0, <1>2, <4>1 DEF SetRun, TypeInv, TypeOK, Run
    <3>2. PICK answer \in {"ok", "refused", "lost"} :
            /\ IF answer = "refused" THEN UNCHANGED world ELSE Deliver(r)
            /\ SetRun(r, [run[r] EXCEPT !.pc = "answered", !.erred = answer # "ok"])
      BY <2>1 DEF Write
    <3>3. answer = "ok"
      BY <1>0, <1>2, <3>2 DEF SetRun, TypeInv, TypeOK, Run
    <3>4. page'[k[2]] = run[r].payload
      BY <1>0, <1>2, <2>0, <3>1, <3>2, <3>3 DEF Deliver, TypeInv, TypeOK
    <3> QED
      BY <3>1, <3>4
  <2>2. CASE run'[r] = run[r]
    <3>1. page[k[2]] = run[r].payload
      BY <1>0, <1>2, <2>0, <2>2 DEF Written
    <3>2. page'[k[2]] = page[k[2]]
      <4> SUFFICES ASSUME page'[k[2]] # page[k[2]] PROVE FALSE
        OBVIOUS
      <4>1. PICK s \in Runs : Write(s) /\ run[s].at[1] = "notion" /\ run[s].at[2] = k[2]
        BY <1>0, <2>0, PageByWrite
      <4>2. run[s].at = k /\ task[k].next = s
        BY <1>1, <2>0, <4>1
      <4>3. task[k].next = r
        BY <1>0, <1>2, <2>0, <2>2 DEF Held, Dropped
      <4>4. run[r].pc = "writing"
        BY <4>1, <4>2, <4>3 DEF Write
      <4> QED
        BY <1>2, <2>2, <4>4
    <3> QED
      BY <2>2, <3>1, <3>2
  <2> QED
    BY <1>0, <1>2, <2>1, <2>2, AnsweredByWrite
<1>3. ASSUME NEW o \in Offers \ unleased', task'[<<"notion", o>>].status = "sent"
      PROVE  page'[o] = task'[<<"notion", o>>].payload
  <2> DEFINE k == <<"notion", o>>
  <2>0. k \in Tasks /\ o \notin unleased
    BY DroppedStays DEF Tasks
  <2>1. task'[k].payload = task[k].payload
    BY <1>0, <1>3, <2>0, SentByOutcome
  <2>2. CASE task[k].status = "sent"
    <3>1. page[o] = task[k].payload
      BY <1>0, <2>0, <2>2 DEF PageIsCurrent
    <3>2. page'[o] = page[o]
      BY <1>0, <1>1, <2>0, <2>2, PageByWrite
    <3> QED
      BY <2>1, <3>1, <3>2
  <2>3. CASE \E r \in Runs : Finalise(r) /\ run[r].at = k /\ Owns(r) /\ ~run[r].erred
    <3>1. PICK r \in Runs : Finalise(r) /\ run[r].at = k /\ Owns(r) /\ ~run[r].erred
      BY <2>3
    <3>2. page[o] = run[r].payload
      BY <1>0, <2>0, <3>1 DEF Written, Finalise
    <3>3. page'[o] = page[o]
      BY <3>1 DEF Finalise, world
    <3> QED
      BY <2>1, <3>1, <3>2, <3>3 DEF Owns
  <2> QED
    BY <1>0, <1>3, <2>0, <2>2, <2>3, SentByOutcome
<1> QED
  BY <1>2, <1>3 DEF PageInv, Written, PageIsCurrent

(* "Preserve an outstanding lease/backoff when replacing the payload": a page whose
   task is recorded as sent shows that task's payload (legacy.process_tasks). *)
THEOREM PagesAreCurrent == Spec => []PageIsCurrent
<1>1. Init => PageInv
  <2> SUFFICES ASSUME Init PROVE Written /\ PageIsCurrent
    BY InitHolds DEF PageInv
  <2>1. \A r \in Runs : run[r].pc = "idle"
    BY DEF Init, Idle
  <2>2. \A o \in Offers : task[<<"notion", o>>].status = "absent"
    BY DEF Init, Absent, Tasks
  <2> QED
    BY <2>1, <2>2 DEF Written, PageIsCurrent
<1>2. PageInv /\ [Next]_vars => PageInv'
  BY HoldStep, PageStep DEF PageInv
<1>3. PageInv => PageIsCurrent
  BY DEF PageInv
<1> QED
  BY <1>1, <1>2, <1>3, PTL DEF Spec

----------------------------------------------------------------------------
(* Mail. *)

(* Sent mail stays sent until its row is purged. *)
LEMMA SentStays ==
    ASSUME TypeInv, HasTask, [Next]_vars, NEW k \in Tasks, k[1] = "email", task[k].status = "sent",
           ~Purge(k)
    PROVE  task'[k].status = "sent"
<1>0. task \in [Tasks -> Task] /\ task[k] \in Task /\ run \in [Runs -> Run]
  BY DEF TypeInv, TypeOK
<1>1. CASE task'[k] = task[k]
  BY <1>1
<1>2. ASSUME NEW j \in Tasks, NEW row, SetTask(j, row), j # k \/ row.status = task[k].status
      PROVE  task'[k].status = "sent"
  BY <1>0, <1>2 DEF SetTask
<1>3. ASSUME NEW s \in Runs, RunStep(s) \/ Fail(s) \/ Defer(s) \/ Crash(s)
      PROVE  task'[k].status = "sent"
  <2>1. CASE Reserve(s) \/ Fetch(s) \/ Discard(s) \/ Select(s) \/ Write(s) \/ Fail(s)
             \/ Defer(s) \/ Crash(s)
    BY <1>1, <2>1 DEF Reserve, Fetch, Discard, Select, Write, Fail, Defer, Crash
  <2>2. CASE Apply(s)
    <3>1. task'[k] = task[k]
          \/ (k[2] \in DOMAIN run[s].raw /\ task'[k] = Enqueue(task[k], run[s].raw[k[2]], k[1]))
      BY <2>2 DEF Apply
    <3>2. run[s].raw \in Listings
      BY <1>0 DEF Run
    <3>3. CASE k[2] \in DOMAIN run[s].raw /\ task'[k] = Enqueue(task[k], run[s].raw[k[2]], k[1])
      <4>1. run[s].raw[k[2]] \in Versions
        BY <3>2, <3>3, ListingIsTyped
      <4>2. task'[k] = task[k]
        BY <1>0, <3>3, <4>1, EnqueueKeeps
      <4> QED
        BY <4>2
    <3> QED
      BY <1>1, <3>1, <3>3
  <2>3. CASE Finalise(s)
    <3>1. CASE UNCHANGED task
      BY <1>1, <3>1
    <3>2. CASE Owns(s) /\ \E malformed \in BOOLEAN :
                 SetTask(run[s].at, Outcome(task[run[s].at], run[s].erred, malformed))
      <4>1. run[s].at \in Tasks /\ run[s].at # k
        BY <1>0, <2>3, <3>2 DEF Finalise, HasTask, Run, Owns
      <4> QED
        BY <1>2, <3>2, <4>1
    <3> QED
      BY <2>3, <3>1, <3>2 DEF Finalise
  <2>4. ASSUME NEW j \in Tasks, Skip(s, j) PROVE task'[k].status = "sent"
    BY <1>1, <2>4 DEF Skip
  <2>5. ASSUME NEW j \in Tasks, GiveUp(s, j) \/ Cancel(s, j) \/ Claim(s, j)
        PROVE  task'[k].status = "sent"
    <3>1. j # k
      BY <2>5 DEF GiveUp, Cancel, Claim, Available
    <3> QED
      BY <1>2, <2>5, <3>1 DEF GiveUp, Cancel, Claim
  <2> QED
    BY <1>3, <2>1, <2>2, <2>3, <2>4, <2>5 DEF RunStep
<1>4. ASSUME NEW j \in Tasks, LeaseLapses(j) \/ RetryDue(j) PROVE task'[k].status = "sent"
  <2>1. [task[j] EXCEPT !.next = Now].status = task[j].status
    BY <1>0 DEF Task
  <2> QED
    BY <1>2, <1>4, <2>1 DEF LeaseLapses, RetryDue
<1>5. ASSUME NEW j \in Tasks, AdminRetry(j) \/ Purge(j) PROVE task'[k].status = "sent"
  <2>1. j # k
    BY <1>5 DEF AdminRetry
  <2> QED
    BY <1>2, <1>5, <2>1 DEF AdminRetry, Purge
<1>6. ASSUME NEW o \in Offers, Remediate(o) PROVE task'[k].status = "sent"
  <2>1. <<"notion", o>> \in Tasks /\ <<"notion", o>> # k
    BY DEF Tasks
  <2> QED
    BY <1>2, <1>6, <2>1 DEF Remediate
<1>7. CASE \/ SnapshotLapses \/ Migrate
           \/ \E new \in Listings : Publish(new)
           \/ \E on \in Settings : Switch(on)
  BY <1>1, <1>7 DEF SnapshotLapses, Migrate, Publish, Switch
<1>8. CASE UNCHANGED vars
  BY <1>1, <1>8 DEF vars
<1> QED
  BY <1>3, <1>4, <1>5, <1>6, <1>7, <1>8 DEF Next

(* The message a run has accepted for is recorded, or costs a fault. *)
LEMMA AcceptedIsRecorded ==
    ASSUME HoldInv, [Next]_vars, NEW o \in Offers, Accepted(o), ~Purge(<<"email", o>>)
    PROVE  Accepted(o)' \/ faults' = faults + 1
<1> DEFINE k == <<"email", o>>
<1>0. HoldInv /\ TypeInv /\ HasTask /\ Held /\ MailHeld /\ k \in Tasks /\ ~Dropped(k)
      /\ task \in [Tasks -> Task]
  BY DEF HoldInv, Tasks, Dropped, TypeInv, TypeOK
<1>1. CASE task[k].status = "sent"
  BY <1>0, <1>1, SentStays DEF Accepted
<1>2. ASSUME NEW r \in Runs, run[r].at = k, run[r].pc = "answered", ~run[r].erred
      PROVE  Accepted(o)' \/ faults' = faults + 1
  <2>1. CASE run'[r] = run[r]
    BY <1>2, <2>1 DEF Accepted
  <2>2. CASE Defer(r) \/ Crash(r)
    BY <2>2 DEF Defer, Crash, MayFail
  <2>3. CASE Finalise(r)
    <3>1. Owns(r)
      BY <1>0, <1>2 DEF Owns, Held, MailHeld
    <3>2. PICK malformed \in BOOLEAN : SetTask(k, Outcome(task[k], run[r].erred, malformed))
      BY <1>2, <2>3, <3>1 DEF Finalise
    <3>3. task[k] \in Task /\ task[k].attempts > 0 /\ run[r].erred \in BOOLEAN
      BY <1>0, <1>2, <3>1 DEF Owns, Counted, TypeInv, TypeOK, Run
    <3>4. task'[k].status = "sent"
      BY <1>0, <1>2, <3>2, <3>3, OutcomeIsTyped DEF SetTask
    <3> QED
      BY <3>4 DEF Accepted
  <2> QED
    BY <1>0, <1>2, <2>1, <2>2, <2>3, AnsweredEnds
<1> QED
  BY <1>1, <1>2 DEF Accepted

(* A run that still writes mail is the first to have it accepted. *)
LEMMA WritesUnaccepted ==
    ASSUME HoldInv, NEW o \in Offers, NEW s \in Runs, run[s].at = <<"email", o>>,
           run[s].pc = "writing"
    PROVE  ~Accepted(o)
<1> DEFINE k == <<"email", o>>
<1>1. k \in Tasks /\ ~Dropped(k)
  BY DEF Tasks, Dropped
<1>2. task[k].status = "processing" /\ task[k].next = s
  BY <1>1 DEF HoldInv, Held, MailHeld
<1>3. ASSUME NEW r \in Runs, run[r].at = k, run[r].pc = "answered" PROVE FALSE
  BY <1>1, <1>2, <1>3 DEF HoldInv, Held
<1> QED
  BY <1>2, <1>3 DEF Accepted

LEMMA MailStep ==
    ASSUME MailInv, HoldInv', [Next]_vars
    PROVE  MailInv'
<1>0. HoldInv /\ TypeInv /\ HasTask /\ Mailed
  BY DEF MailInv, HoldInv
<1>1. faults \in Nat /\ faults' \in Nat /\ faults <= faults'
  BY <1>0, FaultsGrow
<1>2. ASSUME NEW o \in Offers
      PROVE  mails'[o] <= faults' \/ (mails'[o] <= 1 + faults' /\ Accepted(o)')
  <2>0. mails[o] \in Nat /\ (mails[o] <= faults \/ (mails[o] <= 1 + faults /\ Accepted(o)))
    BY <1>0 DEF Mailed, TypeInv, TypeOK
  <2>1. CASE mails'[o] = 0
    <3>1. 0 <= faults'
      BY <1>1
    <3> QED
      BY <2>1, <3>1
  <2>2. CASE mails'[o] = mails[o]
    <3>1. CASE Purge(<<"email", o>>)
      <4>1. mails'[o] = 0
        BY <1>0, <3>1 DEF Purge, TypeInv, TypeOK
      <4> QED
        BY <2>1, <4>1
    <3>2. CASE ~Purge(<<"email", o>>)
      <4>1. CASE mails[o] <= faults
        BY <1>1, <2>0, <2>2, <4>1
      <4>2. CASE mails[o] <= 1 + faults /\ Accepted(o)
        <5>1. Accepted(o)' \/ faults' = faults + 1
          BY <1>0, <3>2, <4>2, AcceptedIsRecorded
        <5> QED
          BY <1>1, <2>0, <2>2, <4>2, <5>1
      <4> QED
        BY <2>0, <4>1, <4>2
    <3> QED
      BY <3>1, <3>2
  <2>3. ASSUME mails'[o] = mails[o] + 1,
               NEW s \in Runs, Write(s), run[s].at[1] # "notion", run[s].at[2] = o
        PROVE  mails'[o] <= faults' \/ (mails'[o] <= 1 + faults' /\ Accepted(o)')
    <3>1. run[s].at \in Tasks
      BY <1>0, <2>3 DEF Write, HasTask, TypeInv, TypeOK, Run
    <3>2. run[s].at = <<"email", o>>
      BY <2>3, <3>1, NotionTask
    <3>3. mails[o] <= faults
      BY <1>0, <2>0, <2>3, <3>2, WritesUnaccepted DEF Write
    <3>4. PICK answer \in {"ok", "refused", "lost"} :
            /\ IF answer = "ok" THEN UNCHANGED bounds ELSE MayFail
            /\ SetRun(s, [run[s] EXCEPT !.pc = "answered", !.erred = answer # "ok"])
      BY <2>3 DEF Write
    <3>5. CASE answer = "ok"
      <4>1. run'[s].at = <<"email", o>> /\ run'[s].pc = "answered" /\ ~run'[s].erred
        BY <1>0, <3>2, <3>4, <3>5 DEF SetRun, TypeInv, TypeOK, Run
      <4>2. Accepted(o)'
        BY <4>1 DEF Accepted
      <4> QED
        BY <1>1, <2>0, <2>3, <3>3, <4>2
    <3>6. CASE answer # "ok"
      BY <1>1, <2>0, <2>3, <3>3, <3>4, <3>6 DEF MayFail
    <3> QED
      BY <3>5, <3>6
  <2> QED
    BY <1>0, <2>1, <2>2, <2>3, MailsByWrite
<1> QED
  BY <1>2 DEF MailInv, Mailed

(* "Ordinary runs deduplicate existing deliveries": an offer is mailed at most once
   more than answers were lost, outcomes were not recorded and runs died. *)
THEOREM MailedOnce == Spec => []EmailedOnce
<1>1. Init => MailInv
  <2> SUFFICES ASSUME Init PROVE Mailed
    BY InitHolds DEF MailInv
  <2>1. faults = 0 /\ \A o \in Offers : mails[o] = 0
    BY DEF Init
  <2>2. 0 <= 0
    OBVIOUS
  <2> QED
    BY <2>1, <2>2 DEF Mailed
<1>2. MailInv /\ [Next]_vars => MailInv'
  BY HoldStep, MailStep DEF MailInv
<1>3. MailInv => EmailedOnce
  <2> SUFFICES ASSUME MailInv, NEW o \in Offers PROVE mails[o] <= 1 + faults
    BY DEF EmailedOnce
  <2>1. mails[o] \in Nat /\ faults \in Nat
    BY LegacyTasksAssumption DEF MailInv, HoldInv, TypeInv, TypeOK
  <2>2. mails[o] <= faults \/ mails[o] <= 1 + faults
    BY DEF MailInv, Mailed
  <2> QED
    BY <2>1, <2>2
<1> QED
  BY <1>1, <1>2, <1>3, PTL DEF Spec
----------------------------------------------------------------------------
(* The tasks are an outbox. *)

(* A step that neither claims nor finishes a task may at most withdraw it. *)
QuietTask(k) ==
    /\ task'[k].status = "sent" => task[k].status = "sent"
    /\ task'[k].status = "processing" =>
         task[k].status = "processing" /\ task'[k].next \in {task[k].next, Now, Later}

LEMMA QuietSteps ==
    ASSUME TypeInv, [Next]_vars, \A r \in Runs : ~Finalise(r),
           \A r \in Runs, j \in Tasks : ~Claim(r, j),
           NEW k \in Tasks
    PROVE  QuietTask(k)
<1>0. task \in [Tasks -> Task] /\ task[k] \in Task /\ run \in [Runs -> Run]
  BY DEF TypeInv, TypeOK
<1>1. CASE task'[k] = task[k]
  BY <1>1 DEF QuietTask
<1>2. ASSUME NEW j \in Tasks, NEW row, SetTask(j, row),
             /\ row.status = "sent" => task[j].status = "sent"
             /\ row.status = "processing" =>
                  task[j].status = "processing" /\ row.next \in {task[j].next, Now, Later}
      PROVE  QuietTask(k)
  BY <1>0, <1>2 DEF SetTask, QuietTask
<1>3. ASSUME NEW r \in Runs, RunStep(r) \/ Fail(r) \/ Defer(r) \/ Crash(r) PROVE QuietTask(k)
  <2>1. CASE \/ Reserve(r) \/ Fetch(r) \/ Discard(r) \/ Select(r) \/ Write(r)
             \/ Fail(r) \/ Defer(r) \/ Crash(r)
    BY <1>1, <2>1 DEF Reserve, Fetch, Discard, Select, Write, Fail, Defer, Crash
  <2>2. CASE Apply(r)
    <3>1. task'[k] = task[k] \/ task'[k] = Enqueue(task[k], run[r].raw[k[2]], k[1])
      BY <2>2 DEF Apply
    <3>2. CASE task'[k] = Enqueue(task[k], run[r].raw[k[2]], k[1])
      BY <1>0, <1>1, <3>2 DEF Enqueue, Task, QuietTask
    <3> QED
      BY <1>1, <3>1, <3>2
  <2>3. ASSUME NEW j \in Tasks, Skip(r, j) PROVE QuietTask(k)
    BY <1>1, <2>3 DEF Skip
  <2>4. ASSUME NEW j \in Tasks, GiveUp(r, j) \/ Cancel(r, j) PROVE QuietTask(k)
    <3>1. task[j] \in Task
      BY <1>0
    <3> QED
      BY <1>2, <2>4, <3>1 DEF GiveUp, Cancel, Task
  <2> QED
    BY <1>3, <2>1, <2>2, <2>3, <2>4 DEF RunStep
<1>4. ASSUME NEW j \in Tasks, LeaseLapses(j) \/ RetryDue(j) \/ AdminRetry(j) \/ Purge(j)
      PROVE  QuietTask(k)
  <2>1. task[j] \in Task
    BY <1>0
  <2>2. CASE LeaseLapses(j) \/ RetryDue(j)
    BY <1>2, <2>1, <2>2 DEF LeaseLapses, RetryDue, Task
  <2>3. CASE AdminRetry(j)
    BY <1>2, <2>1, <2>3 DEF AdminRetry, Task
  <2>4. CASE Purge(j)
    BY <1>2, <2>4 DEF Purge, Absent
  <2> QED
    BY <1>4, <2>2, <2>3, <2>4
<1>5. ASSUME NEW o \in Offers, Remediate(o) PROVE QuietTask(k)
  <2>1. <<"notion", o>> \in Tasks /\ task[<<"notion", o>>] \in Task
    BY <1>0 DEF Tasks
  <2> QED
    BY <1>2, <1>5, <2>1 DEF Remediate, Task
<1>6. CASE \/ SnapshotLapses \/ Migrate
           \/ \E new \in Listings : Publish(new)
           \/ \E on \in Settings : Switch(on)
  BY <1>1, <1>6 DEF SnapshotLapses, Migrate, Publish, Switch
<1>7. CASE UNCHANGED vars
  BY <1>1, <1>7 DEF vars
<1> QED
  BY <1>3, <1>4, <1>5, <1>6, <1>7 DEF Next

(* A run with nothing in hand stays so but for its claims. *)
LEMMA IdleHands ==
    ASSUME HoldInv, [Next]_vars, NEW r \in Runs, ~\E k \in Tasks : Claim(r, k),
           ~(Write(r) \/ Finalise(r) \/ Defer(r) \/ Crash(r))
    PROVE  run'[r] = run[r] \/ (/\ run[r].at = Nothing /\ run[r].pc # "answered"
                                /\ run'[r].at = Nothing /\ run'[r].pc # "answered")
<1>0. TypeInv /\ HasTask /\ HasTask'
  BY HoldStep DEF HoldInv
<1>1. CASE RunStep(r) \/ Fail(r)
  <2>1. run[r].pc \notin {"writing", "answered"}
    BY <1>1 DEF RunStep, Fail, Reserve, Fetch, Apply, Discard, Select, Skip, GiveUp, Cancel, Leave
  <2>2. run[r].at = Nothing
    BY <1>0, <2>1 DEF HasTask
  <2>3. run'[r].at = Nothing
    BY <1>0, <2>2, AtStays
  <2>4. run'[r].pc # "answered"
    BY <1>0, <2>3 DEF HasTask
  <2> QED
    BY <2>1, <2>2, <2>3, <2>4
<1> QED
  BY <1>0, <1>1, RunIsOwn

LEMMA WithdrawsAtMost ==
    ASSUME TypeInv, InHand' = InHand, Answered' = Answered, \A k \in Tasks : QuietTask(k)
    PROVE  Queue!Next
<1> DEFINE S == {k \in Tasks : Leaseholder'[k] # Leaseholder[k] \/ (k \in Sent /\ k \notin Sent')}
<1>1. ASSUME NEW k \in Tasks
      PROVE  /\ Leaseholder'[k] = IF k \in S THEN Nothing ELSE Leaseholder[k]
             /\ k \in Sent' <=> k \in Sent /\ k \notin S
  <2>1. QuietTask(k) /\ Now \notin Runs /\ Later \notin Runs
    BY LegacyTasksAssumption
  <2>2. Leaseholder'[k] \in {Leaseholder[k], Nothing}
    BY <2>1 DEF QuietTask, Leaseholder
  <2>3. /\ k \in Sent => Leaseholder[k] = Nothing
        /\ k \in Sent' => Leaseholder'[k] = Nothing /\ k \in Sent
        /\ k \in Sent /\ k \notin Sent' => Leaseholder'[k] = Nothing
    <3>1. k \in Sent => task[k].status = "sent" /\ task'[k].status # "processing"
      BY <2>1 DEF Sent, QuietTask
    <3>2. k \in Sent' => task'[k].status = "sent" /\ k \in Sent
      BY <2>1 DEF Sent, QuietTask
    <3> QED
      BY <3>1, <3>2 DEF Leaseholder
  <2>4. k \in S <=> Leaseholder'[k] # Leaseholder[k] \/ (k \in Sent /\ k \notin Sent')
    OBVIOUS
  <2> HIDE DEF S
  <2> QED
    BY <2>2, <2>3, <2>4
<1> HIDE DEF S
<1>2. Leaseholder' = [k \in Tasks |-> IF k \in S THEN Nothing ELSE Leaseholder[k]]
  <2>1. Leaseholder' = [k \in Tasks |-> Leaseholder'[k]]
    BY DEF Leaseholder
  <2> QED
    BY <1>1, <2>1
<1>3. Sent' = Sent \ S
  BY <1>1 DEF Sent
<1>4. S \in SUBSET Tasks
  BY DEF S
<1>5. Queue!Withdraw(S)
  BY <1>2, <1>3 DEF Queue!Withdraw
<1> QED
  BY <1>4, <1>5 DEF Queue!Next

LEMMA ClaimRefines ==
    ASSUME HoldInv, NEW r \in Runs, NEW k \in Tasks, Claim(r, k)
    PROVE  Queue!Next
<1>0. task \in [Tasks -> Task] /\ task[k] \in Task /\ run \in [Runs -> Run] /\ run[r] \in Run
      /\ HasTask
  BY DEF HoldInv, TypeInv, TypeOK
<1>1. Now \notin Runs /\ k # Nothing
  BY LegacyTasksAssumption DEF Tasks
<1>2. /\ run[r].pc = "working" /\ task[k].next = Now /\ task[k].status \in {"pending", "processing"}
      /\ \A j \in Tasks \ {k} : task'[j] = task[j]
      /\ task'[k].status = "processing" /\ task'[k].next = r
      /\ \A s \in Runs \ {r} : run'[s] = run[s]
      /\ run'[r].pc = "writing" /\ run'[r].at = k
  BY <1>0 DEF Claim, Available, SetTask, SetRun, Task, Run
<1>3. run[r].at = Nothing
  BY <1>0, <1>2 DEF HasTask
<1>4. Leaseholder[k] = Nothing /\ k \notin Sent /\ InHand[r] = {}
  BY <1>1, <1>2, <1>3 DEF Leaseholder, Sent, InHand
<1>5. Leaseholder' = [j \in Tasks |-> IF j \in {k} THEN r ELSE Leaseholder[j]]
  BY <1>2 DEF Leaseholder
<1>6. InHand' = [InHand EXCEPT ![r] = {k}]
  <2>1. ASSUME NEW s \in Runs PROVE {run'[s].at} \ {Nothing} = IF s = r THEN {k} ELSE InHand[s]
    BY <1>1, <1>2 DEF InHand
  <2> QED
    BY <2>1 DEF InHand
<1>7. Answered' = Answered /\ Sent' = Sent
  BY <1>2 DEF Answered, Sent
<1>8. Queue!Claim(r, {k})
  BY <1>4, <1>5, <1>6, <1>7 DEF Queue!Claim
<1> QED
  BY <1>8 DEF Queue!Next

LEMMA WriteRefines ==
    ASSUME HoldInv, NEW r \in Runs, Write(r)
    PROVE  [Queue!Next]_(Queue!vars)
<1>0. run \in [Runs -> Run] /\ run[r] \in Run /\ HasTask
  BY DEF HoldInv, TypeInv, TypeOK
<1>1. PICK erred \in BOOLEAN : SetRun(r, [run[r] EXCEPT !.pc = "answered", !.erred = erred])
  BY DEF Write
<1>2. run[r].pc = "writing" /\ UNCHANGED task
  BY DEF Write
<1>3. /\ \A s \in Runs \ {r} : run'[s] = run[s]
      /\ run'[r].at = run[r].at /\ run'[r].pc = "answered" /\ run'[r].erred = erred
  BY <1>0, <1>1 DEF SetRun, Run
<1>4. run[r].at # Nothing
  BY <1>0, <1>2 DEF HasTask
<1>5. UNCHANGED <<Leaseholder, InHand, Sent>> /\ InHand[r] # {} /\ r \notin Answered
  BY <1>2, <1>3, <1>4 DEF Leaseholder, InHand, Sent, Answered
<1>6. CASE erred
  <2>1. Answered' = Answered
    BY <1>2, <1>3, <1>6 DEF Answered
  <2> QED
    BY <1>5, <2>1 DEF Queue!vars
<1>7. CASE ~erred
  <2>1. Answered' = Answered \cup {r}
    BY <1>3, <1>7 DEF Answered
  <2>2. Queue!Answer(r)
    BY <1>5, <2>1 DEF Queue!Answer
  <2> QED
    BY <2>2 DEF Queue!Next
<1> QED
  BY <1>6, <1>7

(* A run that ends with its task unrecorded finishes nothing. *)
LEMMA LossRefines ==
    ASSUME NEW r \in Runs, UNCHANGED task,
           InHand' = [InHand EXCEPT ![r] = {}], Answered' = Answered \ {r}
    PROVE  Queue!Next
<1>1. Leaseholder' = Leaseholder /\ Sent' = Sent
  BY DEF Leaseholder, Sent
<1>2. Leaseholder = [k \in Tasks |-> IF k \in {} THEN Nothing ELSE Leaseholder[k]]
  BY DEF Leaseholder
<1>3. {} \in SUBSET InHand[r] /\ {} \in SUBSET {} /\ Sent \cup {} = Sent
  OBVIOUS
<1>4. Queue!Finish(r, {}, {})
  BY <1>1, <1>2, <1>3 DEF Queue!Finish
<1> QED
  BY <1>3, <1>4 DEF Queue!Next

LEMMA EndRefines ==
    ASSUME HoldInv, NEW r \in Runs, Finalise(r) \/ Defer(r) \/ Crash(r)
    PROVE  Queue!Next
<1>0. /\ task \in [Tasks -> Task] /\ run \in [Runs -> Run] /\ run[r] \in Run
      /\ HasTask /\ Nothing \notin Tasks
  BY LegacyTasksAssumption DEF HoldInv, TypeInv, TypeOK, Tasks
<1>1. /\ \A s \in Runs \ {r} : run'[s] = run[s]
      /\ run'[r].at = Nothing /\ run'[r].pc # "answered"
  <2>1. ASSUME NEW todo, SetRun(r, WithTasks(r, todo))
        PROVE  /\ \A s \in Runs \ {r} : run'[s] = run[s]
               /\ run'[r].at = Nothing /\ run'[r].pc # "answered"
    BY <1>0, <2>1, WithTasksHasNone DEF SetRun
  <2>2. CASE Crash(r)
    BY <1>0, <2>2 DEF Crash, SetRun, Idle
  <2> QED
    BY <2>1, <2>2 DEF Finalise, Defer
<1>2. InHand' = [InHand EXCEPT ![r] = {}] /\ Answered' = Answered \ {r}
  BY <1>1 DEF InHand, Answered
<1>3. CASE UNCHANGED task
  BY <1>2, <1>3, LossRefines
<1>4. ASSUME NEW malformed \in BOOLEAN, Finalise(r), Owns(r),
             SetTask(run[r].at, Outcome(task[run[r].at], run[r].erred, malformed))
      PROVE  Queue!Next
  <2> DEFINE k == run[r].at
             D == IF run[r].erred THEN {} ELSE {k}
  <2>1. run[r].pc = "answered" /\ k \in Tasks
    BY <1>0, <1>4 DEF Finalise, HasTask, Run
  <2>2. task[k].status = "processing" /\ task[k].next = r /\ task[k] \in Task
    BY <1>0, <1>4, <2>1 DEF Owns
  <2>3. /\ task'[k].status = IF run[r].erred THEN task'[k].status ELSE "sent"
        /\ run[r].erred => task'[k].status \in {"failed", "pending"}
        /\ \A j \in Tasks \ {k} : task'[j] = task[j]
    BY <1>0, <1>4, <2>1, <2>2 DEF SetTask, Outcome, Task
  <2>4. Leaseholder[k] = r /\ k \notin Sent
    BY <2>1, <2>2 DEF Leaseholder, Sent
  <2>5. Leaseholder' = [j \in Tasks |-> IF j \in {k} THEN Nothing ELSE Leaseholder[j]]
    BY <2>1, <2>3 DEF Leaseholder
  <2>6. Sent' = Sent \cup D
    <3>1. CASE run[r].erred
      BY <2>1, <2>3, <2>4, <3>1 DEF Sent
    <3>2. CASE ~run[r].erred
      BY <2>1, <2>3, <3>2 DEF Sent
    <3> QED
      BY <3>1, <3>2
  <2>7. D # {} => r \in Answered
    BY <2>1 DEF Answered
  <2>8. {k} \in SUBSET InHand[r] /\ D \in SUBSET {k} /\ D \subseteq {k} \cap Queue!Held(r)
    BY <1>0, <2>1, <2>4 DEF InHand, Queue!Held
  <2> HIDE DEF k, D
  <2>9. Queue!Finish(r, {k}, D)
    BY <1>2, <2>5, <2>6, <2>7, <2>8 DEF Queue!Finish
  <2> QED
    BY <2>8, <2>9 DEF Queue!Next
<1> QED
  BY <1>3, <1>4 DEF Finalise, Defer, Crash

(* A task is recorded as sent only by the run that holds its lease, after its adapter
   succeeded. *)
THEOREM ImplementsOutbox == Spec => OutboxSpec
<1>1. Init => Queue!Init
  BY DEF Init, Queue!Init, Leaseholder, InHand, Answered, Sent, Absent, Idle
<1>2. HoldInv /\ [Next]_vars => [Queue!Next]_(Queue!vars)
  <2> SUFFICES ASSUME HoldInv, [Next]_vars PROVE [Queue!Next]_(Queue!vars)
    OBVIOUS
  <2>1. CASE \E r \in Runs, k \in Tasks : Claim(r, k)
    BY <2>1, ClaimRefines
  <2>2. CASE \E r \in Runs : Write(r)
    BY <2>2, WriteRefines
  <2>3. CASE \E r \in Runs : Finalise(r) \/ Defer(r) \/ Crash(r)
    BY <2>3, EndRefines
  <2>4. CASE /\ \A r \in Runs : ~(Write(r) \/ Finalise(r) \/ Defer(r) \/ Crash(r))
             /\ \A r \in Runs, k \in Tasks : ~Claim(r, k)
    <3>1. \A k \in Tasks : QuietTask(k)
      BY <2>4, QuietSteps DEF HoldInv
    <3>2. ASSUME NEW r \in Runs
          PROVE  /\ run'[r].at = run[r].at
                 /\ (run'[r].pc = "answered" /\ ~run'[r].erred)
                      <=> (run[r].pc = "answered" /\ ~run[r].erred)
      BY <2>4, IdleHands
    <3>3. InHand' = InHand /\ Answered' = Answered
      BY <3>2 DEF InHand, Answered
    <3> QED
      BY <3>1, <3>3, WithdrawsAtMost DEF HoldInv
  <2> QED
    BY <2>1, <2>2, <2>3, <2>4
<1>3. Init => HoldInv
  BY InitHolds
<1>4. HoldInv /\ [Next]_vars => HoldInv'
  BY HoldStep
<1> QED
  BY <1>1, <1>2, <1>3, <1>4, PTL DEF Spec, OutboxSpec, Queue!Spec
=============================================================================
