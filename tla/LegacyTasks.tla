----------------------------- MODULE LegacyTasks -----------------------------
(****************************************************************************)
(* The historical collectors (legacy.run_collector) and their outbox of     *)
(* mail and Notion tasks (legacy.process_tasks), for one source.  A run     *)
(* reserves the snapshot of the source, fetches it with no transaction      *)
(* open, saves it with the tasks of the new offers in one transaction, and  *)
(* then works through the tasks that are due, its own and older ones.       *)
(*                                                                          *)
(* There is one recipient.  A task is the channel and the offer its key is  *)
(* made of; a payload is a version of the offer.  The shared Notion         *)
(* database shows one version of an offer, found by its URL.  The token of  *)
(* a lease on the snapshot is the run that drew it, and next_attempt_at is  *)
(* the run whose five minutes it ends, an instant of retry, or over.        *)
(****************************************************************************)
EXTENDS Integers

CONSTANTS
    Offers,
    Versions,
    Selected,      \* the versions that have the start term of the collector
    Runs,          \* processes that may run a collector
    Archive,       \* offers of the CSV file that preceded the database
    HasArchive,    \* that file exists
    Settings,      \* what the operators may set the switches to
    Now, Later,    \* next_attempt_at: none or over; an instant of retry
    Nothing,       \* no payload, no page, no task, no run
    MaxAttempts,   \* 5 in the code
    MaxEdits,      \* bound on what trackers, operators and the purge change
    MaxFaults      \* bound on errors, lost answers and crashes

ASSUME LegacyTasksAssumption ==
    /\ Settings \subseteq [email : BOOLEAN, notion : BOOLEAN, recipients : BOOLEAN]
    /\ Archive \subseteq Offers /\ (Archive # {} => HasArchive)
    /\ {Now, Later} \cap Runs = {} /\ Now # Later
    /\ Selected \subseteq Versions /\ Nothing \notin Versions \cup Runs
    /\ Nothing \notin {"email", "notion"} \X Offers
    /\ MaxAttempts \in Nat \ {0} /\ MaxEdits \in Nat /\ MaxFaults \in Nat

VARIABLES
    listing,    \* what the tracker publishes
    switches,   \* LEGACY_EMAIL_ENABLED, LEGACY_NOTION_ENABLED, TO_ADDRS
    migrated,   \* the recipient has a platform account
    snapshot,   \* source_snapshots, the row "legacy/..."
    task,       \* legacy_tasks
    run,
    page,       \* per offer, the version the shared Notion database shows
    mails,      \* per offer, the messages accepted since its task was made
    exempt,     \* tasks that the run which found their offer new did not owe it
    unleased,   \* offers whose task lost its lease to a remediation
    edits,
    faults

outside == <<listing, switches, migrated>>
world == <<page, mails>>
ghosts == <<exempt, unleased>>
bounds == <<edits, faults>>
vars == <<outside, snapshot, task, run, world, ghosts, bounds>>

----------------------------------------------------------------------------
(* Types. *)

Tasks == {"email", "notion"} \X Offers

Listings == UNION {[published -> Versions] : published \in SUBSET Offers}

Switches == [email : BOOLEAN, notion : BOOLEAN, recipients : BOOLEAN]

\* saved: payload is not NULL; dated: updated_at is not.
Snapshot == [saved : BOOLEAN, dated : BOOLEAN, offers : SUBSET Offers,
             token : Runs \cup {Nothing}, leased : BOOLEAN]

\* A task that was sent and purged is absent, but remembered as "purged".
Task == [status   : {"absent", "pending", "processing", "sent", "failed", "cancelled", "purged"},
         payload  : Versions \cup {Nothing},
         attempts : 0..MaxAttempts,
         next     : Runs \cup {Now, Later}]

Run == [pc       : {"idle", "reserved", "fetched", "applied",
                    "working", "writing", "answered"},
        on       : Switches,
        previous : SUBSET Offers,
        baseline : BOOLEAN,            \* missing_baseline
        raw      : Listings,
        todo     : SUBSET Tasks,
        at       : Tasks \cup {Nothing},
        payload  : Versions \cup {Nothing},
        erred    : BOOLEAN]

TypeOK ==
    /\ listing \in Listings /\ switches \in Switches /\ migrated \in BOOLEAN
    /\ snapshot \in Snapshot
    /\ task \in [Tasks -> Task]
    /\ run \in [Runs -> Run]
    /\ page \in [Offers -> Versions \cup {Nothing}] /\ mails \in [Offers -> Nat]
    /\ exempt \subseteq Tasks /\ unleased \subseteq Offers
    /\ edits \in 0..MaxEdits /\ faults \in 0..MaxFaults

AllOn == [email |-> TRUE, notion |-> TRUE, recipients |-> TRUE]
NothingListed == [o \in {} |-> Nothing]
Absent == [status |-> "absent", payload |-> Nothing, attempts |-> 0, next |-> Now]
Idle == [pc |-> "idle", on |-> AllOn, previous |-> {}, baseline |-> FALSE, raw |-> NothingListed,
         todo |-> {}, at |-> Nothing, payload |-> Nothing, erred |-> FALSE]

\* Before the first run, or in service with nothing listed so far, when the tracker
\* publishes its offers.
Init ==
    /\ listing \in [Offers -> Versions] /\ switches \in Settings /\ migrated = FALSE
    /\ \E served \in BOOLEAN :
         snapshot = [saved |-> served, dated |-> served, offers |-> {},
                     token |-> Nothing, leased |-> FALSE]
    /\ task = [k \in Tasks |-> Absent]
    /\ run = [r \in Runs |-> Idle]
    /\ page = [o \in Offers |-> Nothing] /\ mails = [o \in Offers |-> 0]
    /\ exempt = {} /\ unleased = {}
    /\ edits = 0 /\ faults = 0

MayEdit == edits < MaxEdits /\ edits' = edits + 1 /\ UNCHANGED faults
MayFail == faults < MaxFaults /\ faults' = faults + 1 /\ UNCHANGED edits

SetRun(r, row) == run' = [run EXCEPT ![r] = row]
SetTask(k, row) == task' = [task EXCEPT ![k] = row]

----------------------------------------------------------------------------
(* Collection. *)

\* The snapshot a run compares with: the saved one, or that of the CSV file.
Previous == IF snapshot.saved THEN snapshot.offers ELSE Archive

\* A run reads its environment, reserves the source (sources.reserve) and loads the
\* previous snapshot.  A source that is leased is left alone, with its tasks.
Reserve(r) ==
    /\ run[r].pc = "idle" /\ ~snapshot.leased
    /\ snapshot' = [snapshot EXCEPT !.saved = TRUE, !.offers = Previous,
                                    !.token = r, !.leased = TRUE]
    /\ SetRun(r, [Idle EXCEPT !.pc = "reserved", !.on = switches, !.previous = Previous,
                              !.baseline = ~snapshot.dated /\ ~HasArchive])
    /\ UNCHANGED <<outside, task, world, ghosts, bounds>>

Fetch(r) ==
    /\ run[r].pc = "reserved"
    /\ SetRun(r, [run[r] EXCEPT !.pc = "fetched", !.raw = listing])
    /\ UNCHANGED <<outside, snapshot, task, world, ghosts, bounds>>

\* sources.owned.
Owned(r) == snapshot.token = r

\* The lease is over, and nobody is left to present its token, which stays in the row
\* and means nothing any more.
Unleased == [snapshot EXCEPT !.leased = FALSE, !.token = Nothing]

\* Faulty variant: a replaced payload may be sent at once.
EnqueueDueNow(row, v, channel) ==
    IF row.status \in {"absent", "purged"}
      THEN [status |-> "pending", payload |-> v, attempts |-> 0, next |-> Now]
    ELSE IF channel = "notion" /\ row.payload # v
      THEN [row EXCEPT !.payload = v, !.status = "pending", !.attempts = 0, !.next = Now]
    ELSE row

\* enqueue: one task per key, whatever became of it; a page takes a new payload,
\* under the lease or the instant of retry of the old one.
Enqueue(row, v, channel) ==
    IF row.status \in {"absent", "purged"}
      THEN [status |-> "pending", payload |-> v, attempts |-> 0, next |-> Now]
    ELSE IF channel = "notion" /\ row.payload # v
      THEN [row EXCEPT !.payload = v, !.status = "pending", !.attempts = 0]
    ELSE row

\* What a run owes to an offer that is new to it: nothing if its start term is not
\* the one the collector is for (filter_offers_by_start_term).
Owes(r, k) ==
    /\ run[r].raw[k[2]] \in Selected
    /\ IF k[1] = "notion" THEN run[r].on.notion ELSE run[r].on.email /\ ~run[r].baseline

\* Faulty variant: the snapshot advances although nobody could be told.
AdvancesAnyway(r) == TRUE

\* The snapshot waits for the recipients, unless there is to be no mail.
Advances(r) == ~run[r].on.email \/ run[r].on.recipients

\* "PostgreSQL snapshot and outbox advance together": the tasks are those of the
\* selected offers, the snapshot has every offer.
Apply(r) ==
    LET raw == run[r].raw
        fresh == {k \in Tasks : k[2] \in DOMAIN raw \ run[r].previous}
        told(k) == Owes(r, k) /\ (k[1] = "email" => run[r].on.recipients)
    IN
    /\ run[r].pc = "fetched" /\ Owned(r)
    /\ task' = [k \in Tasks |-> IF k \in fresh /\ told(k) THEN Enqueue(task[k], raw[k[2]], k[1])
                                ELSE task[k]]
    /\ snapshot' = IF Advances(r)
                     THEN [Unleased EXCEPT !.dated = TRUE, !.offers = DOMAIN raw]
                     ELSE Unleased
    /\ exempt' = (exempt \ fresh) \cup {k \in fresh : ~Owes(r, k)}
    /\ SetRun(r, [Idle EXCEPT !.pc = "applied", !.on = run[r].on])
    /\ UNCHANGED <<outside, world, unleased, bounds>>

\* Another run has reserved the source since: this one ends, tasks included.
Discard(r) ==
    /\ run[r].pc = "fetched" /\ ~Owned(r)
    /\ SetRun(r, Idle)
    /\ UNCHANGED <<outside, snapshot, task, world, ghosts, bounds>>

\* The fetch fails, is incomplete or ambiguous, or its transaction fails: the lease is
\* released if it still is the run's own, and the run goes on to the tasks.
Fail(r) ==
    /\ MayFail
    /\ run[r].pc \in {"reserved", "fetched"}
    /\ snapshot' = IF Owned(r) THEN Unleased ELSE snapshot
    /\ SetRun(r, [Idle EXCEPT !.pc = "applied", !.on = run[r].on])
    /\ UNCHANGED <<outside, task, world, ghosts>>

----------------------------------------------------------------------------
(* The tasks. *)

\* Faulty variant: next_attempt_at is left out of the query.
AvailableAnyway(k) == task[k].status \in {"pending", "processing"}

\* Faulty variant: a task whose run died stays with it.
AvailablePending(k) == task[k].status = "pending" /\ task[k].next = Now

\* The tasks a run may take: those under way too, once their lease is over.
Available(k) == task[k].status \in {"pending", "processing"} /\ task[k].next = Now

\* The run goes through the tasks it listed, and ends.
WithTasks(r, todo) ==
    IF todo = {} THEN Idle
    ELSE [Idle EXCEPT !.pc = "working", !.on = run[r].on, !.todo = todo]

\* process_tasks lists the tasks first, and takes them one by one.
Select(r) ==
    /\ run[r].pc = "applied"
    /\ SetRun(r, WithTasks(r, {k \in Tasks : Available(k)}))
    /\ UNCHANGED <<outside, snapshot, task, world, ghosts, bounds>>

\* A listed task comes to nothing in this run.
Leave(r, k) ==
    /\ run[r].pc = "working" /\ k \in run[r].todo
    /\ SetRun(r, WithTasks(r, run[r].todo \ {k}))
    /\ UNCHANGED <<outside, snapshot, world, ghosts, bounds>>

\* "Every address that has a platform account is excluded from historical mail."
Excluded(r, k) == k[1] = "email" /\ (migrated \/ ~run[r].on.email)

\* The circuit breaker.
Paused(r, k) == k[1] = "notion" /\ ~run[r].on.notion

Exhausted(k) == task[k].attempts >= MaxAttempts

\* The task was taken meanwhile, or its channel is paused.
Skip(r, k) ==
    /\ Leave(r, k)
    /\ Available(k) => ~Exhausted(k) /\ Paused(r, k)
    /\ UNCHANGED task

GiveUp(r, k) ==
    /\ Leave(r, k)
    /\ Available(k) /\ Exhausted(k)
    /\ SetTask(k, [task[k] EXCEPT !.status = "failed"])

Cancel(r, k) ==
    /\ Leave(r, k)
    /\ Available(k) /\ ~Exhausted(k) /\ Excluded(r, k)
    /\ SetTask(k, [task[k] EXCEPT !.status = "cancelled"])

Claim(r, k) ==
    /\ run[r].pc = "working" /\ k \in run[r].todo
    /\ Available(k) /\ ~Exhausted(k) /\ ~Excluded(r, k) /\ ~Paused(r, k)
    /\ SetTask(k, [task[k] EXCEPT !.status = "processing", !.next = r, !.attempts = @ + 1])
    /\ SetRun(r, [run[r] EXCEPT !.pc = "writing", !.todo = @ \ {k}, !.at = k,
                                !.payload = task[k].payload])
    /\ UNCHANGED <<outside, snapshot, world, ghosts, bounds>>

\* The adapter writes the page or has the message accepted.
Deliver(r) ==
    LET k == run[r].at IN
    IF k[1] = "notion"
      THEN page' = [page EXCEPT ![k[2]] = run[r].payload] /\ UNCHANGED mails
      ELSE mails' = [mails EXCEPT ![k[2]] = @ + 1] /\ UNCHANGED page

\* It answers, fails before anything is written, or its answer is lost.
Write(r) ==
    /\ run[r].pc = "writing"
    /\ \E answer \in {"ok", "refused", "lost"} :
         /\ IF answer = "refused" THEN UNCHANGED world ELSE Deliver(r)
         /\ IF answer = "ok" THEN UNCHANGED bounds ELSE MayFail
         /\ SetRun(r, [run[r] EXCEPT !.pc = "answered", !.erred = answer # "ok"])
    /\ UNCHANGED <<outside, snapshot, task, ghosts>>

\* The claim is still this one, and for this payload.
Owns(r) ==
    LET row == task[run[r].at] IN
    row.status = "processing" /\ row.next = r /\ row.payload = run[r].payload

\* A malformed payload or answer fails at once.  (A claim counted an attempt, so
\* there is one to take back.)
Outcome(row, erred, malformed) ==
    IF ~erred THEN [row EXCEPT !.status = "sent", !.next = Now, !.attempts = @ - 1]
    ELSE IF row.attempts >= MaxAttempts \/ malformed
      THEN [row EXCEPT !.status = "failed", !.next = Later]
    ELSE [row EXCEPT !.status = "pending", !.next = Later]

\* The outcome is recorded, and the next task taken unless the budget is spent.
Finalise(r) ==
    LET k == run[r].at IN
    /\ run[r].pc = "answered"
    /\ \/ Owns(r) /\ \E malformed \in BOOLEAN : SetTask(k, Outcome(task[k], run[r].erred, malformed))
       \/ ~Owns(r) /\ UNCHANGED task
    /\ \E todo \in {{}, run[r].todo} : SetRun(r, WithTasks(r, todo))
    /\ UNCHANGED <<outside, snapshot, world, ghosts, bounds>>

\* The transaction that records the outcome fails; the run takes its next task.
Defer(r) ==
    /\ MayFail
    /\ run[r].pc = "answered"
    /\ SetRun(r, WithTasks(r, run[r].todo))
    /\ UNCHANGED <<outside, snapshot, task, world, ghosts>>

----------------------------------------------------------------------------
(* Time, trouble, operators and the tracker. *)

\* The process is killed (timeout 100s).
Crash(r) ==
    /\ MayFail
    /\ run[r].pc # "idle"
    /\ SetRun(r, Idle)
    /\ UNCHANGED <<outside, snapshot, task, world, ghosts>>

\* A task's five minutes pass.  A run that still writes does not see them pass:
\* its budget is ninety seconds.
LeaseLapses(k) ==
    /\ task[k].next \in Runs /\ run[task[k].next].at # k
    /\ SetTask(k, [task[k] EXCEPT !.next = Now])
    /\ UNCHANGED <<outside, snapshot, run, world, ghosts, bounds>>

RetryDue(k) ==
    /\ task[k].next = Later
    /\ SetTask(k, [task[k] EXCEPT !.next = Now])
    /\ UNCHANGED <<outside, snapshot, run, world, ghosts, bounds>>

\* Five minutes after its reservation the run that holds the source is dead, or, by
\* exception, still collecting.
SnapshotLapses ==
    /\ snapshot.leased
    /\ IF run[snapshot.token].pc \in {"reserved", "fetched"}
         THEN MayFail /\ snapshot' = [snapshot EXCEPT !.leased = FALSE]
         ELSE UNCHANGED bounds /\ snapshot' = Unleased
    /\ UNCHANGED <<outside, task, run, world, ghosts>>

Publish(new) ==
    /\ MayEdit
    /\ listing' = new /\ new # listing
    /\ UNCHANGED <<switches, migrated, snapshot, task, run, world, ghosts>>

Switch(on) ==
    /\ MayEdit
    /\ switches' = on /\ on # switches
    /\ UNCHANGED <<listing, migrated, snapshot, task, run, world, ghosts>>

\* The recipient is imported as a subscriber.
Migrate ==
    /\ MayEdit
    /\ ~migrated /\ migrated' = TRUE
    /\ UNCHANGED <<listing, switches, snapshot, task, run, world, ghosts>>

\* admin_jobs.retry, and retry-failed of the command line.
AdminRetry(k) ==
    /\ MayEdit
    /\ task[k].status = "failed"
    /\ SetTask(k, [task[k] EXCEPT !.status = "pending", !.attempts = 0, !.next = Now])
    /\ UNCHANGED <<outside, snapshot, run, world, ghosts>>

\* cancel_legacy_notion_window.
Remediate(o) ==
    /\ MayEdit
    /\ task[<<"notion", o>>].status = "pending"
    /\ SetTask(<<"notion", o>>, [task[<<"notion", o>>] EXCEPT !.status = "cancelled", !.next = Now])
    /\ unleased' = IF task[<<"notion", o>>].next \in Runs THEN unleased \cup {o} ELSE unleased
    /\ UNCHANGED <<outside, snapshot, run, world, exempt>>

\* maintenance.purge: thirty days after a task was sent its row is deleted.
Purge(k) ==
    /\ MayEdit
    /\ task[k].status = "sent"
    /\ SetTask(k, [Absent EXCEPT !.status = "purged"])
    /\ mails' = IF k[1] = "email" THEN [mails EXCEPT ![k[2]] = 0] ELSE mails
    /\ UNCHANGED <<outside, snapshot, run, page, ghosts>>

----------------------------------------------------------------------------

RunStep(r) ==
    \/ Reserve(r) \/ Fetch(r) \/ Apply(r) \/ Discard(r)
    \/ Select(r) \/ Write(r) \/ Finalise(r)
    \/ \E k \in Tasks : Skip(r, k) \/ GiveUp(r, k) \/ Cancel(r, k) \/ Claim(r, k)

Next ==
    \/ \E r \in Runs : RunStep(r) \/ Fail(r) \/ Defer(r) \/ Crash(r)
    \/ \E k \in Tasks : LeaseLapses(k) \/ RetryDue(k) \/ AdminRetry(k) \/ Purge(k)
    \/ \E o \in Offers : Remediate(o)
    \/ SnapshotLapses \/ Migrate
    \/ \E new \in Listings : Publish(new)
    \/ \E on \in Settings : Switch(on)

Spec == Init /\ [][Next]_vars

\* The workflow runs the collectors every ten minutes, and time passes.
Fairness ==
    /\ \A r \in Runs : WF_vars(RunStep(r))
    /\ \A k \in Tasks : WF_vars(LeaseLapses(k)) /\ WF_vars(RetryDue(k))
    /\ WF_vars(SnapshotLapses)

FairSpec == Spec /\ Fairness

----------------------------------------------------------------------------
(* Properties. *)

\* "Preserve an outstanding lease/backoff when replacing the payload": a page whose
\* task is recorded as sent shows the payload of that task, also when the payload
\* was replaced while the old one was being written.  (A remediation that meets such
\* a replaced task drops the lease; the old payload may then arrive last.)
PageIsCurrent ==
    \A o \in Offers \ unleased : LET row == task[<<"notion", o>>] IN
      row.status = "sent" => page[o] = row.payload

\* "Ordinary runs deduplicate existing deliveries": an offer is mailed once, and
\* once more only for an answer that was lost or a run that died.
EmailedOnce == \A o \in Offers : mails[o] <= 1 + faults

\* An offer the saved snapshot knows is found by no later run.  It has its tasks all
\* the same, unless it was there from the start, or the run that last found it new
\* owed it none: its version had another start term, or the channel was off.
NothingDropped ==
    \A k \in Tasks : k[2] \in snapshot.offers \ Archive =>
                       task[k].status # "absent" \/ k \in exempt

\* A task is recorded as sent only by the run that holds its lease, after its
\* adapter succeeded.
Leaseholder == [k \in Tasks |-> IF task[k].status = "processing" /\ task[k].next \in Runs
                                  THEN task[k].next ELSE Nothing]
InHand == [r \in Runs |-> {run[r].at} \ {Nothing}]
Answered == {r \in Runs : run[r].pc = "answered" /\ ~run[r].erred}
Sent == {k \in Tasks : task[k].status = "sent"}

Queue == INSTANCE Outbox WITH Rows <- Tasks, Workers <- Runs, Nobody <- Nothing,
                              holder <- Leaseholder, work <- InHand,
                              answered <- Answered, done <- Sent

OutboxSpec == Queue!Spec

\* Every task ends, or waits because its channel is switched off: runs that die,
\* failures and replaced payloads included.
TasksSettle ==
    \A k \in Tasks : task[k].status \in {"pending", "processing"}
        ~> (task[k].status \notin {"pending", "processing"} \/ (k[1] = "notion" /\ ~switches.notion))
=============================================================================
