---------------------------- MODULE AlertDelivery ----------------------------
(****************************************************************************)
(* The alert mail of one subscriber (workers.py, and reconcile_delivery of  *)
(* preferences.py).  Matching writes a delivery row for each new offer in   *)
(* the mode of the preference; the two mail commands take the rows of their *)
(* mode in batches, claim them under the user lock, send one message with   *)
(* no lock held, and record the answer of the mail server on the rows they  *)
(* still own.  Meanwhile the subscriber changes modes, an administrator     *)
(* disables and enables the account, and reconciliation moves unsent rows   *)
(* to the current mode, batch by batch.                                     *)
(*                                                                          *)
(* Subscribers share no state here: every transaction locks one user row.   *)
(* An action is one transaction, or the mail server's answer between two.   *)
(* A claim's instant, which no other claim shares, is represented by the    *)
(* worker that made it: a worker holds one group of claims at a time.       *)
(****************************************************************************)
EXTENDS Integers, FiniteSets

CONSTANTS
    Offers,
    Workers,
    Nobody,       \* processing_started_at is null
    MaxAttempts,  \* five in the code
    BatchSize,    \* rows per message, and per reconciliation batch; 100 in the code
    Producers,    \* which of the environment's transactions run
    MaxEdits,     \* bound on the environment's transactions
    MaxFaults     \* bound on mail server errors, database errors and crashes

ASSUME AlertDeliveryAssumption ==
    /\ IsFiniteSet(Offers)
    /\ Nobody \notin Workers
    /\ MaxAttempts \in Nat \ {0} /\ BatchSize \in Nat \ {0}
    /\ MaxEdits \in Nat /\ MaxFaults \in Nat

Modes == {"immediate", "daily_digest"}

\* A delivery row is unique by offer and mode.
Alerts == Offers \X Modes

VARIABLES
    active,    \* the account is enabled (its preference is activated)
    mode,      \* the delivery mode of the preference
    fitting,   \* the offers that are open and match the preference
    matched,   \* the offers matched since the baseline: each queued an alert
    row,       \* the delivery rows
    id,        \* their ids, 0 for a row never created
    receipt,   \* the offers with a permanent delivery receipt
    rec,       \* the reconciliation phase of the user's durable job
    skipped,   \* the offers that phase leaves out: see Reconsider
    due,       \* the local time has reached the digest time
    closed,    \* last_digest_date is the local date
    worker,    \* the processes that run the mail commands
    edits,
    faults

prefs == <<active, mode, fitting, matched>>
rows == <<row, id, receipt>>
clock == <<due, closed>>
job == <<rec, skipped>>
vars == <<prefs, rows, job, clock, worker, edits, faults>>

----------------------------------------------------------------------------
(* Types. *)

Row == [status   : {"absent", "pending", "processing", "sent", "failed", "cancelled"},
        attempts : 0..MaxAttempts,
        by       : Workers \cup {Nobody},  \* whose claim a processing row is
        stale    : BOOLEAN,                \* the claim is fifteen minutes old
        deferred : BOOLEAN]                \* next_attempt_at lies in the future

\* The job; "none": its payload has no reconciliation left.  A batch "running" holds
\* the lease and looks at the rows beyond "from", the cursor of its claim.
Reconciliation == [status  : {"none", "pending", "processing", "failed"},
                   cursor  : 0..Cardinality(Alerts),
                   running : BOOLEAN,
                   from    : 0..Cardinality(Alerts)]

\* "taken" are the rows a group started from, "claims" those it claimed, "answer"
\* what the mail server said; "dated": the group was claimed on the local date.
WorkerRow == [pc     : {"idle", "sending", "answered"},
              mode   : Modes,
              taken  : SUBSET Alerts,
              claims : SUBSET Alerts,
              answer : {"none", "ok", "error"},
              dated  : BOOLEAN]

TypeOK ==
    /\ active \in BOOLEAN /\ mode \in Modes
    /\ fitting \in SUBSET Offers /\ matched \in SUBSET Offers
    /\ row \in [Alerts -> Row]
    /\ id \in [Alerts -> 0..Cardinality(Alerts)]
    /\ receipt \in SUBSET Offers
    /\ rec \in Reconciliation /\ skipped \in SUBSET Offers
    /\ due \in BOOLEAN /\ closed \in BOOLEAN
    /\ worker \in [Workers -> WorkerRow]
    /\ edits \in 0..MaxEdits /\ faults \in 0..MaxFaults

AbsentRow == [status |-> "absent", attempts |-> 0, by |-> Nobody, stale |-> FALSE,
              deferred |-> FALSE]
NewRow(status, attempts) == [AbsentRow EXCEPT !.status = status, !.attempts = attempts]

IdleWorker == [pc |-> "idle", mode |-> "immediate", taken |-> {}, claims |-> {},
               answer |-> "none", dated |-> FALSE]

\* A subscriber who has activated preferences and received nothing yet.
Init ==
    /\ active = TRUE /\ mode \in Modes
    /\ fitting = Offers /\ matched = {}
    /\ row = [a \in Alerts |-> AbsentRow]
    /\ id = [a \in Alerts |-> 0]
    /\ receipt = {}
    /\ rec = [status |-> "none", cursor |-> 0, running |-> FALSE, from |-> 0]
    /\ skipped = {}
    /\ due = FALSE /\ closed = FALSE
    /\ worker = [w \in Workers |-> IdleWorker]
    /\ edits = 0 /\ faults = 0

----------------------------------------------------------------------------
(* Rows. *)

Other(m) == CHOOSE n \in Modes : n # m

\* The rows reconciliation looks at.
Unfinished == {"pending", "processing", "failed", "cancelled"}

\* An offer whose alert was recorded as sent, in either mode, even if its row was
\* purged since.
Delivered(o) == o \in receipt \/ \E m \in Modes : row[<<o, m>>].status = "sent"

\* Every status but processing has no claim.
Settle(r, status) == [r EXCEPT !.status = status, !.by = Nobody, !.stale = FALSE]

Created == {a \in Alerts : id[a] # 0}

\* "ORDER BY id LIMIT BatchSize".
First(S) == {a \in S : Cardinality({b \in S : id[b] < id[a]}) < BatchSize}

\* _available, and attempts left.
Available(a) ==
    /\ \/ row[a].status = "pending" /\ ~row[a].deferred
       \/ row[a].status = "processing" /\ row[a].stale
    /\ row[a].attempts < MaxAttempts

Batch(m) == First({a \in Alerts : a[2] = m /\ Available(a)})

\* A message to the subscriber is under way: _locked_user gives up.
Sending == \E a \in Alerts : row[a].status = "processing" /\ ~row[a].stale

Eligible(a) == active /\ a[2] = mode /\ a[1] \in fitting

\* _claim after _eligible: the rows that fit no more are cancelled.
Claimed(w, batch) ==
    [a \in Alerts |->
       CASE a \notin batch -> row[a]
         [] a \in batch /\ ~Eligible(a) -> Settle(row[a], "cancelled")
         [] OTHER -> [row[a] EXCEPT !.status = "processing", !.by = w, !.stale = FALSE,
                                    !.attempts = @ + 1]]

\* Faulty variant: the status alone is tested.
OwnsAny(w, a) == row[a].status = "processing"

\* The claim a worker made on a row is still the row's.
Owns(w, a) == row[a].status = "processing" /\ row[a].by = w

----------------------------------------------------------------------------
(* The environment. *)

MayEdit(producer) == producer \in Producers /\ edits < MaxEdits /\ edits' = edits + 1
MayFail == faults < MaxFaults /\ faults' = faults + 1

\* match_batch records a match and queues its alert.
QueueAlert(o) ==
    /\ active /\ o \in fitting /\ o \notin matched
    /\ matched' = matched \cup {o}
    /\ row' = [row EXCEPT ![<<o, mode>>] = NewRow("pending", 0)]
    /\ id' = [id EXCEPT ![<<o, mode>>] = Cardinality(Created) + 1]
    /\ UNCHANGED <<active, mode, fitting, receipt, job, clock, worker, edits, faults>>

\* The collectors close, reopen or change an offer.
ChangeOffer(o) ==
    /\ MayEdit("offers")
    /\ fitting' = IF o \in fitting THEN fitting \ {o} ELSE fitting \cup {o}
    /\ UNCHANGED <<active, mode, matched, rows, job, clock, worker, faults>>

\* The reconciliation has still to come to an alert of the offer.
Ahead(o) ==
    /\ rec.status # "none"
    /\ \E m \in Modes : row[<<o, m>>].status # "absent" /\ id[<<o, m>>] > rec.cursor

\* activate_preference queues a reconciliation of the existing rows.  enqueue_job
\* starts it over, and leaves a batch that runs its lease; but it returns a job that
\* waits with the same payload as it is.  Such a job keeps its place, and the alerts
\* it has passed are left out: what becomes of them is ResumesUnsent of MatchQueue.
Reconsider ==
    IF rec.status = "pending"
      THEN /\ skipped' = skipped \cup {o \in matched : ~Ahead(o)}
           /\ UNCHANGED rec
      ELSE /\ rec' = [rec EXCEPT !.status = "pending", !.cursor = 0]
           /\ skipped' = {}

\* POST /preferences/activate, with a delivery mode and filters.
Activate(m, fits) ==
    /\ MayEdit("activate")
    /\ active
    /\ mode' = m /\ fitting' = fits
    /\ Reconsider
    /\ UNCHANGED <<active, matched, rows, clock, worker, faults>>

\* Faulty variant: rows under way are left to their worker.
DeactivatePending ==
    /\ MayEdit("toggle")
    /\ active /\ active' = FALSE
    /\ row' = [a \in Alerts |-> IF row[a].status = "pending"
                                  THEN Settle(row[a], "cancelled") ELSE row[a]]
    /\ UNCHANGED <<mode, fitting, matched, id, receipt, job, clock, worker, faults>>

\* POST /admin/users/{id}/toggle: the unsent rows are cancelled, claims included.
Deactivate ==
    /\ MayEdit("toggle")
    /\ active /\ active' = FALSE
    /\ row' = [a \in Alerts |-> IF row[a].status \in {"pending", "processing", "failed"}
                                  THEN Settle(row[a], "cancelled") ELSE row[a]]
    /\ UNCHANGED <<mode, fitting, matched, id, receipt, job, clock, worker, faults>>

Reactivate ==
    /\ MayEdit("toggle")
    /\ ~active /\ active' = TRUE
    /\ Reconsider
    /\ UNCHANGED <<mode, fitting, matched, rows, clock, worker, faults>>

\* The Notion destination becomes ready: the job it queues, under the same key,
\* reconciles nothing, and takes the place of one that has not ended.
NotionReady ==
    /\ MayEdit("notion")
    /\ active /\ rec.status # "none"
    /\ rec' = [rec EXCEPT !.status = "none", !.cursor = 0]
    /\ skipped' = skipped \cup {o \in matched : Ahead(o)}
    /\ UNCHANGED <<prefs, rows, clock, worker, faults>>

\* admin_jobs.retry of a failed job.
RetryReconciliation ==
    /\ MayEdit("retry")
    /\ rec.status = "failed"
    /\ rec' = [rec EXCEPT !.status = "pending"]
    /\ UNCHANGED <<prefs, rows, skipped, clock, worker, faults>>

\* admin_jobs.retry of a failed delivery.
AdminRetry(a) ==
    /\ MayEdit("retry")
    /\ row[a].status = "failed"
    /\ row' = [row EXCEPT ![a] = NewRow("pending", 0)]
    /\ UNCHANGED <<prefs, id, receipt, job, clock, worker, faults>>

\* maintenance.purge of a row sent thirty days ago leaves a receipt.
PurgeSent(a) ==
    /\ "purge" \in Producers
    /\ row[a].status = "sent"
    /\ row' = [row EXCEPT ![a] = AbsentRow]
    /\ receipt' = receipt \cup {a[1]}
    /\ UNCHANGED <<prefs, id, job, clock, worker, edits, faults>>

DigestHour ==
    /\ ~due /\ due' = TRUE
    /\ UNCHANGED <<prefs, rows, job, closed, worker, edits, faults>>

\* Midnight, in the subscriber's timezone.
NextDay ==
    /\ due /\ due' = FALSE
    /\ closed' = FALSE
    /\ worker' = [w \in Workers |-> [worker[w] EXCEPT !.dated = FALSE]]
    /\ UNCHANGED <<prefs, rows, job, edits, faults>>

\* Fifteen minutes pass since a claim.  A worker lives ninety seconds.
ClaimStale(a) ==
    /\ row[a].status = "processing" /\ ~row[a].stale
    /\ \A w \in Workers : ~(row[a].by = w /\ a \in worker[w].claims)
    /\ row' = [row EXCEPT ![a].stale = TRUE]
    /\ UNCHANGED <<prefs, id, receipt, job, clock, worker, edits, faults>>

RetryDue(a) ==
    /\ row[a].deferred
    /\ row' = [row EXCEPT ![a].deferred = FALSE]
    /\ UNCHANGED <<prefs, id, receipt, job, clock, worker, edits, faults>>

----------------------------------------------------------------------------
(* Reconciliation of the rows with the preference. *)

\* Faulty variant: the sent history is not consulted.
BlockedByFilters(o) == o \notin fitting

\* Nothing of the offer is to be sent.
Blocked(o) == Delivered(o) \/ o \notin fitting

Revived(attempts) == IF attempts >= MaxAttempts THEN "failed" ELSE "pending"

\* What reconcile_delivery, called on the rows of a batch by id, makes of row a.
\* An alert of the other mode hands over to the row of the current mode.
Reconciled(batch, a) ==
    LET o == a[1]
        r == row[a]
        twin == <<o, Other(a[2])>>
        open(b) == b \in batch /\ row[b].status \in Unfinished
        handover == a[2] = mode /\ open(twin) /\ ~Blocked(o)
        revives == handover /\ (open(a) => id[twin] < id[a])  \* the twin comes before a
    IN
    CASE open(a) /\ (Blocked(o) \/ a[2] # mode) -> Settle(r, "cancelled")
      [] handover /\ r.status = "absent" ->
           NewRow(IF row[twin].status = "failed" THEN "failed" ELSE "pending",
                  row[twin].attempts)
      [] revives /\ r.status = "cancelled" -> Settle(r, Revived(r.attempts))
      [] ~revives /\ a[2] = mode /\ open(a) /\ ~Blocked(o) /\ r.status = "cancelled" ->
           [Settle(r, Revived(r.attempts)) EXCEPT !.deferred = FALSE]
      [] OTHER -> r

\* Ids of the rows a batch creates, in the order of the rows they take over.
Numbered(fresh) ==
    [a \in Alerts |->
       IF a \notin fresh THEN id[a]
       ELSE Cardinality(Created) + 1
            + Cardinality({b \in fresh : id[<<b[1], Other(b[2])>>] < id[<<a[1], Other(a[2])>>]})]

\* match_batch claims the job; a claim whose lease has lapsed is claimed again.
ClaimReconciliation ==
    /\ rec.status \in {"pending", "processing"} /\ ~rec.running
    /\ rec' = [rec EXCEPT !.status = "processing", !.running = TRUE, !.from = rec.cursor]
    /\ UNCHANGED <<prefs, rows, skipped, clock, worker, edits, faults>>

\* Faulty variant: a batch takes the job for the one it claimed.
NeverReplaced == FALSE

\* A producer queued the job anew while its batch ran.
Replaced == rec.status # "processing"

Released == [rec EXCEPT !.running = FALSE, !.from = 0]

\* The rows of the batch are reconciled and the lease is released; unless it was
\* replaced, the job moves to the end of the batch.  An empty batch ends the phase.
ReconcileBatch ==
    LET batch == First({a \in Created : row[a].status # "absent" /\ id[a] > rec.from})
        new == [a \in Alerts |-> Reconciled(batch, a)]
        fresh == {a \in Alerts : row[a].status = "absent" /\ new[a].status # "absent"}
    IN
    /\ rec.running
    /\ IF active THEN row' = new /\ id' = Numbered(fresh) ELSE UNCHANGED <<row, id>>
    /\ IF Replaced THEN rec' = Released
       ELSE IF batch = {} THEN rec' = [Released EXCEPT !.status = "none", !.cursor = 0]
       ELSE \E last \in batch :
              /\ \A a \in batch : id[a] <= id[last]
              /\ rec' = [Released EXCEPT !.status = "pending", !.cursor = id[last]]
    /\ UNCHANGED <<prefs, receipt, skipped, clock, worker, edits, faults>>

\* The batch is rolled back by an error, after which the job waits or, at the fifth in
\* a row, has failed; or its process is killed, and the lease lapses.  MatchQueue
\* counts the attempts.
ReconcileFails ==
    /\ MayFail
    /\ rec.running
    /\ \E status \in {rec.status} \cup (IF Replaced THEN {} ELSE {"pending", "failed"}) :
         rec' = [Released EXCEPT !.status = status]
    /\ UNCHANGED <<prefs, rows, skipped, clock, worker, edits>>

----------------------------------------------------------------------------
(* The mail commands. *)

\* Faulty variant: off by one.
FailExhaustedLate(m) ==
    LET lost == {a \in Alerts : /\ a[2] = m /\ row[a].status = "processing" /\ row[a].stale
                                /\ row[a].attempts > MaxAttempts}
    IN
    /\ lost # {}
    /\ row' = [a \in Alerts |-> IF a \in lost THEN Settle(row[a], "failed") ELSE row[a]]
    /\ UNCHANGED <<prefs, id, receipt, job, clock, worker, edits, faults>>

\* _user_ids: claims lost with the attempts used up.
FailExhausted(m) ==
    LET lost == {a \in Alerts : /\ a[2] = m /\ row[a].status = "processing" /\ row[a].stale
                                /\ row[a].attempts >= MaxAttempts}
    IN
    /\ lost # {}
    /\ row' = [a \in Alerts |-> IF a \in lost THEN Settle(row[a], "failed") ELSE row[a]]
    /\ UNCHANGED <<prefs, id, receipt, job, clock, worker, edits, faults>>

\* What process_digests asks before it takes rows; process_immediate_alerts takes
\* them first and cancels those of a disabled account or of another mode.
MayTake(m) ==
    m = "daily_digest" => active /\ mode = "daily_digest" /\ due /\ ~closed

\* One user's group is claimed.
Take(w, m) ==
    LET batch == Batch(m)
        claims == {a \in batch : Eligible(a)}
    IN
    /\ worker[w].pc = "idle"
    /\ batch # {} /\ ~Sending /\ MayTake(m)
    /\ row' = Claimed(w, batch)
    /\ worker' = IF claims = {} THEN worker
                 ELSE [worker EXCEPT ![w] = [pc |-> "sending", mode |-> m, taken |-> batch,
                                             claims |-> claims, answer |-> "none",
                                             dated |-> TRUE]]
    /\ UNCHANGED <<prefs, id, receipt, job, clock, edits, faults>>

\* send_email: an error leaves open whether the server took the message.
Send(w, answer) ==
    /\ worker[w].pc = "sending"
    /\ IF answer = "ok" THEN UNCHANGED faults ELSE MayFail
    /\ worker' = [worker EXCEPT ![w].pc = "answered", ![w].answer = answer]
    /\ UNCHANGED <<prefs, rows, job, clock, edits>>

Leave(w) == worker' = [worker EXCEPT ![w] = IdleWorker]

\* What the answer makes of a row the worker still owns.
Answered(r, answer) ==
    IF ~active THEN Settle(r, "cancelled")
    ELSE IF answer = "error" THEN [Settle(r, Revived(r.attempts)) EXCEPT !.deferred = TRUE]
    ELSE [Settle(r, "sent") EXCEPT !.attempts = @ - 1, !.deferred = FALSE]

\* The answer is recorded; a digest with nothing left to send closes its date.
Finalise(w) ==
    LET own == {a \in worker[w].claims : Owns(w, a)}
        new == [a \in Alerts |-> IF a \in own THEN Answered(row[a], worker[w].answer) ELSE row[a]]
        completed == {a \in own : new[a].status = "sent"}
        remaining == {a \in Alerts : /\ a[2] = "daily_digest"
                                     /\ new[a].status \in {"pending", "processing"}
                                     /\ new[a].attempts < MaxAttempts}
    IN
    /\ worker[w].pc = "answered"
    /\ row' = new
    /\ closed' = IF worker[w].mode = "daily_digest" /\ completed # {} /\ remaining = {}
                   THEN worker[w].dated ELSE closed
    /\ Leave(w)
    /\ UNCHANGED <<prefs, id, receipt, job, due, edits, faults>>

\* _defer_group.
Deferred(S) ==
    [a \in Alerts |->
       IF a \in S /\ row[a].status = "pending"
         THEN [row[a] EXCEPT !.attempts = @ + 1, !.deferred = TRUE,
                             !.status = IF row[a].attempts >= MaxAttempts - 1
                                          THEN "failed" ELSE "pending"]
         ELSE row[a]]

\* An exception before the claims are committed, or while the answer is recorded.
FailTake(w, m) ==
    /\ MayFail
    /\ worker[w].pc = "idle"
    /\ Batch(m) # {} /\ ~Sending /\ MayTake(m)
    /\ row' = Deferred(Batch(m))
    /\ UNCHANGED <<prefs, id, receipt, job, clock, worker, edits>>

FailFinalise(w) ==
    /\ MayFail
    /\ worker[w].pc = "answered"
    /\ row' = Deferred(worker[w].taken)
    /\ Leave(w)
    /\ UNCHANGED <<prefs, id, receipt, job, clock, edits>>

\* The process is killed, before or after the server took the message.
Crash(w) ==
    /\ MayFail
    /\ worker[w].pc # "idle"
    /\ Leave(w)
    /\ UNCHANGED <<prefs, rows, job, clock, edits>>

----------------------------------------------------------------------------

Environment ==
    \/ \E o \in Offers : QueueAlert(o) \/ ChangeOffer(o)
    \/ \E m \in Modes, fits \in SUBSET Offers : Activate(m, fits)
    \/ Deactivate
    \/ Reactivate
    \/ NotionReady
    \/ RetryReconciliation
    \/ \E a \in Alerts : AdminRetry(a) \/ PurgeSent(a)

TimePasses == DigestHour \/ NextDay \/ \E a \in Alerts : ClaimStale(a) \/ RetryDue(a)

WorkerStep(w) ==
    \/ \E m \in Modes : Take(w, m)
    \/ \E answer \in {"ok", "error"} : Send(w, answer)
    \/ Finalise(w)

Trouble == \E w \in Workers : (\E m \in Modes : FailTake(w, m)) \/ FailFinalise(w) \/ Crash(w)

Next ==
    \/ Environment \/ TimePasses \/ Trouble
    \/ ClaimReconciliation \/ ReconcileBatch \/ ReconcileFails
    \/ \E m \in Modes : FailExhausted(m)
    \/ \E w \in Workers : WorkerStep(w)

Spec == Init /\ [][Next]_vars

\* The schedule runs the mail commands again and again, the job queue its jobs,
\* and time passes.
Fairness ==
    /\ \A w \in Workers : WF_vars(WorkerStep(w))
    /\ WF_vars(ClaimReconciliation) /\ WF_vars(ReconcileBatch)
    /\ \A m \in Modes : WF_vars(FailExhausted(m))
    /\ \A a \in Alerts : WF_vars(ClaimStale(a)) /\ WF_vars(RetryDue(a))
    /\ WF_vars(DigestHour) /\ WF_vars(NextDay)

FairSpec == Spec /\ Fairness

----------------------------------------------------------------------------
(* Properties. *)

Open(a) == row[a].status \in {"pending", "processing"}

\* A disabled account has no alert waiting, under way or failed, whatever was in
\* flight when it was disabled: a message that fails after that is not put back
\* in the queue, and there is nothing an administrator could retry.
DisabledHasNoWork ==
    ~active => \A a \in Alerts : row[a].status \in {"absent", "sent", "cancelled"}

\* "Revocation or a newer lease owns this row now": an alert is recorded as sent
\* only by the worker that holds its claim, after its message was accepted.
Claimant == [a \in Alerts |-> IF row[a].status = "processing" /\ ~row[a].stale
                               THEN row[a].by ELSE Nobody]
InHand == [w \in Workers |-> worker[w].claims]
Accepted == {w \in Workers : worker[w].pc = "answered" /\ worker[w].answer = "ok"}
Sent == {a \in Alerts : row[a].status = "sent"}

Queue == INSTANCE Outbox WITH Rows <- Alerts, holder <- Claimant, work <- InHand,
                              answered <- Accepted, done <- Sent

OutboxSpec == Queue!Spec

\* "without erasing sent history": while an alert is recorded as sent in one mode,
\* or only its receipt is left, the offer has no alert waiting in the other.
DeliveredHasNoWork ==
    \A a \in Alerts : Delivered(a[1]) => row[a].status \notin {"pending", "processing", "failed"}

\* "resumes matching unsent work": once the reconciliation has ended, the alert of
\* each offer that was queued and fits was sent, is on its way, or has failed,
\* whatever fails, lapses or is queued anew between two batches.  The alerts that
\* the job had passed when an activation found it waiting, or had still to come to
\* when a Notion destination took its place, are those the code does not resume.
Resumed ==
    active /\ rec.status = "none" =>
      \A o \in (matched \cap fitting) \ skipped :
        Delivered(o) \/ \E m \in Modes : row[<<o, m>>].status \in {"pending", "processing", "failed"}

\* Every immediate alert is sent, fails for good or is cancelled, also when claims
\* are lost with their worker and the mail server fails.
ImmediateSettles ==
    \A o \in Offers : LET a == <<o, "immediate">> IN Open(a) ~> ~Open(a)
=============================================================================
