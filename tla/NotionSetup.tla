------------------------------ MODULE NotionSetup ------------------------------
(****************************************************************************)
(* The personal Notion destination of one account: connecting a workspace   *)
(* (notion.save_connection), asking for a database and recovering one       *)
(* (main.py), and the durable job that creates it (durable.create_notion).  *)
(*                                                                          *)
(* A worker claims the job, calls Notion with no lock held, and records the *)
(* answer; a crash, or an answer that never comes, leaves open whether the  *)
(* database exists.  A recovery reads the connection, verifies a database   *)
(* with no lock held, and attaches it if the connection is the same.        *)
(* Every other action is one transaction under the user lock.               *)
(*                                                                          *)
(* A page stands for the workspace it belongs to.  next_attempt_at is left  *)
(* out: a worker may have selected the job before it was deferred.          *)
(****************************************************************************)
EXTENDS Naturals, Sequences

CONSTANTS
    Workspaces,
    Workers,
    Nobody,        \* no claim
    MaxAttempts,   \* five in the code
    MaxConnections,\* bound on the rows of notion_connections over time
    MaxEdits,      \* bound on the account's and the administrator's actions
    MaxFaults      \* bound on errors and crashes

ASSUME NotionSetupAssumption ==
    /\ Nobody \notin Workers /\ Workspaces # {}
    /\ MaxAttempts \in Nat \ {0} /\ MaxConnections \in Nat
    /\ MaxEdits \in Nat /\ MaxFaults \in Nat

VARIABLES
    active,     \* users.is_active
    conn,       \* the account's row of notion_connections
    job,        \* durable_jobs "notion-create/<connection id>"
    databases,  \* Notion: the databases that exist, in the order of creation
    worker,     \* processes that run process-notion-setup
    recovery,   \* a recovery request under way
    era,        \* how often the account was connected to another workspace
    edits,
    faults

bounds == <<edits, faults>>
vars == <<active, conn, job, databases, worker, recovery, era, bounds>>

----------------------------------------------------------------------------
(* Types. *)

Ids == 1..MaxConnections

\* A connection that was deleted keeps its number here: ids are not reused.
\* "credential" tells stored access tokens apart; "source" is the number of a
\* database, 0 for none.
Connection == [exists : BOOLEAN, id : 0..MaxConnections, workspace : Workspaces,
               credential : 0..MaxEdits, source : Nat,
               status : {"idle", "pending", "creating", "uncertain", "failed", "ready"}]

Job == [status   : {"absent", "pending", "processing", "uncertain", "failed", "cancelled", "done"},
        page     : Workspaces,
        attempts : 0..MaxAttempts,
        by       : Workers \cup {Nobody},   \* lease_token
        leased   : BOOLEAN]

\* "era" is zero for a database the account's owner made.
Database == [workspace : Workspaces, era : Nat]

\* The page is read at the selection, the workspace is the credential's; "made"
\* is the database the answer names.
WorkerRow == [pc        : {"idle", "selected", "calling", "answered"},
              key       : 0..MaxConnections,
              page      : Workspaces,
              workspace : Workspaces,
              era       : Nat,
              answer    : {"none", "created", "rejected", "unknown"},
              made      : Nat]

Recovery == [on : BOOLEAN, id : 0..MaxConnections, credential : 0..MaxEdits]

Anywhere == CHOOSE s \in Workspaces : TRUE

NoConnection == [exists |-> FALSE, id |-> 0, workspace |-> Anywhere, credential |-> 0,
                 source |-> 0, status |-> "idle"]
AbsentJob == [status |-> "absent", page |-> Anywhere, attempts |-> 0, by |-> Nobody,
              leased |-> FALSE]
IdleWorker == [pc |-> "idle", key |-> 0, page |-> Anywhere, workspace |-> Anywhere,
               era |-> 0, answer |-> "none", made |-> 0]
NoRecovery == [on |-> FALSE, id |-> 0, credential |-> 0]

TypeOK ==
    /\ active \in BOOLEAN
    /\ conn \in Connection
    /\ job \in [Ids -> Job]
    /\ databases \in Seq(Database)
    /\ worker \in [Workers -> WorkerRow]
    /\ recovery \in Recovery
    /\ era \in Nat
    /\ edits \in 0..MaxEdits /\ faults \in 0..MaxFaults

\* The owner may have a database with the right columns in a workspace.
Init ==
    /\ active = TRUE
    /\ conn = NoConnection
    /\ job = [k \in Ids |-> AbsentJob]
    /\ databases \in {<<>>} \cup {<<[workspace |-> s, era |-> 0]>> : s \in Workspaces}
    /\ worker = [w \in Workers |-> IdleWorker]
    /\ recovery = NoRecovery
    /\ era = 0
    /\ edits = 0 /\ faults = 0

Edit == edits < MaxEdits /\ edits' = edits + 1 /\ UNCHANGED faults
Fault == faults < MaxFaults /\ faults' = faults + 1 /\ UNCHANGED edits

----------------------------------------------------------------------------
(* The account's requests, and the administrator's. *)

\* The connection a job is for.
Connected(k) == conn.exists /\ conn.id = k

\* The last transaction of the OAuth callback, for an account without connection.
Connect(s) ==
    /\ Edit
    /\ active /\ ~conn.exists /\ conn.id < MaxConnections
    /\ conn' = [NoConnection EXCEPT !.exists = TRUE, !.id = conn.id + 1, !.workspace = s,
                                    !.credential = edits']
    /\ era' = era + 1
    /\ UNCHANGED <<active, job, databases, worker, recovery>>

\* A new credential for the same workspace keeps the destination.
Renew ==
    /\ Edit
    /\ active /\ conn.exists
    /\ conn' = [conn EXCEPT !.credential = edits']
    /\ UNCHANGED <<active, job, databases, worker, recovery, era>>

\* "A changed workspace resets local destination references".
Move(s) ==
    /\ Edit
    /\ active /\ conn.exists /\ s # conn.workspace
    /\ conn' = [conn EXCEPT !.workspace = s, !.credential = edits', !.source = 0, !.status = "idle"]
    /\ era' = era + 1
    /\ UNCHANGED <<active, job, databases, worker, recovery>>

\* notion_create refuses a destination that exists, or may exist.
MayAsk ==
    /\ active /\ conn.exists /\ conn.source = 0
    /\ conn.status \notin {"pending", "creating", "uncertain"}

\* The page is one of those the connection can see.  The token and the lease of
\* the job stay.
Ask ==
    /\ Edit
    /\ MayAsk
    /\ conn' = [conn EXCEPT !.status = "pending"]
    /\ job' = [job EXCEPT ![conn.id] =
         [job[conn.id] EXCEPT !.status = "pending", !.page = conn.workspace, !.attempts = 0]]
    /\ UNCHANGED <<active, databases, worker, recovery, era>>

Disconnect ==
    /\ Edit
    /\ conn.exists
    /\ conn' = [NoConnection EXCEPT !.id = conn.id]
    /\ UNCHANGED <<active, job, databases, worker, recovery, era>>

Toggle ==
    /\ Edit
    /\ active' = ~active
    /\ UNCHANGED <<conn, job, databases, worker, recovery, era>>

\* Of the durable jobs only a failed one.
AdminRetry(k) ==
    /\ Edit
    /\ job[k].status = "failed"
    /\ job' = [job EXCEPT ![k] =
         [job[k] EXCEPT !.status = "pending", !.attempts = 0, !.by = Nobody, !.leased = FALSE]]
    /\ UNCHANGED <<active, conn, databases, worker, recovery, era>>

\* Thirty days later.
Purge(k) ==
    /\ Edit
    /\ job[k].status \in {"done", "cancelled"}
    /\ job' = [job EXCEPT ![k] = AbsentJob]
    /\ UNCHANGED <<active, conn, databases, worker, recovery, era>>

\* The owner names a database, which is looked for once this transaction is over.
StartRecovery ==
    /\ Edit
    /\ ~recovery.on
    /\ active /\ conn.exists
    /\ ~(job[conn.id].status = "processing" /\ job[conn.id].leased)
    /\ recovery' = [on |-> TRUE, id |-> conn.id, credential |-> conn.credential]
    /\ UNCHANGED <<active, conn, job, databases, worker, era>>

\* "Notion connection changed" is refused.
StillValid == active /\ Connected(recovery.id) /\ conn.credential = recovery.credential

\* Notion has shown the database to the credential of its workspace, and it is
\* attached.  (Databases stay, and a valid credential still is that of the connection:
\* what Notion showed since the first transaction holds here.)
FinishRecovery(d) ==
    /\ recovery.on /\ StillValid
    /\ databases[d].workspace = conn.workspace
    /\ recovery' = NoRecovery
    /\ conn' = [conn EXCEPT !.source = d, !.status = "ready"]
    /\ job' = IF job[conn.id].status = "absent" THEN job
              ELSE [job EXCEPT ![conn.id] =
                      [job[conn.id] EXCEPT !.status = "done", !.leased = FALSE]]
    /\ UNCHANGED <<active, databases, worker, era, bounds>>

\* Notion does not show it, the connection changed, or the request dies.
AbandonRecovery ==
    /\ recovery.on
    /\ recovery' = NoRecovery
    /\ UNCHANGED <<active, conn, job, databases, worker, era, bounds>>

----------------------------------------------------------------------------
(* The worker. *)

\* Faulty variant: a claim that was interrupted is never looked at again.
SelectablePending(k) == job[k].status = "pending" /\ ~job[k].leased

Selectable(k) == job[k].status \in {"pending", "processing"} /\ ~job[k].leased

\* The payload is read before the locks.
Select(w, k) ==
    /\ worker[w].pc = "idle"
    /\ Selectable(k)
    /\ worker' = [worker EXCEPT ![w] = [IdleWorker EXCEPT !.pc = "selected", !.key = k,
                                                          !.page = job[k].page]]
    /\ UNCHANGED <<active, conn, job, databases, recovery, era, bounds>>

SetJob(k, status) == job' = [job EXCEPT ![k].status = status]

Rest(w) == worker' = [worker EXCEPT ![w] = IdleWorker]

\* A claim whose worker is gone: the database may exist.
Interrupted(k) == job[k].status = "processing" /\ ~job[k].leased

\* The job is leased, or settled since it was selected.
Skip(w) ==
    LET k == worker[w].key IN
    /\ worker[w].pc = "selected"
    /\ job[k].leased \/ job[k].status \notin {"pending", "processing"}
    /\ Rest(w)
    /\ UNCHANGED <<active, conn, job, databases, recovery, era, bounds>>

MarkUncertain(w) ==
    LET k == worker[w].key IN
    /\ worker[w].pc = "selected"
    /\ Interrupted(k)
    /\ SetJob(k, "uncertain")
    /\ conn' = IF Connected(k) THEN [conn EXCEPT !.status = "uncertain"] ELSE conn
    /\ Rest(w)
    /\ UNCHANGED <<active, databases, recovery, era, bounds>>

\* Faulty variant: an interrupted creation is started again.
ClaimableAgain(k) == job[k].status \in {"pending", "processing"} /\ ~job[k].leased

Claimable(k) == job[k].status = "pending" /\ ~job[k].leased

\* Faulty variant: the account may have been disabled.
WantedAnyway(k) == Connected(k)

Wanted(k) == active /\ Connected(k)

\* Nothing to do: the account was disabled or disconnected, or has a destination.
Drop(w) ==
    LET k == worker[w].key IN
    /\ worker[w].pc = "selected"
    /\ Claimable(k)
    /\ \/ ~Wanted(k) /\ SetJob(k, "cancelled")
       \/ Wanted(k) /\ conn.source # 0 /\ SetJob(k, "done")
    /\ Rest(w)
    /\ UNCHANGED <<active, conn, databases, recovery, era, bounds>>

Claim(w) ==
    LET k == worker[w].key IN
    /\ worker[w].pc = "selected"
    /\ Claimable(k)
    /\ Wanted(k) /\ conn.source = 0
    /\ job' = [job EXCEPT ![k] =
         [job[k] EXCEPT !.status = "processing", !.by = w, !.leased = TRUE, !.attempts = @ + 1]]
    /\ conn' = [conn EXCEPT !.status = "creating"]
    /\ worker' = [worker EXCEPT ![w] =
         [worker[w] EXCEPT !.pc = "calling", !.workspace = conn.workspace, !.era = era]]
    /\ UNCHANGED <<active, databases, recovery, era, bounds>>

Answered(w, answer, made) ==
    worker' = [worker EXCEPT ![w] =
      [worker[w] EXCEPT !.pc = "answered", !.answer = answer, !.made = made]]

\* Notion creates the database, in full or without telling its data source.
Create(w) ==
    /\ worker[w].pc = "calling"
    /\ worker[w].page = worker[w].workspace
    /\ databases' = Append(databases, [workspace |-> worker[w].workspace, era |-> worker[w].era])
    /\ \/ Answered(w, "created", Len(databases')) /\ UNCHANGED bounds
       \/ Fault /\ Answered(w, "unknown", 0)
    /\ UNCHANGED <<active, conn, job, recovery, era>>

\* Nothing is created: the page is not the credential's, or the request failed.
Refuse(w) ==
    /\ worker[w].pc = "calling"
    /\ \/ worker[w].page # worker[w].workspace /\ Answered(w, "rejected", 0) /\ UNCHANGED bounds
       \/ Fault /\ \E answer \in {"rejected", "unknown"} : Answered(w, answer, 0)
    /\ UNCHANGED <<active, conn, job, databases, recovery, era>>

\* The claim is still the worker's.
Owns(w) == LET k == worker[w].key IN job[k].status = "processing" /\ job[k].by = w

\* Faulty variant: a request without an answer counts as refused.
OutcomeFailed(answer) == "failed"

\* Only an answer that says so means that nothing was created.
Outcome(answer) == IF answer = "rejected" THEN "failed" ELSE "uncertain"

\* A destination also starts the baseline of the account's matches.
Finalise(w) ==
    LET k == worker[w].key
        settled(status) ==
          job' = [job EXCEPT ![k] = [job[k] EXCEPT !.status = status, !.leased = FALSE]]
    IN
    /\ worker[w].pc = "answered"
    /\ IF ~Owns(w)
         THEN UNCHANGED <<conn, job>>
         ELSE \/ /\ ~Wanted(k)
                 /\ settled("cancelled") /\ UNCHANGED conn
              \/ /\ Wanted(k) /\ worker[w].answer = "created"
                 /\ settled("done")
                 /\ conn' = [conn EXCEPT !.source = worker[w].made, !.status = "ready"]
              \/ /\ Wanted(k) /\ worker[w].answer # "created"
                 /\ settled(Outcome(worker[w].answer))
                 /\ conn' = [conn EXCEPT !.status = Outcome(worker[w].answer)]
    /\ Rest(w)
    /\ UNCHANGED <<active, databases, recovery, era, bounds>>

\* Faulty variant: one attempt too many.
ExhaustedLate(n) == n > MaxAttempts

Exhausted(n) == n >= MaxAttempts

\* A database error outside a claim, or while the answer is recorded: only a job
\* that waits is charged, and loses its lease.
Fail(w) ==
    LET k == worker[w].key IN
    /\ Fault
    /\ worker[w].pc \in {"selected", "answered"}
    /\ job' = IF job[k].status # "pending" THEN job
              ELSE [job EXCEPT ![k] =
                      [job[k] EXCEPT !.attempts = @ + 1, !.leased = FALSE,
                         !.status = IF Exhausted(job[k].attempts + 1) THEN "failed" ELSE "pending"]]
    /\ Rest(w)
    /\ UNCHANGED <<active, conn, databases, recovery, era>>

Crash(w) ==
    /\ Fault
    /\ worker[w].pc \in {"calling", "answered"}
    /\ Rest(w)
    /\ UNCHANGED <<active, conn, job, databases, recovery, era>>

\* Five minutes after the claim, whether its worker still runs or not.
LeaseLapses(k) ==
    /\ job[k].leased
    /\ job' = [job EXCEPT ![k].leased = FALSE]
    /\ UNCHANGED <<active, conn, databases, worker, recovery, era, bounds>>

----------------------------------------------------------------------------
Request ==
    \/ \E s \in Workspaces : Connect(s) \/ Move(s)
    \/ Renew \/ Ask \/ Disconnect \/ Toggle
    \/ \E k \in Ids : AdminRetry(k) \/ Purge(k)
    \/ StartRecovery \/ AbandonRecovery
    \/ \E d \in DOMAIN databases : FinishRecovery(d)

Works(w) ==
    \/ \E k \in Ids : Select(w, k)
    \/ Skip(w) \/ MarkUncertain(w) \/ Drop(w) \/ Claim(w)
    \/ Create(w) \/ Refuse(w) \/ Finalise(w)

Next ==
    \/ Request
    \/ \E w \in Workers : Works(w) \/ Fail(w) \/ Crash(w)
    \/ \E k \in Ids : LeaseLapses(k)

Spec == Init /\ [][Next]_vars

\* The setup command runs every ten minutes and ends; time passes.
FairSpec ==
    /\ Spec
    /\ \A w \in Workers : WF_vars(Works(w))
    /\ \A k \in Ids : WF_vars(LeaseLapses(k))

----------------------------------------------------------------------------
(* Properties. *)

\* "An uncertain creation is not repeated automatically", nor by asking again: while
\* an account stays connected to a workspace, one database at most is created.
CreatedOnce ==
    \A i, j \in DOMAIN databases :
      databases[i].era # 0 /\ databases[i].era = databases[j].era => i = j

\* "Repeated setup submissions reuse the existing destination": no page offers to
\* create a database while one was created in this workspace and is not attached.
NoneForgotten ==
    MayAsk => \A d \in DOMAIN databases : databases[d].era # era

\* An account that was disabled, while Notion was called or before, is given no
\* destination.
DisabledGetsNone == [][~active => conn'.source \in {conn.source, 0}]_vars

\* "A changed workspace resets local destination references": the destination is
\* in the workspace the account is connected to.
DestinationInWorkspace ==
    conn.source # 0 => databases[conn.source].workspace = conn.workspace

\* A creation asked for ends in a destination or in a state that says more, unless
\* the connection goes, or the job is cancelled (the account was disabled; a purge
\* removes the row later) or fails on the database.
SetupSettles ==
    \A k \in Ids :
      Connected(k) /\ conn.status \in {"pending", "creating"} ~>
        \/ ~Connected(k) \/ conn.status \notin {"pending", "creating"}
        \/ job[k].status \in {"cancelled", "failed", "absent"}
=============================================================================
