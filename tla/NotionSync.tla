------------------------------ MODULE NotionSync ------------------------------
(****************************************************************************)
(* The personal Notion pages of one subscriber (notion.py and match_batch): *)
(* a row of notion_syncs per offer says whether the page of the offer, in   *)
(* the subscriber's database, shows what was collected.  Matching creates   *)
(* rows and puts them back in the queue when an offer changed; a worker     *)
(* claims a row, looks the page up by URL unless it knows its id, patches   *)
(* or creates it, and records the outcome on the row if it still holds it.  *)
(* Meanwhile offers change, the account is disabled and enabled, Notion is  *)
(* disconnected or connected to another workspace, and calls fail.          *)
(*                                                                          *)
(* There is no claim column: a claim is the instant put in next_attempt_at, *)
(* which requeueing keeps and which no other claim shares; it is            *)
(* represented by the worker.  One transaction is one action.               *)
(****************************************************************************)
EXTENDS Integers, Sequences, FiniteSets

CONSTANTS
    Offers,
    Workers,
    Now, Later,   \* next_attempt_at is null or past; lies ahead
    MaxAttempts,  \* five in the code
    MaxSources,   \* bound on the databases the subscriber connects
    MaxEdits,     \* bound on the environment's transactions
    MaxFaults     \* bound on failed calls and crashes

ASSUME NotionSyncAssumption ==
    /\ Offers # {}
    /\ {Now, Later} \cap Workers = {} /\ Now # Later
    /\ MaxAttempts \in Nat \ {0} /\ MaxSources \in Nat \ {0}
    /\ MaxEdits \in Nat /\ MaxFaults \in Nat

VARIABLES
    active,    \* the account is enabled
    source,    \* the connected database, 0 for none
    version,   \* the metadata of each offer, as collected
    fitting,   \* the offers that are open and match the preference
    updates,   \* the offers whose match job, with 'updated', is outstanding
    baseline,  \* the user's match job is outstanding
    sync,      \* notion_syncs
    pages,     \* Notion: the pages made for each offer, whatever their database
    worker,    \* the processes that run sync-notion
    skipped,   \* ghost: the offers with a change that matching passed over
    replaced,  \* ghost: a recovery replaced the database of this connection
    edits,
    faults

account == <<active, source>>
offers == <<version, fitting>>
jobs == <<updates, baseline>>
ghosts == <<skipped, replaced>>
vars == <<account, offers, jobs, sync, pages, worker, ghosts, edits, faults>>

Sources == 1..MaxSources
Versions == 0..MaxEdits

----------------------------------------------------------------------------
(* Types. *)

Row == [status   : {"absent", "pending", "processing", "synced", "failed", "cancelled"},
        attempts : 0..MaxAttempts,
        page     : Nat,                      \* notion_page_id, 0 for null
        next     : Workers \cup {Now, Later}]  \* next_attempt_at; a worker's lease

\* A page is known by its place in the sequence: Notion numbers them once.
Page == [source : Sources, shows : Versions]

\* What a worker read when it claimed its row, and what the call answered.
WorkerRow == [pc      : {"idle", "lookup", "write", "answered"},
              offer   : Offers,
              source  : Sources,
              page    : Nat,                     \* 0 until it is known
              version : Versions,
              answer  : {"ok", "error", "InvalidToken"}]

TypeOK ==
    /\ active \in BOOLEAN
    /\ source \in 0..MaxSources
    /\ version \in [Offers -> Versions] /\ fitting \in SUBSET Offers
    /\ updates \in SUBSET Offers /\ baseline \in BOOLEAN
    /\ sync \in [Offers -> Row]
    /\ pages \in [Offers -> Seq(Page)]
    /\ worker \in [Workers -> WorkerRow]
    /\ skipped \in SUBSET Offers /\ replaced \in BOOLEAN
    /\ edits \in 0..MaxEdits /\ faults \in 0..MaxFaults

AbsentRow == [status |-> "absent", attempts |-> 0, page |-> 0, next |-> Now]
NewRow == [AbsentRow EXCEPT !.status = "pending"]

IdleWorker == [pc |-> "idle", offer |-> CHOOSE o \in Offers : TRUE, source |-> 1, page |-> 0,
               version |-> 0, answer |-> "ok"]

\* A subscriber whose database was just attached: matching is asked to fill it.
Init ==
    /\ active = TRUE /\ source = 1
    /\ version = [o \in Offers |-> 0] /\ fitting = Offers
    /\ updates = {} /\ baseline = TRUE
    /\ sync = [o \in Offers |-> AbsentRow]
    /\ pages = [o \in Offers |-> <<>>]
    /\ worker = [w \in Workers |-> IdleWorker]
    /\ skipped = {} /\ replaced = FALSE
    /\ edits = 0 /\ faults = 0

----------------------------------------------------------------------------
(* Matching. *)

MayEdit == edits < MaxEdits /\ edits' = edits + 1
MayFail == faults < MaxFaults /\ faults' = faults + 1

\* scrape_all: new metadata, which may close the offer or open it again, and
\* the request to match it, in one transaction.
Collect(o, open) ==
    /\ MayEdit
    /\ version' = [version EXCEPT ![o] = @ + 1]
    /\ fitting' = IF open THEN fitting \cup {o} ELSE fitting \ {o}
    /\ updates' = updates \cup {o}
    /\ UNCHANGED <<account, baseline, sync, pages, worker, ghosts, faults>>

\* POST /preferences/activate: filters that accept other offers.
Activate(fits) ==
    /\ MayEdit
    /\ active /\ fits # fitting
    /\ fitting' = fits
    /\ baseline' = TRUE
    /\ UNCHANGED <<account, version, updates, sync, pages, worker, ghosts, faults>>

\* Faulty variant: a row under way is left to its worker.
RequeuedIdle(r) ==
    IF r.status = "absent" THEN NewRow
    ELSE IF r.status = "processing" THEN r
    ELSE [r EXCEPT !.status = "pending", !.attempts = 0]

\* What the match job of an updated offer makes of the row: a claim is revoked by
\* the status alone, and next_attempt_at stays, lease or retry.
Requeued(r) ==
    IF r.status = "absent" THEN NewRow
    ELSE [r EXCEPT !.status = "pending", !.attempts = 0]

\* The match job of an offer: it passes over disabled users and offers that are
\* closed or do not match, and has no row to write without a database.
MatchOffer(o) ==
    /\ o \in updates /\ updates' = updates \ {o}
    /\ IF active /\ o \in fitting /\ source # 0
         THEN sync' = [sync EXCEPT ![o] = Requeued(@)] /\ UNCHANGED skipped
         ELSE /\ skipped' = IF sync[o].status = "absent" THEN skipped ELSE skipped \cup {o}
              /\ UNCHANGED sync
    /\ UNCHANGED <<account, offers, baseline, pages, worker, replaced, edits, faults>>

\* The match job of the user creates rows and leaves the existing ones alone.
MatchUser ==
    /\ baseline /\ baseline' = FALSE
    /\ sync' = IF active /\ source # 0
                 THEN [o \in Offers |-> IF o \in fitting /\ sync[o].status = "absent"
                                          THEN NewRow ELSE sync[o]]
                 ELSE sync
    /\ UNCHANGED <<account, offers, updates, pages, worker, ghosts, edits, faults>>

----------------------------------------------------------------------------
(* The account and its connection. *)

\* Faulty variant: a page under way is left to its worker.
DisablePending ==
    /\ MayEdit
    /\ active /\ active' = FALSE
    /\ sync' = [o \in Offers |-> IF sync[o].status \in {"pending", "failed"}
                                   THEN [sync[o] EXCEPT !.status = "cancelled"] ELSE sync[o]]
    /\ UNCHANGED <<source, offers, jobs, pages, worker, ghosts, faults>>

\* POST /admin/users/{id}/toggle, with the user locked.
Disable ==
    /\ MayEdit
    /\ active /\ active' = FALSE
    /\ sync' = [o \in Offers |-> IF sync[o].status \in {"pending", "processing", "failed"}
                                   THEN [sync[o] EXCEPT !.status = "cancelled"] ELSE sync[o]]
    /\ UNCHANGED <<source, offers, jobs, pages, worker, ghosts, faults>>

\* The reactivation defers to the user's match job.
Enable ==
    /\ MayEdit
    /\ ~active /\ active' = TRUE
    /\ baseline' = TRUE
    /\ UNCHANGED <<source, offers, updates, sync, pages, worker, ghosts, faults>>

\* POST /notion/disconnect, or a connection to another workspace (save_connection):
\* the rows go, the pages stay.
Disconnect ==
    /\ MayEdit
    /\ active /\ source # 0
    /\ source' = 0
    /\ sync' = [o \in Offers |-> AbsentRow]
    /\ skipped' = {} /\ replaced' = FALSE
    /\ UNCHANGED <<active, offers, jobs, pages, worker, faults>>

\* The database a busy worker writes to: that of the page it knows, or the one
\* it was told to fill.
Target(w) ==
    IF worker[w].page = 0 THEN worker[w].source
    ELSE pages[worker[w].offer][worker[w].page].source

\* A database is created for a connection, or one that exists is attached by
\* POST /notion/setup/recover, which replaces a database without touching the
\* rows; assumed: by then no invocation still writes to it.
Attach(s) ==
    /\ MayEdit
    /\ active /\ source # s
    /\ \A w \in Workers : worker[w].pc # "idle" => Target(w) # s
    /\ source' = s
    /\ baseline' = TRUE
    /\ replaced' = (source # 0 \/ replaced)
    /\ UNCHANGED <<active, offers, updates, sync, pages, worker, skipped, faults>>

\* A failed row, tried again from the start.
Retried(r) ==
    IF r.status = "failed" THEN [r EXCEPT !.status = "pending", !.attempts = 0, !.next = Now]
    ELSE r

\* The same workspace is connected again: all failed rows.
Reconnect ==
    /\ MayEdit
    /\ active /\ source # 0
    /\ sync' = [o \in Offers |-> Retried(sync[o])]
    /\ UNCHANGED <<account, offers, jobs, pages, worker, ghosts, faults>>

\* admin_jobs.retry of one row.
AdminRetry(o) ==
    /\ MayEdit
    /\ sync[o].status = "failed"
    /\ sync' = [sync EXCEPT ![o] = Retried(@)]
    /\ UNCHANGED <<account, offers, jobs, pages, worker, ghosts, faults>>

\* maintenance.purge: thirty days after a page was written its row is deleted.
Purge(o) ==
    /\ MayEdit
    /\ sync[o].status = "synced"
    /\ sync' = [sync EXCEPT ![o] = AbsentRow]
    /\ UNCHANGED <<account, offers, jobs, pages, worker, ghosts, faults>>

----------------------------------------------------------------------------
(* The workers. *)

\* Faulty variant: a page whose worker died stays with it.
AvailablePending(o) == sync[o].status = "pending" /\ sync[o].next = Now

Available(o) == sync[o].status \in {"pending", "processing"} /\ sync[o].next = Now

Exhausted(o) == sync[o].attempts >= MaxAttempts

\* Faulty variant: the status alone, which a row claimed again shares.
HoldsAny(w) == sync[worker[w].offer].status = "processing"

\* The row still carries the lease of the worker's claim.
Holds(w) == sync[worker[w].offer].status = "processing" /\ sync[worker[w].offer].next = w

\* The claim of _process_notion_job, under the locks of the user and of the row,
\* and what is read before they are released; the token may be unreadable.
Claim(w, o, readable) ==
    /\ worker[w].pc = "idle" /\ Available(o)
    /\ active /\ ~Exhausted(o) /\ source # 0
    /\ sync' = [sync EXCEPT ![o].status = "processing", ![o].attempts = @ + 1, ![o].next = w]
    /\ worker' = [worker EXCEPT ![w] =
         [pc |-> IF ~readable THEN "answered" ELSE IF sync[o].page = 0 THEN "lookup" ELSE "write",
          offer |-> o, source |-> source, page |-> sync[o].page, version |-> version[o],
          answer |-> IF readable THEN "ok" ELSE "InvalidToken"]]
    /\ IF readable THEN UNCHANGED faults ELSE MayFail
    /\ skipped' = skipped \ {o}
    /\ UNCHANGED <<account, offers, jobs, pages, replaced, edits>>

\* A row found with no attempt left: its last worker died.
GiveUp(o) ==
    /\ Available(o) /\ active /\ Exhausted(o)
    /\ sync' = [sync EXCEPT ![o].status = "failed"]
    /\ UNCHANGED <<account, offers, jobs, pages, worker, ghosts, edits, faults>>

\* The pages the database has for the URL of the offer.
Found(w) ==
    {i \in DOMAIN pages[worker[w].offer] : pages[worker[w].offer][i].source = worker[w].source}

\* Faulty variant: without an id the page is created.
LookupNothing(w) ==
    /\ worker[w].pc = "lookup"
    /\ worker' = [worker EXCEPT ![w].pc = "write"]
    /\ UNCHANGED <<account, offers, jobs, sync, pages, ghosts, edits, faults>>

\* The database is queried; of several pages one is returned.
Lookup(w) ==
    /\ worker[w].pc = "lookup"
    /\ \E i \in IF Found(w) = {} THEN {0} ELSE Found(w) :
         worker' = [worker EXCEPT ![w].pc = "write", ![w].page = i]
    /\ UNCHANGED <<account, offers, jobs, sync, pages, ghosts, edits, faults>>

\* The pages of the offer once the page is patched, or created.
Written(w) ==
    LET known == pages[worker[w].offer]
        i == worker[w].page
    IN  IF i = 0 THEN Append(known, [source |-> worker[w].source, shows |-> worker[w].version])
        ELSE [known EXCEPT ![i].shows = worker[w].version]

Write(w) ==
    /\ worker[w].pc = "write"
    /\ pages' = [pages EXCEPT ![worker[w].offer] = Written(w)]
    /\ worker' = [worker EXCEPT ![w].pc = "answered", ![w].answer = "ok",
                                ![w].page = IF @ = 0 THEN Len(Written(w)) ELSE @]
    /\ UNCHANGED <<account, offers, jobs, sync, ghosts, edits, faults>>

\* A call fails: refused, out of budget, or done with the answer lost.
CallFails(w, takes) ==
    /\ MayFail
    /\ worker[w].pc \in {"lookup", "write"}
    /\ takes => worker[w].pc = "write"
    /\ pages' = IF takes THEN [pages EXCEPT ![worker[w].offer] = Written(w)] ELSE pages
    /\ worker' = [worker EXCEPT ![w].pc = "answered", ![w].answer = "error"]
    /\ UNCHANGED <<account, offers, jobs, sync, ghosts, edits>>

\* What the answer makes of a row the worker still holds.  A connection that was
\* deleted took its rows with it.
Outcome(w, r) ==
    IF ~active THEN [r EXCEPT !.status = "cancelled"]
    ELSE IF worker[w].answer = "ok"
      THEN [r EXCEPT !.status = "synced", !.page = worker[w].page, !.next = Now,
                     !.attempts = IF @ = 0 THEN 0 ELSE @ - 1]
    ELSE [r EXCEPT !.next = Later,
                   !.status = IF r.attempts >= MaxAttempts \/ worker[w].answer = "InvalidToken"
                                THEN "failed" ELSE "pending"]

Finalise(w) ==
    /\ worker[w].pc = "answered"
    /\ sync' = IF Holds(w) THEN [sync EXCEPT ![worker[w].offer] = Outcome(w, @)] ELSE sync
    /\ worker' = [worker EXCEPT ![w] = IdleWorker]
    /\ UNCHANGED <<account, offers, jobs, pages, ghosts, edits, faults>>

\* The process is killed, or its last transaction fails.
Crash(w) ==
    /\ MayFail
    /\ worker[w].pc # "idle"
    /\ worker' = [worker EXCEPT ![w] = IdleWorker]
    /\ UNCHANGED <<account, offers, jobs, sync, pages, ghosts, edits>>

\* Five minutes pass since a claim.  An invocation works for eighty seconds.
LeaseExpires(o) ==
    /\ sync[o].next \in Workers
    /\ LET w == sync[o].next IN ~(worker[w].pc # "idle" /\ worker[w].offer = o)
    /\ sync' = [sync EXCEPT ![o].next = Now]
    /\ UNCHANGED <<account, offers, jobs, pages, worker, ghosts, edits, faults>>

RetryDue(o) ==
    /\ sync[o].next = Later
    /\ sync' = [sync EXCEPT ![o].next = Now]
    /\ UNCHANGED <<account, offers, jobs, pages, worker, ghosts, edits, faults>>

----------------------------------------------------------------------------

Environment ==
    \/ \E o \in Offers : (\E open \in BOOLEAN : Collect(o, open)) \/ AdminRetry(o) \/ Purge(o)
    \/ \E fits \in SUBSET Offers : Activate(fits)
    \/ \E s \in Sources : Attach(s)
    \/ Disable \/ Enable \/ Disconnect \/ Reconnect

Matching == MatchUser \/ \E o \in Offers : MatchOffer(o)

TimePasses(o) == LeaseExpires(o) \/ RetryDue(o)

WorkerStep(w) ==
    \/ \E o \in Offers : Claim(w, o, TRUE)
    \/ Lookup(w) \/ Write(w) \/ Finalise(w)

Trouble(w) ==
    \/ \E o \in Offers : Claim(w, o, FALSE)
    \/ \E takes \in BOOLEAN : CallFails(w, takes)
    \/ Crash(w)

Next ==
    \/ Environment \/ Matching
    \/ \E o \in Offers : TimePasses(o) \/ GiveUp(o)
    \/ \E w \in Workers : WorkerStep(w) \/ Trouble(w)

Spec == Init /\ [][Next]_vars

\* The schedule runs the matching and the page commands again and again, each
\* page command takes the rows in order within its budget, and time passes.
Fairness ==
    /\ WF_vars(Matching)
    /\ \A o \in Offers : WF_vars(TimePasses(o)) /\ WF_vars(GiveUp(o))
    /\ \A w \in Workers : WF_vars(WorkerStep(w))

FairSpec == Spec /\ Fairness

----------------------------------------------------------------------------
(* Properties. *)

\* A page that was created is found again: however answers, workers, claims and
\* connections are lost, a database never has two pages of one offer.
OnePage ==
    \A o \in Offers : \A i, j \in DOMAIN pages[o] :
      pages[o][i].source = pages[o][j].source => i = j

\* "Requeue existing personal Notion pages when upstream metadata changes": a row
\* recorded as synced names a page that shows what was collected last, unless its
\* match job is outstanding or passed over it; the page is in the connected
\* database, unless a recovery replaced that.
SyncedIsCurrent ==
    \A o \in Offers :
      sync[o].status = "synced" /\ o \notin updates \cup skipped =>
        /\ sync[o].page \in DOMAIN pages[o]
        /\ pages[o][sync[o].page].shows = version[o]
        /\ replaced \/ pages[o][sync[o].page].source = source

\* A disabled account has no page waiting, under way or to be retried, whatever
\* was in flight when it was disabled.
DisabledHasNoPages ==
    ~active => \A o \in Offers : sync[o].status \in {"absent", "synced", "cancelled"}

\* Every page that waits is written, fails for good or is cancelled, whichever
\* worker died with it and whatever retry or lease it was requeued with.
PagesSettle ==
    \A o \in Offers :
      sync[o].status \in {"pending", "processing"} ~>
        sync[o].status \notin {"pending", "processing"}

\* The rows are an outbox: a page is recorded as synced only by the worker that
\* holds its lease, after a call that was accepted.
Leaseholder == [o \in Offers |-> IF sync[o].status = "processing" /\ sync[o].next \in Workers
                                   THEN sync[o].next ELSE Now]
InHand == [w \in Workers |-> IF worker[w].pc = "idle" THEN {} ELSE {worker[w].offer}]
Accepted == {w \in Workers : worker[w].pc = "answered" /\ worker[w].answer = "ok"}
Synced == {o \in Offers : sync[o].status = "synced"}

Queue == INSTANCE Outbox WITH Rows <- Offers, Nobody <- Now, holder <- Leaseholder,
                              work <- InHand, answered <- Accepted, done <- Synced

OutboxSpec == Queue!Spec
=============================================================================
