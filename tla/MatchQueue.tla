------------------------------ MODULE MatchQueue ------------------------------
(****************************************************************************)
(* The matching queue of the platform (durable.py, kind 'match'): producers *)
(* that change offers, preferences and Notion destinations enqueue a job in *)
(* the same transaction, and workers page through users (match-offer jobs)  *)
(* or through deliveries and then offers (match-user jobs), recording the   *)
(* matches, queueing the alerts and the Notion pages.                       *)
(*                                                                          *)
(* One action is one database transaction.  A worker's claim, the reads of  *)
(* its batch and the commit of the batch are three actions: the collector   *)
(* and other workers run between them.  A worker that evaluated a batch     *)
(* holds the row locks of the batch's users until it commits, so that the   *)
(* transactions which lock a user wait for it.                              *)
(****************************************************************************)
EXTENDS DurableJobs, FiniteSets

CONSTANTS
    Users,          \* ids of the users, positive
    Offers,         \* ids an offer may get, positive
    Kinds,          \* what a preference can tell apart in an offer
    Ready,          \* users whose Notion destination is ready at the start
    Workers,
    NoKey,          \* a worker with no job in hand
    BatchSize,      \* items per batch; 100 in the code
    Producers,      \* the producers that run: see the guards below
    PreClaimErrors, \* TRUE: a worker's statements before its claim may fail
    LeaseOutlived,  \* TRUE: a lease may expire while its worker still runs
    MaxEdits,       \* bound on the producers' transactions
    MaxFaults       \* bound on errors and crashes

Keys == ({"offer"} \X Offers) \cup ({"user"} \X Users)

ASSUME MatchQueueAssumption ==
    /\ Users \subseteq Nat \ {0} /\ IsFiniteSet(Users)
    /\ Offers \subseteq Nat \ {0} /\ IsFiniteSet(Offers)
    /\ Ready \subseteq Users
    /\ BatchSize \in Nat \ {0} /\ Kinds # {}
    /\ NoKey \notin Keys
    /\ PreClaimErrors \in BOOLEAN /\ LeaseOutlived \in BOOLEAN
    /\ MaxEdits \in Nat /\ MaxFaults \in Nat

VARIABLES
    user,      \* users and preferences: is_active, preference status and scope
    known,     \* the offers first seen no later than the user's activated_at
    offer,     \* offers: state and the kind matching looks at
    matched,   \* user_offers: the offers matched with each user
    delivery,  \* deliveries: the alert of each user and offer
    dest,      \* the user's Notion connection has a data source
    sync,      \* notion_syncs; "stale" is a 'synced' row whose offer changed since
    job,       \* durable_jobs of kind 'match'
    worker,    \* the local state of each worker process
    edits,     \* producer transactions so far
    faults     \* errors and crashes so far

tables == <<user, known, offer, matched, delivery, dest, sync>>
vars == <<user, known, offer, matched, delivery, dest, sync, job, worker, edits, faults>>

----------------------------------------------------------------------------
(* Types. *)

UserRow == [active : BOOLEAN, status : {"draft", "active"}, scope : SUBSET Kinds]
OfferRow == [state : {"absent", "open", "closed"}, kind : Kinds]
AlertStatus == {"none", "pending", "cancelled", "sent"}
SyncStatus == {"none", "pending", "cancelled", "synced", "stale"}

\* The payload, cursor and token are read at the claim; "last" is the item the
\* batch ended at (0: empty), "hits" its pairs that passed every test, "held"
\* the users it locked.
WorkerRow == [pc      : {"idle", "selected", "claimed", "evaluated"},
              key     : Keys \cup {NoKey},
              token   : Token \cup {NoToken},
              cursor  : Nat,
              payload : Payload,
              last    : Nat,
              hits    : SUBSET (Users \X Offers),
              held    : SUBSET Users]

IdleWorker == [pc |-> "idle", key |-> NoKey, token |-> NoToken, cursor |-> 0,
               payload |-> NoPayload, last |-> 0, hits |-> {}, held |-> {}]

TypeOK ==
    /\ user \in [Users -> UserRow]
    /\ known \in [Users -> SUBSET Offers]
    /\ offer \in [Offers -> OfferRow]
    /\ matched \in [Users -> SUBSET Offers]
    /\ delivery \in [Users -> [Offers -> AlertStatus]]
    /\ dest \in [Users -> BOOLEAN]
    /\ sync \in [Users -> [Offers -> SyncStatus]]
    /\ job \in [Keys -> JobRow]
    /\ worker \in [Workers -> WorkerRow]
    /\ edits \in 0..MaxEdits
    /\ faults \in 0..MaxFaults

\* Nothing is queued: either no offer was ever collected, or the offers found
\* no activated preference to match.
Init ==
    /\ user \in [Users -> [active : {TRUE}, status : {"draft", "active"}, scope : {Kinds}]]
    /\ known = [u \in Users |-> {}]
    /\ offer \in [Offers -> [state : {"absent", "open"}, kind : {CHOOSE x \in Kinds : TRUE}]]
    /\ \A o \in Offers : offer[o].state = "open" =>
         /\ \A i \in Offers : i < o => offer[i].state = "open"
         /\ \A u \in Users : user[u].status = "draft"
    /\ matched = [u \in Users |-> {}]
    /\ delivery = [u \in Users |-> [o \in Offers |-> "none"]]
    /\ dest = [u \in Users |-> u \in Ready]
    /\ sync = [u \in Users |-> [o \in Offers |-> "none"]]
    /\ job = [k \in Keys |-> AbsentJob]
    /\ worker = [w \in Workers |-> IdleWorker]
    /\ edits = 0
    /\ faults = 0

----------------------------------------------------------------------------
(* Eligibility, keys and batches. *)

\* offer_is_open and offer_matches.
Matches(u, o) == offer[o].state = "open" /\ offer[o].kind \in user[u].scope

\* The test of a pair in match_batch.
Relevant(u, o) == user[u].active /\ user[u].status = "active" /\ Matches(u, o)

OfferKey(o) == <<"offer", o>>
UserKey(u) == <<"user", u>>

\* A match-user job reconciles the deliveries of its user before it pages
\* through the offers.
Reconciling(k, p) == k[1] = "user" /\ p.reconcile /\ ~p.offers

Pair(k, i) == IF k[1] = "offer" THEN <<i, k[2]>> ELSE <<k[2], i>>

\* What a batch of job k pages through.
Items(k, p) ==
    IF k[1] = "offer" THEN {u \in Users : user[u].active}
    ELSE IF Reconciling(k, p) THEN {o \in Offers : delivery[k[2]][o] # "none"}
    ELSE {o \in Offers : offer[o].state # "absent"}

After(S, cursor) == {i \in S : i > cursor}

\* "ORDER BY id LIMIT BatchSize" of S ends at "last"; 0 when S is empty.
BatchEnds(S, last) ==
    IF S = {} THEN last = 0
    ELSE /\ last \in S
         /\ LET size == Cardinality({i \in S : i <= last})
            IN  size = IF Cardinality(S) < BatchSize THEN Cardinality(S) ELSE BatchSize

\* Faulty variant: a batch reads preferences without locking their users.
LockNobody(k, p, batch) == {}

\* The users whose rows a batch locks before it reads their preferences.
ToLock(k, p, batch) ==
    IF k[1] = "offer" THEN batch
    ELSE IF batch = {} /\ ~Reconciling(k, p) THEN {} ELSE {k[2]}

Locked(u) == \E w \in Workers : u \in worker[w].held

Running(w) == worker[w].pc \in {"claimed", "evaluated"}

\* Worker w runs the current generation of the job it claimed.
Current(w) == Running(w) /\ Owns(job[worker[w].key], worker[w].token)

TokensInUse == {job[k].token : k \in Keys} \cup {worker[w].token : w \in Workers}

\* new_token: tokens are only compared for equality, so any unused one will do.
FreshToken == CHOOSE t \in Token \ TokensInUse : TRUE

----------------------------------------------------------------------------
(* Producers.  Each commits its change and its job together. *)

MayEdit(producer) == producer \in Producers /\ edits < MaxEdits /\ edits' = edits + 1

ActivationPayload == [updated |-> FALSE, reconcile |-> TRUE, offers |-> FALSE]
BaselinePayload == [updated |-> FALSE, reconcile |-> FALSE, offers |-> FALSE]
OfferPayload(updated) == [updated |-> updated, reconcile |-> FALSE, offers |-> FALSE]

\* scrape_all: an offer seen for the first time.
CollectNew(o, kind) ==
    /\ MayEdit("new")
    /\ offer[o].state = "absent"
    /\ \A i \in Offers : i < o => offer[i].state # "absent"
    /\ offer' = [offer EXCEPT ![o] = [state |-> "open", kind |-> kind]]
    /\ job' = [job EXCEPT ![OfferKey(o)] = EnqueueMatch(@, OfferPayload(FALSE), FALSE)]
    /\ UNCHANGED <<user, known, matched, delivery, dest, sync, worker, faults>>

\* scrape_all: the revision of a known offer changed, it closed or it reopened.
CollectChange(o, state, kind) ==
    /\ MayEdit("change")
    /\ offer[o].state # "absent"
    /\ offer[o].state = "closed" => state = "open"
    /\ offer' = [offer EXCEPT ![o] = [state |-> state, kind |-> kind]]
    /\ sync' = [u \in Users |-> [sync[u] EXCEPT ![o] = IF @ = "synced" THEN "stale" ELSE @]]
    /\ job' = [job EXCEPT ![OfferKey(o)] = EnqueueMatch(@, OfferPayload(TRUE), TRUE)]
    /\ UNCHANGED <<user, known, matched, delivery, dest, worker, faults>>

\* activate_preference with defer, under the user lock its callers hold.
ActivatePreference(u, row) ==
    /\ user' = [user EXCEPT ![u] = row]
    /\ known' = [known EXCEPT ![u] = {o \in Offers : offer[o].state # "absent"}]
    /\ job' = [job EXCEPT ![UserKey(u)] = EnqueueMatch(@, ActivationPayload, FALSE)]

\* POST /preferences/activate.
Activate(u, scope) ==
    /\ MayEdit("activate")
    /\ ~Locked(u)
    /\ user[u].active
    /\ ActivatePreference(u, [active |-> TRUE, status |-> "active", scope |-> scope])
    /\ UNCHANGED <<offer, matched, delivery, dest, sync, worker, faults>>

\* POST /admin/users/{id}/toggle of an active account.
Deactivate(u) ==
    /\ MayEdit("toggle")
    /\ ~Locked(u)
    /\ user[u].active
    /\ user' = [user EXCEPT ![u].active = FALSE]
    /\ delivery' = [delivery EXCEPT ![u] =
         [o \in Offers |-> IF @[o] = "pending" THEN "cancelled" ELSE @[o]]]
    /\ sync' = [sync EXCEPT ![u] =
         [o \in Offers |-> IF @[o] = "pending" THEN "cancelled" ELSE @[o]]]
    /\ UNCHANGED <<known, offer, matched, dest, job, worker, faults>>

\* The same route for a disabled account, and POST /admin/invite for any.
Reactivate(u) ==
    /\ MayEdit("toggle")
    /\ ~Locked(u)
    /\ IF user[u].status = "active"
         THEN ActivatePreference(u, [user[u] EXCEPT !.active = TRUE])
         ELSE /\ user' = [user EXCEPT ![u].active = TRUE]
              /\ UNCHANGED <<known, job>>
    /\ UNCHANGED <<offer, matched, delivery, dest, sync, worker, faults>>

\* create_notion and notion_recover: the destination becomes ready.
NotionReady(u) ==
    /\ MayEdit("notion")
    /\ ~Locked(u)
    /\ user[u].active /\ ~dest[u]
    /\ dest' = [dest EXCEPT ![u] = TRUE]
    /\ job' = [job EXCEPT ![UserKey(u)] = EnqueueMatch(@, BaselinePayload, FALSE)]
    /\ UNCHANGED <<user, known, offer, matched, delivery, sync, worker, faults>>

\* POST /notion/disconnect.
NotionDisconnect(u) ==
    /\ MayEdit("disconnect")
    /\ ~Locked(u)
    /\ dest[u]
    /\ dest' = [dest EXCEPT ![u] = FALSE]
    /\ sync' = [sync EXCEPT ![u] = [o \in Offers |-> "none"]]
    /\ UNCHANGED <<user, known, offer, matched, delivery, job, worker, faults>>

\* admin_jobs.retry.
AdminRetry(k) ==
    /\ job[k].status = "failed"
    /\ job' = [job EXCEPT ![k] = RetryRow(@)]
    /\ UNCHANGED <<tables, worker, edits, faults>>

\* maintenance.purge: a job done for thirty days; no worker is that old.
PurgeJob(k) ==
    /\ "purge" \in Producers
    /\ job[k].status = "done"
    /\ \A w \in Workers : worker[w].key # k
    /\ job' = [job EXCEPT ![k] = AbsentJob]
    /\ UNCHANGED <<tables, worker, edits, faults>>

----------------------------------------------------------------------------
(* The queues fed by a match, as far as matching sees them. *)

\* The mail workers deliver or drop a pending alert under the user lock.
Mail(u, o) ==
    /\ ~Locked(u)
    /\ delivery[u][o] = "pending"
    /\ delivery' = [delivery EXCEPT ![u][o] = IF Relevant(u, o) THEN "sent" ELSE "cancelled"]
    /\ UNCHANGED <<user, known, offer, matched, dest, sync, job, worker, edits, faults>>

\* The Notion worker writes the page of a pending row.
SyncPage(u, o) ==
    /\ ~Locked(u)
    /\ sync[u][o] = "pending" /\ dest[u] /\ user[u].active
    /\ sync' = [sync EXCEPT ![u][o] = "synced"]
    /\ UNCHANGED <<user, known, offer, matched, delivery, dest, job, worker, edits, faults>>

----------------------------------------------------------------------------
(* Workers. *)

\* process_jobs reads the keys it will try.
Select(w, k) ==
    /\ worker[w].pc = "idle"
    /\ Selectable(job[k])
    /\ worker' = [worker EXCEPT ![w].pc = "selected", ![w].key = k]
    /\ UNCHANGED <<tables, job, edits, faults>>

Leave(w) == worker' = [worker EXCEPT ![w] = IdleWorker]

\* match_batch finds the row leased, finished or deleted since.
SkipJob(w) ==
    /\ worker[w].pc = "selected"
    /\ ~Claimable(job[worker[w].key])
    /\ Leave(w)
    /\ UNCHANGED <<tables, job, edits, faults>>

\* match_batch finds the attempts used up by interrupted claims.
ExhaustJob(w) ==
    LET k == worker[w].key IN
    /\ worker[w].pc = "selected"
    /\ Claimable(job[k])
    /\ ~HasAttempts(job[k])
    /\ job' = [job EXCEPT ![k] = ExhaustRow(@)]
    /\ Leave(w)
    /\ UNCHANGED <<tables, edits, faults>>

Claim(w) ==
    LET k == worker[w].key IN
    /\ worker[w].pc = "selected"
    /\ Claimable(job[k])
    /\ HasAttempts(job[k])
    /\ Token \ TokensInUse # {}
    /\ job' = [job EXCEPT ![k] = ClaimRow(@, FreshToken)]
    /\ worker' = [worker EXCEPT ![w] =
         [IdleWorker EXCEPT !.pc = "claimed", !.key = k, !.token = FreshToken,
                            !.cursor = job[k].cursor, !.payload = job[k].payload]]
    /\ UNCHANGED <<tables, edits, faults>>

\* The pairs of a batch that pass every test.
Hits(k, p, batch) ==
    {Pair(k, i) : i \in {i \in batch :
       LET u == Pair(k, i)[1]
           o == Pair(k, i)[2]
       IN  IF Reconciling(k, p) THEN Matches(u, o) ELSE Relevant(u, o)}}

\* The batch is read, its users locked and every pair tested.
Evaluate(w) ==
    LET k == worker[w].key
        p == worker[w].payload
        S == After(Items(k, p), worker[w].cursor)
    IN
    /\ worker[w].pc = "claimed"
    /\ \E last \in S \cup {0} :
         LET batch == {i \in S : i <= last}
             locks == ToLock(k, p, batch)
         IN
         /\ BatchEnds(S, last)
         /\ \A u \in locks : ~Locked(u)
         /\ worker' = [worker EXCEPT ![w] =
              [@ EXCEPT !.pc = "evaluated", !.last = last, !.held = locks,
                        !.hits = Hits(k, p, batch)]]
    /\ UNCHANGED <<tables, job, edits, faults>>

\* reconcile_delivery of the rows in the batch: an unsent row follows the
\* preference; sent history is kept.
Reconciled(w, u) ==
    [o \in Offers |->
       IF /\ worker[w].cursor < o /\ o <= worker[w].last
          /\ delivery[u][o] \in {"pending", "cancelled"}
         THEN IF <<u, o>> \in worker[w].hits THEN "pending" ELSE "cancelled"
         ELSE delivery[u][o]]

FinishReconcile(w) ==
    LET k == worker[w].key
        u == k[2]
    IN
    /\ worker[w].pc = "evaluated"
    /\ Reconciling(k, worker[w].payload)
    /\ delivery' = IF user[u].active
                     THEN [delivery EXCEPT ![u] = Reconciled(w, u)] ELSE delivery
    /\ job' = [job EXCEPT ![k] = FinishRow(@, worker[w].token, worker[w].last,
                                           OffersPhase(@, worker[w].payload))]
    /\ Leave(w)
    /\ UNCHANGED <<user, known, offer, matched, dest, sync, edits, faults>>

\* The commit of a matching batch.  The matches of a generation that was
\* replaced meanwhile are committed too; only its progress is not.
FinishMatch(w) ==
    LET k == worker[w].key
        p == worker[w].payload
        hit(u, o) == <<u, o>> \in worker[w].hits
    IN
    /\ worker[w].pc = "evaluated"
    /\ ~Reconciling(k, p)
    /\ matched' = [u \in Users |-> matched[u] \cup {o \in Offers : hit(u, o)}]
    /\ delivery' = [u \in Users |-> [o \in Offers |->
         IF hit(u, o) /\ o \notin matched[u] /\ o \notin known[u]
           THEN "pending" ELSE delivery[u][o]]]
    /\ sync' = [u \in Users |-> [o \in Offers |->
         IF hit(u, o) /\ dest[u] /\ (sync[u][o] = "none" \/ p.updated)
           THEN "pending" ELSE sync[u][o]]]
    /\ job' = [job EXCEPT ![k] = FinishRow(@, worker[w].token, worker[w].last, Completed(@))]
    /\ Leave(w)
    /\ UNCHANGED <<user, known, offer, dest, edits, faults>>

MayFail == faults < MaxFaults /\ faults' = faults + 1

\* An exception after the claim: the batch rolls back.
FailBatch(w) ==
    LET k == worker[w].key IN
    /\ MayFail
    /\ Running(w)
    /\ job' = [job EXCEPT ![k] = FailRow(@, worker[w].token)]
    /\ Leave(w)
    /\ UNCHANGED <<tables, edits>>

\* An exception before the claim, such as a lock timeout.
FailBeforeClaim(w) ==
    LET k == worker[w].key IN
    /\ MayFail
    /\ PreClaimErrors
    /\ worker[w].pc = "selected"
    /\ job' = [job EXCEPT ![k] = PreClaimFailRow(@)]
    /\ Leave(w)
    /\ UNCHANGED <<tables, edits>>

\* The process is killed: its transaction rolls back, its lease stays.
Crash(w) ==
    /\ MayFail
    /\ worker[w].pc # "idle"
    /\ Leave(w)
    /\ UNCHANGED <<tables, job, edits>>

\* Five minutes pass since the claim.  The hard timeout of a worker is 90 s.
LeaseExpires(k) ==
    /\ job[k].lease = "live"
    /\ LeaseOutlived \/ \A w \in Workers : ~(worker[w].key = k /\ worker[w].token = job[k].token)
    /\ job' = [job EXCEPT ![k].lease = "expired"]
    /\ UNCHANGED <<tables, worker, edits, faults>>

\* The retry instant of a deferred row arrives.
RetryDue(k) ==
    /\ job[k].deferred
    /\ job' = [job EXCEPT ![k].deferred = FALSE]
    /\ UNCHANGED <<tables, worker, edits, faults>>

----------------------------------------------------------------------------

Produce ==
    \/ \E o \in Offers, kind \in Kinds :
         CollectNew(o, kind) \/ \E state \in {"open", "closed"} : CollectChange(o, state, kind)
    \/ \E u \in Users :
         \/ \E scope \in SUBSET Kinds \ {{}} : Activate(u, scope)
         \/ Deactivate(u) \/ Reactivate(u) \/ NotionReady(u) \/ NotionDisconnect(u)
    \/ \E k \in Keys : AdminRetry(k) \/ PurgeJob(k)

Downstream == \E u \in Users, o \in Offers : Mail(u, o) \/ SyncPage(u, o)

WorkerStep(w) ==
    \/ \E k \in Keys : Select(w, k)
    \/ SkipJob(w) \/ ExhaustJob(w) \/ Claim(w)
    \/ Evaluate(w) \/ FinishReconcile(w) \/ FinishMatch(w)

Trouble == \E w \in Workers : FailBatch(w) \/ FailBeforeClaim(w) \/ Crash(w)

TimePasses == \E k \in Keys : LeaseExpires(k) \/ RetryDue(k)

Next == Produce \/ Downstream \/ (\E w \in Workers : WorkerStep(w)) \/ Trouble \/ TimePasses

Spec == Init /\ [][Next]_vars

\* Each worker is run again and again by its schedule, and time passes.
Fairness == /\ \A w \in Workers : WF_vars(WorkerStep(w))
            /\ \A k \in Keys : WF_vars(LeaseExpires(k)) /\ WF_vars(RetryDue(k))

FairSpec == Spec /\ Fairness

----------------------------------------------------------------------------
(* Properties. *)

Settled(k) == job[k].status \in {"absent", "done"}

\* No match is lost: when neither the job of an offer nor the job of a user has
\* work left, every open offer that fits the user's preference is recorded for
\* the user, whatever replaced generations, crashes and retries did before.
NoMissedMatch ==
    \A u \in Users, o \in Offers :
      Relevant(u, o) /\ Settled(OfferKey(o)) /\ Settled(UserKey(u)) => o \in matched[u]

\* Changed metadata is never left unsent: a new generation carries 'updated' even
\* when it replaces one that was queued for a new offer, so that a Notion page
\* written before the change is queued again.  It is checked on instances where
\* a preference accepts every kind and accounts stay enabled: a change made while
\* the offer fits nobody, or while the account is disabled, is not remembered by
\* the code.  Nor does the code promise that a page exists: a destination that
\* is disconnected and restored between two batches of its baseline is given the
\* pages of the remaining offers only.
UpdateReachesNotion ==
    \A u \in Users, o \in Offers :
      Relevant(u, o) /\ dest[u] /\ Settled(OfferKey(o)) /\ Settled(UserKey(u))
        => sync[u][o] # "stale"

\* The attempts of a waiting row are never used up, so that it can still be
\* claimed, and it reports an error only while a failed attempt counts against it:
\* a successful batch clears both ("the scheduler reports a healthy, in-progress
\* batch as an error forever" otherwise).
AttemptsAreSound ==
    \A k \in Keys :
      /\ job[k].status = "pending" => job[k].attempts < MaxAttempts
      /\ job[k].err => job[k].attempts > 0

\* A match is recorded, and its alert queued, only for an account that is
\* active under an activated preference at that commit, also when the batch
\* was read before the account changed.
MatchedWhileActive ==
    [][\A u \in Users : matched'[u] # matched[u] => user[u].active /\ user[u].status = "active"]_vars

\* "its exception must not add attempts or retry state to the new job": backoff
\* is charged to a row only by a worker that owns its current generation.
BackoffChargedToOwner ==
    [][\A k \in Keys : job'[k].deferred /\ ~job[k].deferred =>
         \E w \in Workers : worker[w].key = k /\ Current(w)]_vars

\* "the replacement cannot start concurrently with this generation": one worker
\* at a time runs a job, also after a producer replaced what it runs.
OneGenerationRuns ==
    \A v, w \in Workers :
      v # w /\ Running(v) /\ Running(w) => worker[v].key # worker[w].key

\* Why no match is lost.  A job still has item i ahead of it: it is not settled,
\* it will reconcile first or stands before i, and the worker that runs its
\* current generation, if any, has not read past i.
Evaluated(w) == worker[w].pc = "evaluated" /\ ~Reconciling(worker[w].key, worker[w].payload)

PassedBy(k, i) ==
    \E w \in Workers : /\ Current(w) /\ Evaluated(w) /\ worker[w].key = k
                       /\ worker[w].last = 0 \/ i <= worker[w].last

Ahead(k, i) ==
    /\ job[k].status \in {"pending", "processing", "failed"}
    /\ Reconciling(k, job[k].payload) \/ job[k].cursor < i
    /\ ~PassedBy(k, i)

InHand(u, o) == \E w \in Workers : Current(w) /\ Evaluated(w) /\ <<u, o>> \in worker[w].hits

\* Every match is recorded, in the hands of the worker that runs a current
\* generation, or still ahead of the offer's job or of the user's.
EveryMatchCovered ==
    \A u \in Users, o \in Offers : Relevant(u, o) =>
      o \in matched[u] \/ InHand(u, o) \/ Ahead(OfferKey(o), u) \/ Ahead(UserKey(u), o)

\* Every waiting job is finished, fails for good or is replaced and finished.
Drains == \A k \in Keys : job[k].status = "pending" ~> job[k].status \in {"done", "failed"}

\* "Restoring filters or reactivating an account resumes matching unsent work":
\* once a user's job is done, no unsent alert that fits stays cancelled.
ResumesUnsent ==
    \A u \in Users, o \in Offers :
      Relevant(u, o) /\ Settled(UserKey(u)) => delivery[u][o] # "cancelled"
=============================================================================
