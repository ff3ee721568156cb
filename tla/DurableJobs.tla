----------------------------- MODULE DurableJobs -----------------------------
(****************************************************************************)
(* The row of a durable job (models.py, DurableJob) and what each database  *)
(* transaction of durable.py, admin_jobs.py and maintenance.py does to it,  *)
(* as operators from the row a transaction locks to the row it commits.     *)
(*                                                                          *)
(* A lease is "none" when lease_until is null, "live" while it lies in the  *)
(* future and "expired" after.  next_attempt_at is the flag "deferred": a   *)
(* retry instant that has not come yet.  last_error is the flag "err".      *)
(* The payload keeps what the handlers branch on: "updated", "reconcile"    *)
(* and "offers" (phase = 'offers').                                         *)
(****************************************************************************)
EXTENDS Integers

CONSTANTS
    Token,        \* claim tokens (security.new_token), each unique while anyone holds it
    NoToken,      \* lease_token is null
    MaxAttempts   \* five in the code

ASSUME DurableJobsAssumption ==
    /\ MaxAttempts \in Nat \ {0}
    /\ NoToken \notin Token

JobStatus == {"absent", "pending", "processing", "done", "failed"}

Payload == [updated : BOOLEAN, reconcile : BOOLEAN, offers : BOOLEAN]

JobRow == [status   : JobStatus,
           payload  : Payload,
           cursor   : Nat,
           attempts : 0..MaxAttempts,
           token    : Token \cup {NoToken},
           lease    : {"none", "live", "expired"},
           deferred : BOOLEAN,
           err      : BOOLEAN]

NoPayload == [updated |-> FALSE, reconcile |-> FALSE, offers |-> FALSE]

\* A key with no row in durable_jobs.
AbsentJob == [status |-> "absent", payload |-> NoPayload, cursor |-> 0,
              attempts |-> 0, token |-> NoToken, lease |-> "none",
              deferred |-> FALSE, err |-> FALSE]

Open(j) == j.status \in {"pending", "processing"}

----------------------------------------------------------------------------
(* Producers. *)

\* Faulty variants: the restart also drops the lease of the running generation;
\* the restart keeps the payload, or the cursor, of the generation it replaces.
EnqueueDropsLease(j, p, supersede) ==
    [j EXCEPT !.status = "pending", !.cursor = 0, !.attempts = 0, !.err = FALSE,
              !.deferred = FALSE, !.payload = p, !.lease = "none"]

EnqueueKeepsPayload(j, p, supersede) ==
    [j EXCEPT !.status = "pending", !.cursor = 0, !.attempts = 0, !.err = FALSE,
              !.deferred = FALSE, !.payload = IF j.status = "absent" THEN p ELSE @]

EnqueueKeepsCursor(j, p, supersede) ==
    [j EXCEPT !.status = "pending", !.attempts = 0, !.err = FALSE, !.deferred = FALSE,
              !.payload = p]

\* enqueue_job for kind 'match': an identical pending request is left alone
\* unless it supersedes; any other row restarts as a new generation that keeps
\* an unprocessed 'updated'.  Neither touches the token or the lease of a
\* generation that is still running.
EnqueueMatch(j, p, supersede) ==
    IF j.status = "pending" /\ ~supersede /\ j.payload = p
      THEN j
      ELSE [j EXCEPT !.status = "pending", !.cursor = 0, !.attempts = 0,
                     !.err = FALSE, !.deferred = FALSE,
                     !.payload = [p EXCEPT !.updated =
                                    p.updated \/ (Open(j) /\ j.payload.updated)]]

\* admin_jobs.retry of a failed row.
RetryRow(j) == [j EXCEPT !.status = "pending", !.attempts = 0, !.err = FALSE,
                         !.deferred = FALSE, !.lease = "none", !.token = NoToken]

----------------------------------------------------------------------------
(* Workers. *)

\* Faulty variant: expired leases are not taken over.
SelectableUnleased(j) == Open(j) /\ j.lease = "none" /\ ~j.deferred

\* The filter of process_jobs.
Selectable(j) == Open(j) /\ j.lease # "live" /\ ~j.deferred

\* The test match_batch repeats under the row lock: not the retry instant.
Claimable(j) == Open(j) /\ j.lease # "live"

HasAttempts(j) == j.attempts < MaxAttempts

\* The attempts of the row are used up: no claim, the row fails.
ExhaustRow(j) == [j EXCEPT !.status = "failed", !.err = TRUE]

ClaimRow(j, t) == [j EXCEPT !.status = "processing", !.token = t,
                            !.lease = "live", !.attempts = @ + 1]

\* Faulty variant: the fence forgets the token.
OwnsByStatus(j, t) == j.status = "processing"

\* The worker that claimed token t still owns the row's current generation.
Owns(j, t) == j.status = "processing" /\ j.token = t

\* Faulty variant: a successful batch keeps the attempts.
ProgressKeepsAttempts(j) ==
    [j EXCEPT !.status = "pending", !.lease = "none", !.err = FALSE, !.deferred = FALSE]

\* What every successful batch commits, besides the place it reached.
Progress(j) == [j EXCEPT !.status = "pending", !.lease = "none", !.attempts = 0,
                         !.err = FALSE, !.deferred = FALSE]

\* A generation that was replaced while its batch ran only gives its claim back.
Release(j) == [j EXCEPT !.lease = "none", !.token = NoToken]

\* An empty batch ends the job, or leads a match-user job that reconciled to the
\* offers; "p" is the payload the worker read when it claimed.
Completed(j) == [Progress(j) EXCEPT !.status = "done"]
OffersPhase(j, p) == [Progress(j) EXCEPT !.cursor = 0, !.payload = [p EXCEPT !.offers = TRUE]]

\* The commit that ends a batch at item "last", 0 when it was empty.
FinishRow(j, t, last, emptied) ==
    CASE Owns(j, t) /\ last # 0 -> [Progress(j) EXCEPT !.cursor = last]
      [] Owns(j, t) /\ last = 0 -> emptied
      [] ~Owns(j, t) /\ j.token = t -> Release(j)
      [] OTHER -> j

\* The retry state an error leaves on a row.
Charge(j) == [j EXCEPT !.status = IF j.attempts >= MaxAttempts THEN "failed" ELSE "pending",
                       !.err = TRUE, !.deferred = TRUE]

\* Faulty variant: the retry state is charged to a replacement as well.
FailRowAlways(j, t) == IF j.token = t THEN Charge(Release(j)) ELSE j

\* The exception handler of process_jobs, for an error after the claim t.
FailRow(j, t) ==
    CASE Owns(j, t) -> Charge(Release(j))
      [] ~Owns(j, t) /\ j.token = t -> Release(j)
      [] OTHER -> j

\* The same handler for an error before any claim was made.
PreClaimFailRow(j) ==
    IF j.status = "pending" THEN Charge([j EXCEPT !.attempts = @ + 1, !.lease = "none"]) ELSE j
=============================================================================
