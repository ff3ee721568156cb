---------------------------- MODULE AccountAccess ----------------------------
(****************************************************************************)
(* How one account is reached: the queue of sign-in, recovery and           *)
(* invitation mail (auth_mail.py, invitations.py), the links it issues, the *)
(* web requests that consume them (main.py, auth.py), the sessions they     *)
(* open, and the events that revoke everything (sessions.revoke_user_auth). *)
(*                                                                          *)
(* A mail worker runs three transactions around one message: it claims the  *)
(* job and persists a fresh link, checks both again, sends with no lock     *)
(* held, and records the answer.  A visitor's request reads its credential, *)
(* then locks the user and acts on it.  Every other action is one           *)
(* transaction under the user lock.                                         *)
(*                                                                          *)
(* "epoch" counts the revocations.  A credential carries the epoch in which *)
(* it was issued, a session that of the credential it was opened with.      *)
(* A claim's instant is represented by the worker that made it.             *)
(****************************************************************************)
EXTENDS Integers, FiniteSets

CONSTANTS
    Jobs,          \* rows of auth_mail in use at a time
    Links,         \* magic links and password tokens that may be issued
    Workers,
    Visitors,      \* concurrent web requests
    Nobody,        \* processing_started_at is null
    NoJob, NoLink,
    MaxAttempts,   \* five in the code
    Requests,      \* kinds of mail the public asks for
    MaxEdits,      \* bound on requests and administrative actions
    MaxFaults      \* bound on mail and database errors and crashes

ASSUME AccountAccessAssumption ==
    /\ Nobody \notin Workers /\ NoJob \notin Jobs /\ NoLink \notin Links
    /\ MaxAttempts \in Nat \ {0}
    /\ Requests \subseteq {"magic", "password"}
    /\ MaxEdits \in Nat /\ MaxFaults \in Nat

VARIABLES
    active,     \* users.is_active
    password,   \* the account has a password
    job,        \* auth_mail
    inv,        \* the account's invitation
    link,       \* magic_links and password_tokens
    sessions,   \* epochs of the open sessions
    epoch,
    worker,
    visitor,
    opened,     \* how many times each link opened a session or set a password
    edits,
    faults

account == <<active, password>>
queue == <<job, inv>>
access == <<link, sessions, epoch, opened>>
bounds == <<edits, faults>>
vars == <<account, queue, access, worker, visitor, bounds>>

----------------------------------------------------------------------------
(* Types. *)

Kinds == {"magic", "password"}

Job == [status   : {"absent", "pending", "processing", "sent", "failed", "cancelled"},
        kind     : Kinds,
        invites  : {"no", "open", "past"},  \* invitation_id: none, the account's open
                                            \* invitation, or one accepted before it
        attempts : 0..MaxAttempts,
        by       : Workers \cup {Nobody},
        stale    : BOOLEAN,            \* the claim is five minutes old
        deferred : BOOLEAN,            \* next_attempt_at lies in the future
        old      : BOOLEAN]            \* created more than an hour ago

\* The account's last invitation.
Invitation == [status   : {"absent", "pending", "sent", "failed", "cancelled"},
               accepted : BOOLEAN,
               erred    : BOOLEAN,     \* last_error
               deferred : BOOLEAN]

Link == [state : {"unissued", "live", "used", "expired", "deleted"},
         kind  : Kinds,
         epoch : 0..MaxEdits]

WorkerRow == [pc      : {"idle", "claimed", "sending", "answered"},
              job     : Jobs \cup {NoJob},
              attempt : 0..MaxAttempts,
              link    : Links \cup {NoLink},
              erred   : BOOLEAN]

\* A request in progress holds a link it found usable, or the session it came with.
VisitorRow == [pc : {"idle", "link", "session"}, link : Links \cup {NoLink}, epoch : 0..MaxEdits]

TypeOK ==
    /\ active \in BOOLEAN /\ password \in BOOLEAN
    /\ job \in [Jobs -> Job] /\ inv \in Invitation /\ link \in [Links -> Link]
    /\ sessions \in SUBSET (0..MaxEdits) /\ epoch \in 0..MaxEdits
    /\ worker \in [Workers -> WorkerRow] /\ visitor \in [Visitors -> VisitorRow]
    /\ opened \in [Links -> Nat]
    /\ edits \in 0..MaxEdits /\ faults \in 0..MaxFaults

AbsentJob == [status |-> "absent", kind |-> "magic", invites |-> "no", attempts |-> 0,
              by |-> Nobody, stale |-> FALSE, deferred |-> FALSE, old |-> FALSE]
NewInvitation == [status |-> "pending", accepted |-> FALSE, erred |-> FALSE, deferred |-> FALSE]
Unissued == [state |-> "unissued", kind |-> "magic", epoch |-> 0]
IdleWorker == [pc |-> "idle", job |-> NoJob, attempt |-> 0, link |-> NoLink, erred |-> FALSE]
IdleVisitor == [pc |-> "idle", link |-> NoLink, epoch |-> 0]

\* An account of either kind, with nothing queued and nobody signed in.
Init ==
    /\ active = TRUE /\ password \in BOOLEAN
    /\ job = [j \in Jobs |-> AbsentJob]
    /\ inv = [NewInvitation EXCEPT !.status = "absent"]
    /\ link = [l \in Links |-> Unissued]
    /\ sessions = {} /\ epoch = 0
    /\ worker = [w \in Workers |-> IdleWorker]
    /\ visitor = [v \in Visitors |-> IdleVisitor]
    /\ opened = [l \in Links |-> 0]
    /\ edits = 0 /\ faults = 0

----------------------------------------------------------------------------
(* Queueing and revoking. *)

MayEdit == edits < MaxEdits /\ edits' = edits + 1
MayFail == faults < MaxFaults /\ faults' = faults + 1

NewJob(kind, invites) ==
    [AbsentJob EXCEPT !.status = "pending", !.kind = kind, !.invites = invites]

\* A row that no action can touch any more stands for a new one as well.
Free(j) ==
    \/ job[j].status = "absent"
    \/ /\ job[j].invites # "open" /\ job[j].status \in {"sent", "cancelled"}
       /\ \A w \in Workers : worker[w].job # j

\* POST /auth/request and /auth/password/request, for any account.
Request(j, kind) ==
    /\ MayEdit
    /\ kind \in Requests
    /\ Free(j)
    /\ job' = [job EXCEPT ![j] = NewJob(kind, "no")]
    /\ UNCHANGED <<account, inv, access, worker, visitor, faults>>

\* POST /admin/invite: enables the account and queues the invitation, unless one
\* waits without an error or was sent within the last minute ("recent").  An
\* account that accepted its invitation gets another one.
Invite(recent) ==
    /\ MayEdit
    /\ active' = TRUE
    /\ \/ /\ ~inv.accepted
          /\ inv' = IF \/ inv.status = "pending" /\ ~inv.erred
                       \/ inv.status = "sent" /\ recent
                      THEN inv ELSE NewInvitation
          /\ UNCHANGED job
       \/ /\ inv.accepted
          /\ inv' = NewInvitation
          /\ job' = [j \in Jobs |-> IF job[j].invites = "open"
                                      THEN [job[j] EXCEPT !.invites = "past"] ELSE job[j]]
    /\ UNCHANGED <<password, access, worker, visitor, faults>>

\* revoke_user_auth: the queued mail is cancelled ...
JobsRevoked ==
    [j \in Jobs |-> IF job[j].status \in {"pending", "processing"}
                      THEN [job[j] EXCEPT !.status = "cancelled"] ELSE job[j]]

\* Faulty variant: the links of the other sign-in method survive.
LinksRevokedPassword ==
    [l \in Links |-> IF link[l].kind = "password" /\ link[l].state # "unissued"
                       THEN [link[l] EXCEPT !.state = "deleted"] ELSE link[l]]

\* ... and every link and session is deleted.
LinksRevoked ==
    [l \in Links |-> IF link[l].state # "unissued"
                       THEN [link[l] EXCEPT !.state = "deleted"] ELSE link[l]]

RevokeAll(survivors) ==
    /\ job' = JobsRevoked
    /\ link' = LinksRevoked
    /\ sessions' = survivors
    /\ epoch' = epoch + 1

\* POST /admin/users/{id}/toggle.
Disable ==
    /\ MayEdit
    /\ active /\ active' = FALSE
    /\ inv' = IF inv.status # "absent" /\ ~inv.accepted
                THEN [inv EXCEPT !.status = "cancelled"] ELSE inv
    /\ RevokeAll({})
    /\ UNCHANGED <<password, opened, worker, visitor, faults>>

Enable ==
    /\ MayEdit
    /\ ~active /\ active' = TRUE
    /\ UNCHANGED <<password, queue, access, worker, visitor, faults>>

\* The promote-admin command, which recovers an account.
Recover ==
    /\ MayEdit
    /\ active' = TRUE
    /\ RevokeAll({})
    /\ UNCHANGED <<password, inv, opened, worker, visitor, faults>>

\* admin_jobs.retry of a failed job or invitation.
RetryJob(j) ==
    /\ MayEdit
    /\ job[j].status = "failed"
    /\ job' = [job EXCEPT ![j].status = "pending", ![j].attempts = 0, ![j].deferred = FALSE]
    /\ UNCHANGED <<account, inv, access, worker, visitor, faults>>

RetryInvitation ==
    /\ MayEdit
    /\ inv.status = "failed"
    /\ inv' = [inv EXCEPT !.status = "pending", !.erred = FALSE, !.deferred = FALSE]
    /\ UNCHANGED <<account, job, access, worker, visitor, faults>>

----------------------------------------------------------------------------
(* Mail workers. *)

InvitationJob == {j \in Jobs : job[j].invites = "open"}

\* Faulty variant: an invitation sent again goes on with its old attempts.
RedeliveredSpent(j) == [job[j] EXCEPT !.status = "pending", !.deferred = inv.deferred]

\* What deliver_invitation makes of the invitation's job before processing it: a
\* settled job is used again, a job in progress takes the invitation's backoff.
Redelivered(j) ==
    IF job[j].status \in {"failed", "sent", "cancelled"}
      THEN [job[j] EXCEPT !.status = "pending", !.attempts = 0, !.deferred = FALSE]
      ELSE [job[j] EXCEPT !.deferred = inv.deferred]

\* The invitation was selected by an earlier query, whose conditions may have
\* ceased to hold.
DeliverInvitation ==
    /\ inv.status # "absent"
    /\ \/ /\ ~active
          /\ inv' = [inv EXCEPT !.status = "cancelled"]
          /\ job' = [j \in Jobs |-> IF j \in InvitationJob
                                      THEN [job[j] EXCEPT !.status = "cancelled"] ELSE job[j]]
       \/ /\ active /\ ~inv.accepted /\ inv.status = "pending"
          /\ UNCHANGED inv
          /\ IF InvitationJob = {}
               THEN \E j \in Jobs : /\ Free(j)
                                    /\ job' = [job EXCEPT ![j] = NewJob("magic", "open")]
               ELSE job' = [j \in Jobs |->
                              IF j \in InvitationJob THEN Redelivered(j) ELSE job[j]]
    /\ UNCHANGED <<account, access, worker, visitor, bounds>>

\* process_invitations: an error while the invitation was waiting.
FailInvitation ==
    /\ MayFail
    /\ inv.status = "pending"
    /\ \E status \in {"pending", "failed"} :
         inv' = [inv EXCEPT !.status = status, !.erred = TRUE, !.deferred = TRUE]
    /\ UNCHANGED <<account, job, access, worker, visitor, edits>>

\* _cancelled.
Void(j) ==
    \/ ~active
    \/ job[j].invites = "open" /\ (inv.accepted \/ inv.status = "cancelled")
    \/ job[j].invites = "past"
    \/ job[j].invites = "no" /\ job[j].old

Exhausted(j) == job[j].attempts >= MaxAttempts

Ready(j) ==
    /\ job[j].status = "pending" \/ (job[j].status = "processing" /\ job[j].stale)
    /\ ~job[j].deferred

\* Faulty variant: attempts are numbered anew when an invitation is sent again.
OwnsByAttempt(w) ==
    LET j == worker[w].job IN job[j].status = "processing" /\ job[j].attempts = worker[w].attempt

\* The worker's attempt still is the job's: number and instant.
Owns(w) ==
    LET j == worker[w].job IN
    /\ job[j].status = "processing" /\ job[j].attempts = worker[w].attempt
    /\ job[j].by = w

\* process_auth_mail finds nothing to deliver, or the attempts used up.
DropJob(j) ==
    /\ Ready(j)
    /\ \/ /\ Void(j)
          /\ job' = [job EXCEPT ![j].status = "cancelled"]
          /\ inv' = IF job[j].invites = "open" /\ ~inv.accepted
                      THEN [inv EXCEPT !.status = "cancelled"] ELSE inv
       \/ /\ ~Void(j) /\ Exhausted(j)
          /\ job' = [job EXCEPT ![j].status = "failed"]
          /\ inv' = IF job[j].invites = "open"
                      THEN [inv EXCEPT !.status = "failed", !.erred = TRUE] ELSE inv
    /\ UNCHANGED <<account, access, worker, visitor, bounds>>

\* The claim, committed with a fresh link.
Claim(w, j, l) ==
    /\ worker[w].pc = "idle"
    /\ Ready(j) /\ ~Void(j) /\ ~Exhausted(j)
    /\ link[l].state = "unissued"
    /\ link' = [link EXCEPT ![l] = [state |-> "live", kind |-> job[j].kind, epoch |-> epoch]]
    /\ job' = [job EXCEPT ![j] = [job[j] EXCEPT !.status = "processing", !.by = w, !.stale = FALSE,
                                                 !.attempts = @ + 1]]
    /\ worker' = [worker EXCEPT ![w] = [pc |-> "claimed", job |-> j, link |-> l,
                                        attempt |-> job[j].attempts + 1, erred |-> FALSE]]
    /\ UNCHANGED <<account, inv, sessions, epoch, opened, visitor, bounds>>

Leave(w) == worker' = [worker EXCEPT ![w] = IdleWorker]

\* Faulty variant: the second check is left out.
RecheckNothing(w) ==
    /\ worker[w].pc = "claimed"
    /\ worker' = [worker EXCEPT ![w].pc = "sending"]
    /\ UNCHANGED <<account, queue, access, visitor, bounds>>

\* The second check: a revocation since the claim is not overridden.  A worker
\* that lost its job cancels whatever attempt of the same number is under way.
Recheck(w) ==
    LET j == worker[w].job IN
    /\ worker[w].pc = "claimed"
    /\ IF Owns(w) /\ ~Void(j)
         THEN /\ worker' = [worker EXCEPT ![w].pc = "sending"]
              /\ UNCHANGED job
         ELSE /\ Leave(w)
              /\ job' = IF job[j].status = "processing" /\ job[j].attempts = worker[w].attempt
                          THEN [job EXCEPT ![j].status = "cancelled"] ELSE job
    /\ UNCHANGED <<account, inv, access, visitor, bounds>>

\* The message leaves, or the mail server reports an error.
Send(w, erred) ==
    /\ worker[w].pc = "sending"
    /\ IF erred THEN MayFail ELSE UNCHANGED faults
    /\ worker' = [worker EXCEPT ![w].pc = "answered", ![w].erred = erred]
    /\ UNCHANGED <<account, queue, access, visitor, edits>>

Outcome(w) ==
    LET j == worker[w].job IN
    IF Void(j) THEN "cancelled"
    ELSE IF ~worker[w].erred THEN "sent"
    ELSE IF worker[w].attempt >= MaxAttempts THEN "failed" ELSE "pending"

\* The answer is recorded on the job, and on its invitation.
Finalise(w) ==
    LET j == worker[w].job
        failed == ~Void(j) /\ worker[w].erred
    IN
    /\ worker[w].pc = "answered"
    /\ IF Owns(w)
         THEN /\ job' = [job EXCEPT ![j] = [job[j] EXCEPT !.status = Outcome(w), !.by = Nobody,
                                                   !.deferred = IF Void(j) THEN @ ELSE failed]]
              /\ inv' = IF job[j].invites = "open"
                          THEN [inv EXCEPT !.status = Outcome(w), !.erred = failed,
                                           !.deferred = failed]
                          ELSE inv
         ELSE UNCHANGED queue
    /\ Leave(w)
    /\ UNCHANGED <<account, access, visitor, bounds>>

\* process_auth_queue: an error while a job was still waiting.
FailWaiting(j) ==
    /\ MayFail
    /\ job[j].status = "pending"
    /\ job' = [job EXCEPT ![j] = [job[j] EXCEPT !.attempts = @ + 1, !.deferred = TRUE,
                 !.status = IF job[j].attempts >= MaxAttempts - 1 THEN "failed" ELSE "pending"]]
    /\ UNCHANGED <<account, inv, access, worker, visitor, edits>>

\* process_auth_queue: the address cannot be decrypted, and no retry can help.
FailUnreadable(j) ==
    /\ MayFail
    /\ job[j].status \in {"pending", "processing"}
    /\ job' = [job EXCEPT ![j].status = "failed", ![j].by = Nobody]
    /\ inv' = IF job[j].invites = "open" /\ ~inv.accepted /\ inv.status = "pending"
                THEN [inv EXCEPT !.status = "failed", !.erred = TRUE] ELSE inv
    /\ UNCHANGED <<account, access, worker, visitor, edits>>

\* The process is killed, or a later transaction of the worker fails.
Crash(w) ==
    /\ MayFail
    /\ worker[w].pc # "idle"
    /\ Leave(w)
    /\ UNCHANGED <<account, queue, access, visitor, edits>>

\* Five minutes pass since a claim; a worker lives ninety seconds.
ClaimStale(j) ==
    /\ job[j].status = "processing" /\ ~job[j].stale
    /\ \A w \in Workers : ~(job[j].by = w /\ worker[w].job = j)
    /\ job' = [job EXCEPT ![j].stale = TRUE]
    /\ UNCHANGED <<account, inv, access, worker, visitor, bounds>>

RetryDue ==
    /\ \/ \E j \in Jobs : job[j].deferred /\ job' = [job EXCEPT ![j].deferred = FALSE]
                          /\ UNCHANGED inv
       \/ inv.deferred /\ inv' = [inv EXCEPT !.deferred = FALSE] /\ UNCHANGED job
    /\ UNCHANGED <<account, access, worker, visitor, bounds>>

JobAges(j) ==
    /\ job[j].status # "absent" /\ job[j].invites = "no" /\ ~job[j].old
    /\ job' = [job EXCEPT ![j].old = TRUE]
    /\ UNCHANGED <<account, inv, access, worker, visitor, bounds>>

LinkExpires(l) ==
    /\ link[l].state = "live"
    /\ link' = [link EXCEPT ![l].state = "expired"]
    /\ UNCHANGED <<account, queue, sessions, epoch, opened, worker, visitor, bounds>>

----------------------------------------------------------------------------
(* Visitors. *)

\* A request presents a link and finds it usable.
PresentLink(v, l) ==
    /\ visitor[v].pc = "idle"
    /\ link[l].state = "live"
    /\ visitor' = [visitor EXCEPT ![v] = [pc |-> "link", link |-> l, epoch |-> link[l].epoch]]
    /\ UNCHANGED <<account, queue, access, worker, bounds>>

\* A request to choose a first password comes with a session.
PresentSession(v, e) ==
    /\ visitor[v].pc = "idle"
    /\ e \in sessions
    /\ visitor' = [visitor EXCEPT ![v] = [pc |-> "session", link |-> NoLink, epoch |-> e]]
    /\ UNCHANGED <<account, queue, access, worker, bounds>>

Done(v) == visitor' = [visitor EXCEPT ![v] = IdleVisitor]

\* Faulty variant: what the request read before the lock is taken for granted.
UsableAsRead(l) == TRUE

\* The conditional update that consumes a link.
Usable(l) == link[l].state = "live"

Use(l) == /\ link' = [link EXCEPT ![l].state = "used"]
          /\ opened' = [opened EXCEPT ![l] = @ + 1]

\* POST /auth/consume: opens a session and accepts the invitation.
Consume(v) ==
    LET l == visitor[v].link IN
    /\ visitor[v].pc = "link" /\ link[l].kind = "magic"
    /\ active /\ Usable(l)
    /\ Use(l)
    /\ sessions' = sessions \cup {visitor[v].epoch}
    /\ inv' = IF inv.status # "absent" THEN [inv EXCEPT !.accepted = TRUE] ELSE inv
    /\ Done(v)
    /\ UNCHANGED <<account, job, epoch, worker, bounds>>

\* finish_password: everything is revoked but the session it opens.
FinishPassword ==
    /\ edits < MaxEdits /\ edits' = edits + 1
    /\ password' = TRUE
    /\ inv' = IF inv.status # "absent" THEN [inv EXCEPT !.accepted = TRUE] ELSE inv
    /\ RevokeAll({epoch + 1})

\* POST /auth/password/reset.
ResetPassword(v) ==
    LET l == visitor[v].link IN
    /\ visitor[v].pc = "link" /\ link[l].kind = "password"
    /\ active /\ Usable(l)
    /\ opened' = [opened EXCEPT ![l] = @ + 1]
    /\ FinishPassword
    /\ Done(v)
    /\ UNCHANGED <<active, worker, faults>>

\* Faulty variant: the session is not looked up again under the user lock.
StillSignedInAsRead(v) == TRUE

StillSignedIn(v) == visitor[v].epoch \in sessions

\* POST /auth/password: the first password, chosen in a session.
SetPassword(v) ==
    /\ visitor[v].pc = "session"
    /\ active /\ StillSignedIn(v) /\ ~password
    /\ FinishPassword
    /\ Done(v)
    /\ UNCHANGED <<active, opened, worker, faults>>

\* The same requests, refused.
Refuse(v) ==
    LET l == visitor[v].link IN
    /\ \/ visitor[v].pc = "link" /\ (~active \/ ~Usable(l))
       \/ visitor[v].pc = "session" /\ (~active \/ ~StillSignedIn(v) \/ password)
    /\ Done(v)
    /\ UNCHANGED <<account, queue, access, worker, bounds>>

\* POST /auth/login, with the right password.
PasswordLogin ==
    /\ active /\ password
    /\ sessions' = sessions \cup {epoch}
    /\ UNCHANGED <<account, queue, link, epoch, opened, worker, visitor, bounds>>

\* POST /logout, or the session expires.
Logout(e) ==
    /\ e \in sessions
    /\ sessions' = sessions \ {e}
    /\ UNCHANGED <<account, queue, link, epoch, opened, worker, visitor, bounds>>

----------------------------------------------------------------------------

Administer ==
    \/ \E recent \in BOOLEAN : Invite(recent)
    \/ Disable \/ Enable \/ Recover \/ RetryInvitation
    \/ \E j \in Jobs : RetryJob(j)

WorkerStep(w) ==
    \/ \E j \in Jobs, l \in Links : Claim(w, j, l)
    \/ Recheck(w) \/ (\E erred \in BOOLEAN : Send(w, erred)) \/ Finalise(w)

QueueStep == DeliverInvitation \/ \E j \in Jobs : DropJob(j)

Trouble == (\E w \in Workers : Crash(w)) \/ FailInvitation \/ \E j \in Jobs : FailWaiting(j) \/ FailUnreadable(j)

TimePasses ==
    \/ RetryDue
    \/ \E j \in Jobs : ClaimStale(j) \/ JobAges(j)
    \/ \E l \in Links : LinkExpires(l)

Visit ==
    \/ \E j \in Jobs, kind \in Kinds : Request(j, kind)
    \/ \E v \in Visitors :
         \/ \E l \in Links : PresentLink(v, l)
         \/ \E e \in sessions : PresentSession(v, e)
         \/ Consume(v) \/ ResetPassword(v) \/ SetPassword(v) \/ Refuse(v)
    \/ PasswordLogin \/ \E e \in sessions : Logout(e)

Next == Administer \/ QueueStep \/ (\E w \in Workers : WorkerStep(w)) \/ Trouble \/ TimePasses \/ Visit

Spec == Init /\ [][Next]_vars

----------------------------------------------------------------------------
(* Properties. *)

\* A revocation is final: a disabled account has no session and no link that would
\* open one, and every session in use goes back to a credential issued after the
\* last password change, recovery or disabling, as does every link, whatever a
\* message or a request under way had read before.
AccessIsCurrent ==
    /\ sessions \subseteq (IF active THEN {epoch} ELSE {})
    /\ \A l \in Links : link[l].state = "live" => active /\ link[l].epoch = epoch

\* Whoever chooses the first password has access that no revocation has ended
\* since the request began, with a link as with a session.
PasswordByCurrentAccess ==
    [][~password /\ password' =>
         \E v \in Visitors : /\ visitor[v].pc # "idle" /\ visitor'[v].pc = "idle"
                             /\ visitor[v].epoch = epoch]_vars

\* A link is used once, also by two requests that both found it usable.
LinkUsedOnce == \A l \in Links : opened[l] <= 1

\* "Never deliver a token that can disappear": a message is only started with a
\* link that is persisted, for a job not cancelled since its claim.
NoRevokedLinkSent ==
    [][\A w \in Workers : worker'[w].pc = "sending" /\ worker[w].pc # "sending" =>
         /\ active /\ job[worker[w].job].status = "processing"
         /\ link[worker[w].link].state \in {"live", "used", "expired"}]_vars

\* Whose claim a job is, and what each worker has in hand.
Claimant == [j \in Jobs |-> IF job[j].status = "processing" /\ ~job[j].stale
                              THEN job[j].by ELSE Nobody]
InHand == [w \in Workers |-> {worker[w].job} \ {NoJob}]
Accepted == {w \in Workers : worker[w].pc = "answered" /\ ~worker[w].erred}
Sent == {j \in Jobs : job[j].status = "sent"}

\* A job is recorded as sent only by the worker of its current claim, after its
\* message was accepted, also when an invitation was cancelled and sent again.
Queue == INSTANCE Outbox WITH Rows <- Jobs, holder <- Claimant, work <- InHand,
                              answered <- Accepted, done <- Sent

OutboxSpec == Queue!Spec
=============================================================================
