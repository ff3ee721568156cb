------------------------- MODULE AccountAccessProofs -------------------------
(****************************************************************************)
(* Access to an account, for any jobs, links, workers and visitors, any     *)
(* number of attempts, edits and faults: what was revoked opens nothing and *)
(* is not mailed, a link is used once, and the jobs are an outbox.          *)
(*                                                                          *)
(* Three facts carry the proof.  A revocation takes every job under way     *)
(* from its worker, so a worker that still owns its job has a link that no  *)
(* revocation touched (ClaimsSound).  A link that was presented keeps the   *)
(* epoch of its issue for ever (Presented).  And what a link was used for   *)
(* left it unusable (OpenedSound).                                          *)
(****************************************************************************)
EXTENDS AccountAccess, TLAPS

\* Epochs and waiting jobs stay within the bounds of their types.
Counted ==
    /\ epoch <= edits
    /\ \A j \in Jobs : job[j].status = "pending" => job[j].attempts < MaxAttempts

TypeInv == TypeOK /\ Counted

\* The link was issued and not revoked.
Kept(l) == link[l].state \in {"live", "used", "expired"}

ClaimsSound ==
    \A w \in Workers :
      IF worker[w].pc = "idle" THEN worker[w].job = NoJob
      ELSE /\ worker[w].job \in Jobs /\ worker[w].link \in Links
           /\ Owns(w) => ~job[worker[w].job].stale /\ Kept(worker[w].link)

Presented ==
    \A v \in Visitors :
      visitor[v].pc = "link" =>
        /\ visitor[v].link \in Links /\ link[visitor[v].link].state # "unissued"
        /\ visitor[v].epoch = link[visitor[v].link].epoch

OpenedSound ==
    \A l \in Links : opened[l] <= 1 /\ (link[l].state \in {"unissued", "live"} => opened[l] = 0)

Inv == TypeInv /\ ClaimsSound /\ Presented /\ OpenedSound /\ AccessIsCurrent

----------------------------------------------------------------------------
(* Rows. *)

LEMMA FieldsAreTyped ==
    /\ 0 \in 0..MaxAttempts /\ 0 \in 0..MaxEdits /\ 0 \in 0..MaxFaults /\ 0 < MaxAttempts
    /\ Nobody \in Workers \cup {Nobody}
    /\ NoJob \in Jobs \cup {NoJob} /\ NoLink \in Links \cup {NoLink}
BY AccountAccessAssumption

Statuses == {"absent", "pending", "processing", "sent", "failed", "cancelled"}

(* An assignment to one column keeps the type of the row. *)
LEMMA JobUpdate ==
    ASSUME NEW r \in Job
    PROVE  /\ \A x \in Statuses : [r EXCEPT !.status = x] \in Job
           /\ \A x \in Kinds : [r EXCEPT !.kind = x] \in Job
           /\ \A x \in {"no", "open", "past"} : [r EXCEPT !.invites = x] \in Job
           /\ \A x \in 0..MaxAttempts : [r EXCEPT !.attempts = x] \in Job
           /\ \A x \in Workers \cup {Nobody} : [r EXCEPT !.by = x] \in Job
           /\ \A x \in BOOLEAN : [r EXCEPT !.stale = x] \in Job
           /\ \A x \in BOOLEAN : [r EXCEPT !.deferred = x] \in Job
           /\ \A x \in BOOLEAN : [r EXCEPT !.old = x] \in Job
BY DEF Job, Statuses

LEMMA InvitationUpdate ==
    ASSUME NEW r \in Invitation
    PROVE  /\ \A x \in {"absent", "pending", "sent", "failed", "cancelled"} :
                [r EXCEPT !.status = x] \in Invitation
           /\ \A x \in BOOLEAN : [r EXCEPT !.accepted = x] \in Invitation
           /\ \A x \in BOOLEAN : [r EXCEPT !.erred = x] \in Invitation
           /\ \A x \in BOOLEAN : [r EXCEPT !.deferred = x] \in Invitation
BY DEF Invitation

LEMMA RecordsAreTyped ==
    /\ AbsentJob \in Job /\ NewInvitation \in Invitation
    /\ Unissued \in Link /\ IdleWorker \in WorkerRow /\ IdleVisitor \in VisitorRow
<1> USE FieldsAreTyped
<1>1. AbsentJob \in Job
  BY DEF AbsentJob, Job, Kinds
<1>2. NewInvitation \in Invitation
  BY DEF NewInvitation, Invitation
<1>3. Unissued \in Link
  BY DEF Unissued, Link, Kinds
<1>4. IdleWorker \in WorkerRow
  BY DEF IdleWorker, WorkerRow
<1>5. IdleVisitor \in VisitorRow
  BY DEF IdleVisitor, VisitorRow
<1> QED
  BY <1>1, <1>2, <1>3, <1>4, <1>5

(* A new job waits, with no attempt used. *)
LEMMA NewJobIsTyped ==
    ASSUME NEW kind \in Kinds, NEW invites \in {"no", "open", "past"}
    PROVE  /\ NewJob(kind, invites) \in Job
           /\ NewJob(kind, invites).status = "pending"
           /\ NewJob(kind, invites).attempts = 0
<1> DEFINE r == AbsentJob
<1>1. r \in Job /\ r.attempts = 0
  BY RecordsAreTyped DEF AbsentJob
<1>2. NewJob(kind, invites) = [r EXCEPT !.status = "pending", !.kind = kind, !.invites = invites]
  BY DEF NewJob
<1> HIDE DEF r
<1> QED
  BY <1>1, <1>2 DEF Job

(* deliver_invitation leaves a job with the attempts it had, or with none. *)
LEMMA RedeliveredIsTyped ==
    ASSUME TypeOK, NEW j \in Jobs
    PROVE  /\ Redelivered(j) \in Job
           /\ \/ /\ Redelivered(j).status = job[j].status
                 /\ Redelivered(j).attempts = job[j].attempts
                 /\ Redelivered(j).by = job[j].by /\ Redelivered(j).stale = job[j].stale
              \/ Redelivered(j).status = "pending" /\ Redelivered(j).attempts = 0
<1>1. job[j] \in Job /\ inv.deferred \in BOOLEAN
  BY DEF TypeOK, Invitation
<1> DEFINE r == job[j]
<1>2. CASE r.status \in {"failed", "sent", "cancelled"}
  <2>1. Redelivered(j) = [r EXCEPT !.status = "pending", !.attempts = 0, !.deferred = FALSE]
    BY <1>2 DEF Redelivered
  <2> HIDE DEF r
  <2> QED
    BY <2>1, <1>1, FieldsAreTyped DEF r, Job
<1>3. CASE r.status \notin {"failed", "sent", "cancelled"}
  <2>1. Redelivered(j) = [r EXCEPT !.deferred = inv.deferred]
    BY <1>3 DEF Redelivered
  <2> HIDE DEF r
  <2> QED
    BY <2>1, <1>1 DEF r, Job
<1> QED
  BY <1>2, <1>3

----------------------------------------------------------------------------
(* What a step that is not a worker's makes of the jobs. *)

\* The columns that decide whose the job is.
Same(r, s) == s.status = r.status /\ s.attempts = r.attempts /\ s.by = r.by /\ s.stale = r.stale

Released(s) == s.status \in {"absent", "pending", "failed", "cancelled"}

\* The claim of a worker that is gone.
GoesStale(j) ==
    /\ job[j].status = "processing" /\ job'[j].status = "processing"
    /\ job'[j].attempts = job[j].attempts /\ job'[j].by = job[j].by /\ job'[j].stale
    /\ \A w \in Workers : ~(job[j].by = w /\ worker[w].job = j)

Rests(j) ==
    /\ job'[j] \in Job
    /\ job'[j].status = "pending" => job'[j].attempts < MaxAttempts
    /\ Same(job[j], job'[j]) \/ Released(job'[j]) \/ GoesStale(j)

JobsRest == job' \in [Jobs -> Job] /\ worker' = worker /\ \A j \in Jobs : Rests(j)

LEMMA NothingRests ==
    ASSUME TypeInv, UNCHANGED <<job, worker>>
    PROVE  JobsRest
BY DEF TypeInv, TypeOK, Counted, JobsRest, Rests, Same

LEMMA OneRests ==
    ASSUME TypeInv, NEW j \in Jobs, NEW r \in Job,
           job' = [job EXCEPT ![j] = r], worker' = worker,
           r.status = "pending" => r.attempts < MaxAttempts,
           Same(job[j], r) \/ Released(r)
    PROVE  JobsRest
<1>1. job \in [Jobs -> Job] /\ \A k \in Jobs : job[k].status = "pending" => job[k].attempts < MaxAttempts
  BY DEF TypeInv, TypeOK, Counted
<1>2. job' \in [Jobs -> Job] /\ job'[j] = r /\ \A k \in Jobs \ {j} : job'[k] = job[k]
  BY <1>1
<1>3. Rests(j)
  BY <1>2 DEF Rests
<1>4. \A k \in Jobs \ {j} : Rests(k)
  BY <1>1, <1>2 DEF Rests, Same
<1> QED
  BY <1>2, <1>3, <1>4 DEF JobsRest

LEMMA RevokedRest ==
    ASSUME TypeInv, job' = JobsRevoked, worker' = worker
    PROVE  JobsRest /\ \A j \in Jobs : job'[j].status # "processing"
<1>1. job \in [Jobs -> Job] /\ \A k \in Jobs : job[k].status = "pending" => job[k].attempts < MaxAttempts
  BY DEF TypeInv, TypeOK, Counted
<1>2. ASSUME NEW j \in Jobs
      PROVE  /\ Rests(j) /\ job'[j].status # "processing"
  <2>1. CASE job[j].status \in {"pending", "processing"}
    <3> DEFINE r == job[j]
    <3>1. r \in Job /\ job'[j] = [r EXCEPT !.status = "cancelled"]
      BY <1>1, <2>1 DEF JobsRevoked
    <3> HIDE DEF r
    <3>2. job'[j] \in Job /\ job'[j].status = "cancelled"
      BY <3>1 DEF Job
    <3> QED
      BY <3>2 DEF Rests, Released
  <2>2. CASE job[j].status \notin {"pending", "processing"}
    BY <1>1, <2>2 DEF JobsRevoked, Rests, Same
  <2> QED
    BY <2>1, <2>2
<1>3. job' \in [Jobs -> Job]
  BY <1>2 DEF JobsRevoked, Rests
<1> QED
  BY <1>2, <1>3 DEF JobsRest

LEMMA RequestRests ==
    ASSUME TypeInv, NEW j \in Jobs, NEW kind \in Kinds, Request(j, kind)
    PROVE  JobsRest
<1>1. job' = [job EXCEPT ![j] = NewJob(kind, "no")] /\ worker' = worker
  BY DEF Request
<1> QED
  BY <1>1, NewJobIsTyped, OneRests, FieldsAreTyped DEF Released

LEMMA InviteRests ==
    ASSUME TypeInv, NEW recent \in BOOLEAN, Invite(recent)
    PROVE  JobsRest
<1>1. CASE UNCHANGED job
  BY <1>1, NothingRests DEF Invite
<1>2. CASE job' = [j \in Jobs |-> IF job[j].invites = "open"
                                   THEN [job[j] EXCEPT !.invites = "past"] ELSE job[j]]
  <2>1. job \in [Jobs -> Job] /\ \A k \in Jobs : job[k].status = "pending" => job[k].attempts < MaxAttempts
    BY DEF TypeInv, TypeOK, Counted
  <2>2. ASSUME NEW j \in Jobs PROVE Rests(j)
    <3> DEFINE r == job[j]
    <3>1. r \in Job /\ job'[j] \in {[r EXCEPT !.invites = "past"], r}
      BY <1>2, <2>1
    <3>2. r.status = "pending" => r.attempts < MaxAttempts
      BY <2>1
    <3> HIDE DEF r
    <3>3. job'[j] \in Job /\ Same(r, job'[j])
      BY <3>1 DEF Job, Same
    <3> QED
      BY <3>2, <3>3 DEF Rests, Same, r
  <2>3. job' \in [Jobs -> Job]
    BY <1>2, <2>2 DEF Rests
  <2> QED
    BY <2>2, <2>3 DEF JobsRest, Invite
<1> QED
  BY <1>1, <1>2 DEF Invite

LEMMA DeliverRests ==
    ASSUME TypeInv, DeliverInvitation
    PROVE  JobsRest
<1>1. /\ job \in [Jobs -> Job] /\ worker' = worker /\ TypeOK
      /\ \A k \in Jobs : job[k].status = "pending" => job[k].attempts < MaxAttempts
  BY DEF TypeInv, TypeOK, Counted, DeliverInvitation
<1>2. CASE job' = [j \in Jobs |-> IF j \in InvitationJob
                                   THEN [job[j] EXCEPT !.status = "cancelled"] ELSE job[j]]
  <2>1. ASSUME NEW j \in Jobs PROVE Rests(j)
    <3>1. CASE j \in InvitationJob
      <4> DEFINE r == job[j]
      <4>1. r \in Job /\ job'[j] = [r EXCEPT !.status = "cancelled"]
        BY <1>1, <1>2, <3>1
      <4> HIDE DEF r
      <4>2. job'[j] \in Job /\ job'[j].status = "cancelled"
        BY <4>1 DEF Job
      <4> QED
        BY <4>2 DEF Rests, Released
    <3>2. CASE j \notin InvitationJob
      BY <1>1, <1>2, <3>2 DEF Rests, Same
    <3> QED
      BY <3>1, <3>2
  <2>2. job' \in [Jobs -> Job]
    BY <1>2, <2>1 DEF Rests
  <2> QED
    BY <1>1, <2>1, <2>2 DEF JobsRest
<1>3. ASSUME NEW j \in Jobs, job' = [job EXCEPT ![j] = NewJob("magic", "open")] PROVE JobsRest
  BY <1>1, <1>3, NewJobIsTyped, OneRests, FieldsAreTyped DEF Released, Kinds
<1>4. CASE job' = [j \in Jobs |-> IF j \in InvitationJob THEN Redelivered(j) ELSE job[j]]
  <2>1. ASSUME NEW j \in Jobs PROVE Rests(j)
    <3>1. CASE j \in InvitationJob
      <4>1. job'[j] = Redelivered(j) /\ Redelivered(j) \in Job
        BY <1>1, <1>4, <3>1, RedeliveredIsTyped
      <4>2. Same(job[j], Redelivered(j)) \/ Released(Redelivered(j))
        BY <1>1, RedeliveredIsTyped DEF Same, Released
      <4>3. Redelivered(j).status = "pending" => Redelivered(j).attempts < MaxAttempts
        BY <1>1, RedeliveredIsTyped, FieldsAreTyped
      <4> QED
        BY <4>1, <4>2, <4>3 DEF Rests
    <3>2. CASE j \notin InvitationJob
      BY <1>1, <1>4, <3>2 DEF Rests, Same
    <3> QED
      BY <3>1, <3>2
  <2>2. job' \in [Jobs -> Job]
    BY <1>4, <2>1 DEF Rests
  <2> QED
    BY <1>1, <2>1, <2>2 DEF JobsRest
<1> QED
  BY <1>2, <1>3, <1>4 DEF DeliverInvitation

(* A row that is given another status, or other columns that decide nothing. *)
LEMMA RowRests ==
    ASSUME TypeInv, NEW j \in Jobs, worker' = worker,
           \/ \E status \in {"cancelled", "failed"} :
                \/ job' = [job EXCEPT ![j] = [job[j] EXCEPT !.status = status]]
                \/ job' = [job EXCEPT ![j] = [job[j] EXCEPT !.status = status, !.by = Nobody]]
           \/ job' = [job EXCEPT ![j] = [job[j] EXCEPT !.deferred = FALSE]]
           \/ job' = [job EXCEPT ![j] = [job[j] EXCEPT !.old = TRUE]]
    PROVE  JobsRest
<1> DEFINE r == job[j]
<1>1. r \in Job /\ (r.status = "pending" => r.attempts < MaxAttempts)
  BY DEF TypeInv, TypeOK, Counted
<1>2. \/ \E status \in {"cancelled", "failed"} :
           \/ job' = [job EXCEPT ![j] = [r EXCEPT !.status = status]]
           \/ job' = [job EXCEPT ![j] = [r EXCEPT !.status = status, !.by = Nobody]]
      \/ job' = [job EXCEPT ![j] = [r EXCEPT !.deferred = FALSE]]
      \/ job' = [job EXCEPT ![j] = [r EXCEPT !.old = TRUE]]
  OBVIOUS
<1> HIDE DEF r
<1>3. ASSUME NEW status \in {"cancelled", "failed"},
             NEW s \in {[r EXCEPT !.status = status], [r EXCEPT !.status = status, !.by = Nobody]}
      PROVE  s \in Job /\ s.status = status
  BY <1>1, <1>3, FieldsAreTyped DEF Job
<1>4. ASSUME NEW s \in {[r EXCEPT !.deferred = FALSE], [r EXCEPT !.old = TRUE]}
      PROVE  s \in Job /\ Same(r, s)
  BY <1>1, <1>4 DEF Job, Same
<1>5. PICK s \in Job : /\ job' = [job EXCEPT ![j] = s]
                       /\ Same(r, s) \/ s.status \in {"cancelled", "failed"}
  BY <1>2, <1>3, <1>4
<1>6. (s.status = "pending" => s.attempts < MaxAttempts) /\ (Same(job[j], s) \/ Released(s))
  BY <1>1, <1>5 DEF Same, Released, r
<1> QED
  BY <1>5, <1>6, OneRests

LEMMA RetryRests ==
    ASSUME TypeInv, NEW j \in Jobs, RetryJob(j)
    PROVE  JobsRest
<1> DEFINE r == job[j]
           s == [r EXCEPT !.status = "pending", !.attempts = 0, !.deferred = FALSE]
<1>1. r \in Job
  BY DEF TypeInv, TypeOK
<1>2. job' = [job EXCEPT ![j] = s] /\ worker' = worker
  BY DEF RetryJob
<1> HIDE DEF r
<1>3. s \in Job /\ s.status = "pending" /\ s.attempts = 0
  BY <1>1, FieldsAreTyped DEF Job
<1> HIDE DEF s
<1> QED
  BY <1>2, <1>3, OneRests, FieldsAreTyped DEF Released

LEMMA FailWaitingRests ==
    ASSUME TypeInv, NEW j \in Jobs, FailWaiting(j)
    PROVE  JobsRest
<1> DEFINE r == job[j]
           n == r.attempts + 1
           status == IF r.attempts >= MaxAttempts - 1 THEN "failed" ELSE "pending"
           s == [r EXCEPT !.attempts = n, !.deferred = TRUE, !.status = status]
<1>1. r \in Job /\ r.attempts < MaxAttempts /\ r.attempts \in Nat
  BY DEF TypeInv, TypeOK, Counted, FailWaiting, Job
<1>2. /\ job' = [job EXCEPT ![j] = [r EXCEPT !.attempts = r.attempts + 1, !.deferred = TRUE,
                                         !.status = status]]
      /\ worker' = worker
  BY DEF FailWaiting
<1>3. /\ n \in 0..MaxAttempts /\ status \in {"failed", "pending"}
      /\ status = "pending" => n < MaxAttempts
  BY <1>1, AccountAccessAssumption
<1> HIDE DEF r, status
<1>0. job' = [job EXCEPT ![j] = s]
  BY <1>2
<1> HIDE DEF n
<1>4. s \in Job /\ s.status = status /\ s.attempts = n
  BY <1>1, <1>3 DEF Job
<1> HIDE DEF s
<1> QED
  BY <1>0, <1>2, <1>3, <1>4, OneRests DEF Released

LEMMA StaleRests ==
    ASSUME TypeInv, NEW j \in Jobs, ClaimStale(j)
    PROVE  JobsRest
<1> DEFINE r == job[j]
           s == [r EXCEPT !.stale = TRUE]
<1>1. /\ r \in Job /\ job \in [Jobs -> Job]
      /\ \A k \in Jobs : job[k].status = "pending" => job[k].attempts < MaxAttempts
  BY DEF TypeInv, TypeOK, Counted
<1>2. job' = [job EXCEPT ![j] = s] /\ worker' = worker /\ r.status = "processing"
      /\ \A w \in Workers : ~(r.by = w /\ worker[w].job = j)
  BY DEF ClaimStale
<1>3. r = job[j]
  OBVIOUS
<1> HIDE DEF r
<1>4. s \in Job /\ s.status = "processing" /\ s.attempts = r.attempts /\ s.by = r.by /\ s.stale
  BY <1>1, <1>2 DEF Job
<1> HIDE DEF s
<1>5. job' \in [Jobs -> Job] /\ job'[j] = s /\ \A k \in Jobs \ {j} : job'[k] = job[k]
  BY <1>1, <1>2, <1>4
<1>6. Rests(j)
  BY <1>2, <1>3, <1>4, <1>5 DEF Rests, GoesStale
<1>7. \A k \in Jobs \ {j} : Rests(k)
  BY <1>1, <1>5 DEF Rests, Same
<1> QED
  BY <1>2, <1>5, <1>6, <1>7 DEF JobsRest

\* Every step but a worker's.
Aside ==
    \/ Administer \/ QueueStep \/ FailInvitation \/ TimePasses \/ Visit
    \/ \E j \in Jobs : FailWaiting(j) \/ FailUnreadable(j)

LEMMA JobsAside == TypeInv /\ Aside => JobsRest
<1> SUFFICES ASSUME TypeInv, Aside PROVE JobsRest
  OBVIOUS
<1> USE DEF account, queue, access, bounds
<1>1. CASE Administer
  <2>1. CASE Disable \/ Recover
    BY <2>1, RevokedRest DEF Disable, Recover, RevokeAll
  <2>2. CASE Enable \/ RetryInvitation
    BY <2>2, NothingRests DEF Enable, RetryInvitation
  <2> QED
    BY <1>1, <2>1, <2>2, InviteRests, RetryRests DEF Administer
<1>2. CASE QueueStep
  <2>1. ASSUME NEW j \in Jobs, DropJob(j) PROVE JobsRest
    <3>1. \E status \in {"cancelled", "failed"} :
            job' = [job EXCEPT ![j] = [job[j] EXCEPT !.status = status]]
      BY <2>1 DEF DropJob
    <3> QED
      BY <2>1, <3>1, RowRests DEF DropJob
  <2> QED
    BY <1>2, <2>1, DeliverRests DEF QueueStep
<1>3. CASE FailInvitation
  BY <1>3, NothingRests DEF FailInvitation
<1>4. CASE TimePasses
  <2>1. CASE RetryDue
    <3>1. CASE UNCHANGED job
      BY <2>1, <3>1, NothingRests DEF RetryDue
    <3>2. ASSUME NEW j \in Jobs, job' = [job EXCEPT ![j].deferred = FALSE] PROVE JobsRest
      BY <2>1, <3>2, RowRests DEF RetryDue
    <3> QED
      BY <2>1, <3>1, <3>2 DEF RetryDue
  <2>2. ASSUME NEW j \in Jobs, JobAges(j) PROVE JobsRest
    BY <2>2, RowRests DEF JobAges
  <2>3. ASSUME NEW l \in Links, LinkExpires(l) PROVE JobsRest
    BY <2>3, NothingRests DEF LinkExpires
  <2> QED
    BY <1>4, <2>1, <2>2, <2>3, StaleRests DEF TimePasses
<1>5. CASE Visit
  <2>1. ASSUME NEW v \in Visitors, ResetPassword(v) \/ SetPassword(v) PROVE JobsRest
    BY <2>1, RevokedRest DEF ResetPassword, SetPassword, FinishPassword, RevokeAll
  <2>2. ASSUME NEW v \in Visitors,
               \/ \E l \in Links : PresentLink(v, l)
               \/ \E e \in sessions : PresentSession(v, e)
               \/ Consume(v) \/ Refuse(v)
        PROVE  JobsRest
    BY <2>2, NothingRests DEF PresentLink, PresentSession, Consume, Refuse
  <2>3. CASE PasswordLogin \/ \E e \in sessions : Logout(e)
    BY <2>3, NothingRests DEF PasswordLogin, Logout
  <2> QED
    BY <1>5, <2>1, <2>2, <2>3, RequestRests DEF Visit
<1>6. ASSUME NEW j \in Jobs, FailUnreadable(j) PROVE JobsRest
  BY <1>6, RowRests DEF FailUnreadable
<1> QED
  BY <1>1, <1>2, <1>3, <1>4, <1>5, <1>6, FailWaitingRests DEF Aside

----------------------------------------------------------------------------
(* What a step makes of the links, the sessions and the visitors. *)

\* The access is left alone, and a disabled account may be enabled.
Quiet == UNCHANGED <<access, visitor>> /\ (active => active')

Presents ==
    /\ UNCHANGED <<access, active, worker, job>>
    /\ \E v \in Visitors :
         \/ visitor' = [visitor EXCEPT ![v] = IdleVisitor]
         \/ \E e \in sessions :
              visitor' = [visitor EXCEPT ![v] = [pc |-> "session", link |-> NoLink, epoch |-> e]]
         \/ \E l \in Links :
              /\ link[l].state = "live"
              /\ visitor' = [visitor EXCEPT ![v] =
                               [pc |-> "link", link |-> l, epoch |-> link[l].epoch]]

\* Sessions begin in the current epoch, or end.
Signs ==
    /\ UNCHANGED <<active, link, epoch, opened, visitor, worker, job>>
    /\ sessions' \subseteq sessions \cup (IF active THEN {epoch} ELSE {})

\* A revocation, by a request that used a link, one that did not, or an administrator.
Revokes ==
    /\ job' = JobsRevoked /\ link' = LinksRevoked /\ epoch' = epoch + 1
    /\ edits < MaxEdits /\ edits' = edits + 1 /\ worker' = worker
    /\ sessions' = {} \/ (active' /\ sessions' = {epoch'})
    /\ active' \in BOOLEAN
    /\ \/ UNCHANGED <<opened, visitor>>
       \/ \E v \in Visitors :
            /\ visitor' = [visitor EXCEPT ![v] = IdleVisitor]
            /\ \/ opened' = opened
               \/ /\ visitor[v].pc = "link" /\ link[visitor[v].link].state = "live"
                  /\ opened' = [opened EXCEPT ![visitor[v].link] = @ + 1]

AnyClaim == \E w \in Workers, j \in Jobs, l \in Links : Claim(w, j, l)

(* Every step is of one of these shapes, or expires a link, or consumes one. *)
LEMMA StepShapes ==
    TypeInv /\ [Next]_vars =>
      \/ Quiet \/ Presents \/ Signs \/ Revokes \/ AnyClaim
      \/ \E l \in Links : LinkExpires(l)
      \/ \E v \in Visitors : Consume(v)
<1> SUFFICES ASSUME TypeInv, [Next]_vars
             PROVE  \/ Quiet \/ Presents \/ Signs \/ Revokes \/ AnyClaim
                    \/ \E l \in Links : LinkExpires(l)
                    \/ \E v \in Visitors : Consume(v)
  OBVIOUS
<1> USE DEF account, queue, access, bounds
<1>1. CASE UNCHANGED vars
  BY <1>1 DEF vars, Quiet
<1>2. CASE Administer
  <2>1. CASE (\E recent \in BOOLEAN : Invite(recent)) \/ Enable \/ RetryInvitation
             \/ \E j \in Jobs : RetryJob(j)
    BY <2>1 DEF Invite, Enable, RetryInvitation, RetryJob, Quiet
  <2>2. CASE Disable \/ Recover
    BY <2>2 DEF Disable, Recover, RevokeAll, MayEdit, Revokes
  <2> QED
    BY <1>2, <2>1, <2>2 DEF Administer
<1>3. CASE QueueStep
  BY <1>3 DEF QueueStep, DeliverInvitation, DropJob, Quiet
<1>4. ASSUME NEW w \in Workers, WorkerStep(w)
      PROVE  Quiet \/ AnyClaim
  BY <1>4 DEF WorkerStep, Recheck, Send, Finalise, Quiet, AnyClaim
<1>5. CASE Trouble
  BY <1>5 DEF Trouble, Crash, FailInvitation, FailWaiting, FailUnreadable, Quiet
<1>6. CASE TimePasses
  BY <1>6 DEF TimePasses, RetryDue, ClaimStale, JobAges, Quiet
<1>7. CASE Visit
  <2>1. CASE \E j \in Jobs, kind \in Kinds : Request(j, kind)
    BY <2>1 DEF Request, Quiet
  <2>2. ASSUME NEW v \in Visitors,
               \/ \E l \in Links : PresentLink(v, l)
               \/ \E e \in sessions : PresentSession(v, e)
               \/ Refuse(v)
        PROVE  Presents
    BY <2>2 DEF PresentLink, PresentSession, Refuse, Done, Presents
  <2>3. ASSUME NEW v \in Visitors, ResetPassword(v) \/ SetPassword(v)
        PROVE  Revokes
    <3>1. active' = active /\ active /\ FinishPassword /\ Done(v) /\ worker' = worker
      BY <2>3 DEF ResetPassword, SetPassword
    <3>2. \/ opened' = opened
          \/ /\ visitor[v].pc = "link" /\ link[visitor[v].link].state = "live"
             /\ opened' = [opened EXCEPT ![visitor[v].link] = @ + 1]
      BY <2>3 DEF ResetPassword, SetPassword, Usable
    <3> QED
      BY <3>1, <3>2 DEF FinishPassword, RevokeAll, Done, Revokes
  <2>4. CASE PasswordLogin \/ \E e \in sessions : Logout(e)
    BY <2>4 DEF PasswordLogin, Logout, Signs
  <2> QED
    BY <1>7, <2>1, <2>2, <2>3, <2>4 DEF Visit
<1> QED
  BY <1>1, <1>2, <1>3, <1>4, <1>5, <1>6, <1>7 DEF Next

(* The budget of edits and faults. *)
LEMMA BoundsAreTyped ==
    TypeInv /\ [Next]_vars =>
      edits' \in 0..MaxEdits /\ faults' \in 0..MaxFaults /\ edits <= edits'
<1> SUFFICES ASSUME TypeInv, [Next]_vars
             PROVE  (edits' = edits \/ MayEdit) /\ (faults' = faults \/ MayFail)
  BY AccountAccessAssumption DEF TypeInv, TypeOK, MayEdit, MayFail
<1> USE DEF account, queue, access, bounds
<1>1. CASE UNCHANGED vars
  BY <1>1 DEF vars
<1>2. CASE Administer
  BY <1>2 DEF Administer, Invite, Disable, Enable, Recover, RetryInvitation, RetryJob
<1>3. CASE QueueStep
  BY <1>3 DEF QueueStep, DeliverInvitation, DropJob
<1>4. ASSUME NEW w \in Workers, WorkerStep(w)
      PROVE  edits' = edits /\ (faults' = faults \/ MayFail)
  BY <1>4 DEF WorkerStep, Claim, Recheck, Send, Finalise
<1>5. CASE Trouble
  BY <1>5 DEF Trouble, Crash, FailInvitation, FailWaiting, FailUnreadable
<1>6. CASE TimePasses
  BY <1>6 DEF TimePasses, RetryDue, ClaimStale, JobAges, LinkExpires
<1>7. CASE Visit
  <2>1. ASSUME NEW v \in Visitors, ResetPassword(v) \/ SetPassword(v)
        PROVE  MayEdit /\ faults' = faults
    BY <2>1 DEF ResetPassword, SetPassword, FinishPassword, MayEdit
  <2> QED
    BY <1>7, <2>1 DEF Visit, Request, PresentLink, PresentSession, Refuse, Consume,
                      PasswordLogin, Logout
<1> QED
  BY <1>1, <1>2, <1>3, <1>4, <1>5, <1>6, <1>7 DEF Next

(* What a step adds to the links, the sessions and the visitors has its type. *)
LEMMA AccessIsTyped ==
    TypeInv /\ [Next]_vars =>
      /\ link' \in [Links -> Link] /\ sessions' \in SUBSET (0..MaxEdits)
      /\ epoch' \in 0..MaxEdits /\ epoch' <= edits'
      /\ visitor' \in [Visitors -> VisitorRow]
      /\ opened' \in [Links -> Nat]
<1> SUFFICES ASSUME TypeInv, [Next]_vars
             PROVE  /\ link' \in [Links -> Link] /\ sessions' \in SUBSET (0..MaxEdits)
                    /\ epoch' \in 0..MaxEdits /\ epoch' <= edits'
                    /\ visitor' \in [Visitors -> VisitorRow]
                    /\ opened' \in [Links -> Nat]
  OBVIOUS
<1>0. /\ link \in [Links -> Link] /\ sessions \in SUBSET (0..MaxEdits)
      /\ epoch \in 0..MaxEdits /\ epoch <= edits /\ edits \in 0..MaxEdits
      /\ visitor \in [Visitors -> VisitorRow] /\ opened \in [Links -> Nat]
      /\ edits' \in 0..MaxEdits /\ edits <= edits'
  BY BoundsAreTyped DEF TypeInv, TypeOK, Counted
<1>a. ASSUME NEW l \in Links, NEW state \in {"used", "expired", "deleted"}
      PROVE  [link[l] EXCEPT !.state = state] \in Link
  <2> DEFINE r == link[l]
  <2>1. r \in Link
    BY <1>0
  <2> HIDE DEF r
  <2>2. [r EXCEPT !.state = state] \in Link
    BY <2>1 DEF Link
  <2> QED
    BY <2>2 DEF r
<1>1. CASE Quiet
  BY <1>0, <1>1, AccountAccessAssumption DEF Quiet, access
<1>2. CASE Presents
  <2>1. PICK v \in Visitors, r \in VisitorRow : visitor' = [visitor EXCEPT ![v] = r]
    <3>1. \A e \in sessions : [pc |-> "session", link |-> NoLink, epoch |-> e] \in VisitorRow
      BY <1>0 DEF VisitorRow
    <3>2. \A l \in Links : [pc |-> "link", link |-> l, epoch |-> link[l].epoch] \in VisitorRow
      BY <1>0 DEF VisitorRow, Link
    <3> QED
      BY <1>2, <3>1, <3>2, RecordsAreTyped DEF Presents
  <2> QED
    BY <1>0, <1>2, <2>1, AccountAccessAssumption DEF Presents, access
<1>3. CASE Signs
  BY <1>0, <1>3, AccountAccessAssumption DEF Signs
<1>4. CASE Revokes
  <2>1. link' \in [Links -> Link]
    BY <1>0, <1>4, <1>a DEF Revokes, LinksRevoked
  <2>2. epoch' \in 0..MaxEdits /\ epoch' <= edits' /\ sessions' \in SUBSET (0..MaxEdits)
    BY <1>0, <1>4, AccountAccessAssumption DEF Revokes
  <2>3. visitor' \in [Visitors -> VisitorRow] /\ opened' \in [Links -> Nat]
    BY <1>0, <1>4, RecordsAreTyped DEF Revokes
  <2> QED
    BY <2>1, <2>2, <2>3
<1>5. ASSUME NEW w \in Workers, NEW j \in Jobs, NEW l \in Links, Claim(w, j, l)
      PROVE  link' \in [Links -> Link] /\ UNCHANGED <<sessions, epoch, opened, visitor>>
  <2>1. job[j].kind \in Kinds
    BY DEF TypeInv, TypeOK, Job
  <2>2. [state |-> "live", kind |-> job[j].kind, epoch |-> epoch] \in Link
    BY <1>0, <2>1 DEF Link
  <2> QED
    BY <1>0, <1>5, <2>2 DEF Claim
<1>6. ASSUME NEW l \in Links, LinkExpires(l)
      PROVE  link' \in [Links -> Link] /\ UNCHANGED <<sessions, epoch, opened, visitor>>
  BY <1>0, <1>6, <1>a DEF LinkExpires
<1>7. ASSUME NEW v \in Visitors, Consume(v)
      PROVE  /\ link' \in [Links -> Link] /\ UNCHANGED epoch
             /\ sessions' \in SUBSET (0..MaxEdits)
             /\ visitor' \in [Visitors -> VisitorRow] /\ opened' \in [Links -> Nat]
  <2>1. visitor[v].epoch \in 0..MaxEdits /\ visitor[v].link \in Links \cup {NoLink}
    BY <1>0 DEF VisitorRow
  <2>2. link' \in [Links -> Link]
    BY <1>0, <1>7, <1>a DEF Consume, Use
  <2>3. opened' \in [Links -> Nat]
    <3> DEFINE l == visitor[v].link
    <3>1. opened' = [opened EXCEPT ![l] = opened[l] + 1]
      BY <1>7 DEF Consume, Use
    <3> HIDE DEF l
    <3>2. l \in Links => opened[l] + 1 \in Nat
      BY <1>0
    <3> QED
      BY <1>0, <3>1, <3>2
  <2> QED
    BY <1>0, <1>7, <2>1, <2>2, <2>3, RecordsAreTyped DEF Consume, Done
<1>8. CASE AnyClaim \/ (\E l \in Links : LinkExpires(l)) \/ \E v \in Visitors : Consume(v)
  <2>1. UNCHANGED epoch
    BY <1>5, <1>6, <1>7, <1>8 DEF AnyClaim
  <2>2. epoch' \in 0..MaxEdits /\ epoch' <= edits'
    BY <1>0, <2>1
  <2> QED
    BY <1>0, <1>5, <1>6, <1>7, <1>8, <2>2 DEF AnyClaim
<1> QED
  BY <1>1, <1>2, <1>3, <1>4, <1>8, StepShapes

----------------------------------------------------------------------------
(* What was revoked opens nothing. *)

(* A link keeps the epoch of its issue, and what ended it does not come back. *)
LEMMA PresentedStays == Inv /\ [Next]_vars => Presented'
<1> SUFFICES ASSUME Inv, [Next]_vars PROVE Presented'
  OBVIOUS
<1>0. /\ link \in [Links -> Link] /\ visitor \in [Visitors -> VisitorRow]
      /\ opened \in [Links -> Nat] /\ Presented
  BY DEF Inv, TypeInv, TypeOK
<1> DEFINE Stays == \A l \in Links : link[l].state # "unissued" =>
                      link'[l].state # "unissued" /\ link'[l].epoch = link[l].epoch
<1>1. Stays
  <2>1. CASE Revokes
    BY <1>0, <2>1 DEF Revokes, LinksRevoked, Link
  <2>2. ASSUME NEW l \in Links, NEW state \in {"used", "expired"},
               link' = [link EXCEPT ![l].state = state]
        PROVE  Stays
    BY <1>0, <2>2 DEF Link
  <2>3. CASE AnyClaim
    BY <1>0, <2>3 DEF AnyClaim, Claim
  <2>4. ASSUME NEW v \in Visitors, Consume(v) PROVE Stays
    <3>1. visitor[v].link \in Links
      BY <1>0, <2>4 DEF Consume, Presented
    <3> QED
      BY <2>2, <2>4, <3>1 DEF Consume, Use
  <2>5. CASE Quiet \/ Presents \/ Signs
    BY <2>5 DEF Quiet, Presents, Signs, access
  <2> QED
    BY <2>1, <2>2, <2>3, <2>4, <2>5, StepShapes DEF Inv, LinkExpires
<1>2. \A v \in Visitors : visitor'[v] = visitor[v] \/ visitor'[v].pc # "link" \/
        \E l \in Links : link[l].state = "live" /\ visitor'[v].link = l
                          /\ visitor'[v].epoch = link[l].epoch
  <2>1. CASE Presents
    BY <1>0, <2>1 DEF Presents, IdleVisitor
  <2>2. CASE Revokes
    BY <1>0, <2>2 DEF Revokes, IdleVisitor
  <2>3. ASSUME NEW v \in Visitors, Consume(v) PROVE visitor' = [visitor EXCEPT ![v] = IdleVisitor]
    BY <2>3 DEF Consume, Done
  <2>4. CASE \E v \in Visitors : visitor' = [visitor EXCEPT ![v] = IdleVisitor]
    BY <1>0, <2>4 DEF IdleVisitor
  <2>5. CASE visitor' = visitor
    BY <2>5
  <2> QED
    BY <2>1, <2>2, <2>3, <2>4, <2>5, StepShapes DEF Inv, Quiet, Signs, AnyClaim, Claim, LinkExpires
<1> QED
  BY <1>0, <1>1, <1>2 DEF Presented

(* What a link was used for left it unusable. *)
LEMMA OpenedStays == Inv /\ [Next]_vars => OpenedSound'
<1> SUFFICES ASSUME Inv, [Next]_vars PROVE OpenedSound'
  OBVIOUS
<1>0. /\ link \in [Links -> Link] /\ visitor \in [Visitors -> VisitorRow]
      /\ opened \in [Links -> Nat] /\ OpenedSound /\ Presented
  BY DEF Inv, TypeInv, TypeOK
<1>1. CASE opened' = opened /\ \A l \in Links : link'[l].state \in {"unissued", "live"} =>
                                            link[l].state \in {"unissued", "live"}
  BY <1>1, <1>0 DEF OpenedSound
<1>2. ASSUME NEW l \in Links, link[l].state = "live", opened' = [opened EXCEPT ![l] = @ + 1],
             link'[l].state \notin {"unissued", "live"},
             \A k \in Links \ {l} : link'[k].state \in {"unissued", "live"} =>
                                     link[k].state \in {"unissued", "live"}
      PROVE  OpenedSound'
  <2>1. opened'[l] = 1 /\ \A k \in Links \ {l} : opened'[k] = opened[k]
    BY <1>0, <1>2 DEF OpenedSound
  <2> QED
    BY <1>0, <1>2, <2>1 DEF OpenedSound
<1>3. CASE Revokes
  <2>1. \A l \in Links : link'[l].state = IF link[l].state = "unissued" THEN "unissued" ELSE "deleted"
    BY <1>0, <1>3 DEF Revokes, LinksRevoked, Link
  <2>2. CASE opened' = opened
    BY <1>1, <2>1, <2>2
  <2>3. ASSUME NEW v \in Visitors, visitor[v].pc = "link", link[visitor[v].link].state = "live",
               opened' = [opened EXCEPT ![visitor[v].link] = @ + 1]
        PROVE  OpenedSound'
    <3>1. visitor[v].link \in Links
      BY <1>0, <2>3 DEF Presented
    <3> QED
      BY <1>2, <2>1, <2>3, <3>1
  <2> QED
    BY <1>3, <2>2, <2>3 DEF Revokes
<1>4. ASSUME NEW v \in Visitors, Consume(v) PROVE OpenedSound'
  <2>1. visitor[v].link \in Links
    BY <1>0, <1>4 DEF Consume, Presented
  <2>2. /\ \A k \in Links \ {visitor[v].link} : link'[k] = link[k]
        /\ link'[visitor[v].link].state = "used"
    BY <1>0, <1>4, <2>1 DEF Consume, Use, Link
  <2> QED
    BY <1>2, <1>4, <2>1, <2>2 DEF Consume, Use, Usable
<1>5. CASE AnyClaim
  BY <1>0, <1>1, <1>5 DEF AnyClaim, Claim
<1>6. CASE \E l \in Links : LinkExpires(l)
  BY <1>0, <1>1, <1>6 DEF LinkExpires, Link
<1>7. CASE Quiet \/ Presents \/ Signs
  BY <1>1, <1>7 DEF Quiet, Presents, Signs, access
<1> QED
  BY <1>3, <1>4, <1>5, <1>6, <1>7, StepShapes DEF Inv

(* Nothing of an earlier epoch is usable. *)
LEMMA AccessStaysCurrent == Inv /\ [Next]_vars => AccessIsCurrent'
<1> SUFFICES ASSUME Inv, [Next]_vars PROVE AccessIsCurrent'
  OBVIOUS
<1>0. /\ link \in [Links -> Link] /\ AccessIsCurrent /\ Presented /\ active \in BOOLEAN
      /\ epoch \in Int
  BY DEF Inv, TypeInv, TypeOK
<1>1. CASE Quiet
  BY <1>0, <1>1 DEF Quiet, access, AccessIsCurrent
<1>2. CASE Presents \/ Signs
  BY <1>0, <1>2 DEF Presents, Signs, access, AccessIsCurrent
<1>3. CASE Revokes
  <2>1. \A l \in Links : link'[l].state # "live"
    BY <1>0, <1>3 DEF Revokes, LinksRevoked, Link
  <2> QED
    BY <1>3, <2>1 DEF Revokes, AccessIsCurrent
<1>4. ASSUME NEW w \in Workers, NEW j \in Jobs, NEW l \in Links, Claim(w, j, l)
      PROVE  AccessIsCurrent'
  <2>1. active /\ UNCHANGED <<active, sessions, epoch>>
    BY <1>0, <1>4 DEF Claim, Void, account
  <2>2. link'[l].epoch = epoch /\ \A k \in Links \ {l} : link'[k] = link[k]
    BY <1>0, <1>4 DEF Claim
  <2> QED
    BY <1>0, <2>1, <2>2 DEF AccessIsCurrent
<1>5. ASSUME NEW v \in Visitors, Consume(v) PROVE AccessIsCurrent'
  <2>1. /\ visitor[v].link \in Links /\ link[visitor[v].link].state = "live"
        /\ visitor[v].epoch = link[visitor[v].link].epoch
    BY <1>0, <1>5 DEF Consume, Presented, Usable
  <2>2. active /\ UNCHANGED <<active, epoch>> /\ sessions' = sessions \cup {epoch}
    BY <1>0, <1>5, <2>1 DEF Consume, account, AccessIsCurrent
  <2>3. /\ \A k \in Links \ {visitor[v].link} : link'[k] = link[k]
        /\ link'[visitor[v].link].state = "used"
    BY <1>0, <1>5, <2>1 DEF Consume, Use, Link
  <2> QED
    BY <1>0, <2>2, <2>3 DEF AccessIsCurrent
<1>6. CASE \E l \in Links : LinkExpires(l)
  BY <1>0, <1>6 DEF LinkExpires, Link, AccessIsCurrent, account
<1> QED
  BY <1>1, <1>2, <1>3, <1>4, <1>5, <1>6, StepShapes DEF Inv, AnyClaim

----------------------------------------------------------------------------
(* What a worker's step makes of the queue. *)

LEMMA ClaimIsTyped ==
    ASSUME TypeInv, NEW w \in Workers, NEW j \in Jobs, NEW l \in Links, Claim(w, j, l)
    PROVE  /\ job' \in [Jobs -> Job] /\ \A k \in Jobs \ {j} : job'[k] = job[k]
           /\ job'[j].status = "processing" /\ job'[j].by = w /\ ~job'[j].stale
           /\ job'[j].attempts = job[j].attempts + 1
           /\ worker' \in [Workers -> WorkerRow]
<1> DEFINE r == job[j]
           n == r.attempts + 1
           s == [r EXCEPT !.status = "processing", !.by = w, !.stale = FALSE, !.attempts = n]
           row == [pc |-> "claimed", job |-> j, link |-> l, attempt |-> n, erred |-> FALSE]
<1>1. /\ job \in [Jobs -> Job] /\ worker \in [Workers -> WorkerRow]
      /\ r \in Job /\ r.attempts < MaxAttempts /\ r.attempts \in Nat
  BY AccountAccessAssumption DEF TypeInv, TypeOK, Claim, Exhausted, Job
<1>2. job' = [job EXCEPT ![j] = s] /\ worker' = [worker EXCEPT ![w] = row]
  BY DEF Claim
<1>3. n \in 0..MaxAttempts
  BY <1>1, AccountAccessAssumption
<1>4. row \in WorkerRow
  BY <1>3 DEF WorkerRow
<1>5. n = job[j].attempts + 1
  OBVIOUS
<1> HIDE DEF n, r, row
<1>6. /\ s \in Job /\ s.status = "processing" /\ s.by = w /\ ~s.stale /\ s.attempts = n
  BY <1>1, <1>3 DEF Job
<1> HIDE DEF s
<1> QED
  BY <1>1, <1>2, <1>4, <1>5, <1>6

(* The job of a claim that was revoked meanwhile is cancelled, or another's is. *)
LEMMA RecheckIsTyped ==
    ASSUME TypeInv, NEW w \in Workers, worker[w].job \in Jobs, Recheck(w)
    PROVE  /\ worker' \in [Workers -> WorkerRow]
           /\ \/ UNCHANGED job
              \/ \E s \in Job : s.status = "cancelled" /\ job' = [job EXCEPT ![worker[w].job] = s]
           /\ \/ worker' = [worker EXCEPT ![w].pc = "sending"] /\ UNCHANGED job
              \/ worker' = [worker EXCEPT ![w] = IdleWorker]
<1> DEFINE r == job[worker[w].job]  u == worker[w]
<1>1. r \in Job /\ u \in WorkerRow /\ worker \in [Workers -> WorkerRow]
  BY DEF TypeInv, TypeOK
<1>2. \/ UNCHANGED job
      \/ job' = [job EXCEPT ![worker[w].job] = [r EXCEPT !.status = "cancelled"]]
  BY DEF Recheck
<1>3. \/ worker' = [worker EXCEPT ![w] = [u EXCEPT !.pc = "sending"]] /\ UNCHANGED job
      \/ worker' = [worker EXCEPT ![w] = IdleWorker]
  BY DEF Recheck, Leave
<1>4. \/ worker' = [worker EXCEPT ![w].pc = "sending"] /\ UNCHANGED job
      \/ worker' = [worker EXCEPT ![w] = IdleWorker]
  BY <1>3
<1> HIDE DEF r, u
<1>5. [r EXCEPT !.status = "cancelled"] \in Job /\ [r EXCEPT !.status = "cancelled"].status = "cancelled"
  BY <1>1 DEF Job
<1>6. [u EXCEPT !.pc = "sending"] \in WorkerRow
  BY <1>1 DEF WorkerRow
<1>7. worker' \in [Workers -> WorkerRow]
  BY <1>1, <1>3, <1>6, RecordsAreTyped
<1> QED
  BY <1>2, <1>4, <1>5, <1>7

LEMMA SendIsTyped ==
    ASSUME TypeInv, NEW w \in Workers, NEW erred \in BOOLEAN, Send(w, erred)
    PROVE  /\ worker' \in [Workers -> WorkerRow] /\ UNCHANGED job
           /\ worker' = [worker EXCEPT ![w].pc = "answered", ![w].erred = erred]
<1> DEFINE u == worker[w]
<1>1. u \in WorkerRow /\ worker \in [Workers -> WorkerRow]
  BY DEF TypeInv, TypeOK
<1>2. worker' = [worker EXCEPT ![w] = [u EXCEPT !.pc = "answered", !.erred = erred]]
  BY DEF Send
<1> HIDE DEF u
<1>3. [u EXCEPT !.pc = "answered", !.erred = erred] \in WorkerRow
  BY <1>1 DEF WorkerRow
<1> QED
  BY <1>1, <1>2, <1>3 DEF Send, queue, u

(* A worker that still owns its job settles it; it is void, sent, failed, or waits. *)
LEMMA FinaliseIsTyped ==
    ASSUME TypeInv, NEW w \in Workers, worker[w].job \in Jobs, Finalise(w)
    PROVE  /\ worker' = [worker EXCEPT ![w] = IdleWorker]
           /\ IF Owns(w)
                THEN \E s \in Job :
                       /\ job' = [job EXCEPT ![worker[w].job] = s]
                       /\ s.status = Outcome(w) /\ s.by = Nobody
                       /\ Outcome(w) \in {"cancelled", "sent", "failed", "pending"}
                       /\ s.status = "pending" => s.attempts < MaxAttempts
                ELSE UNCHANGED job
<1> DEFINE j == worker[w].job
           r == job[j]
           deferred == IF Void(j) THEN r.deferred ELSE ~Void(j) /\ worker[w].erred
           status == Outcome(w)
           s == [r EXCEPT !.status = status, !.by = Nobody, !.deferred = deferred]
<1>1. worker' = [worker EXCEPT ![w] = IdleWorker] /\ (~Owns(w) => UNCHANGED job)
  BY DEF Finalise, Leave, queue
<1>2. CASE Owns(w)
  <2>1. r \in Job /\ worker[w] \in WorkerRow /\ r.attempts = worker[w].attempt
    BY <1>2 DEF TypeInv, TypeOK, Owns
  <2>2. job' = [job EXCEPT ![j] = s]
    BY <1>2 DEF Finalise
  <2>3. status \in {"cancelled", "sent", "failed", "pending"}
    BY DEF Outcome
  <2>4. status = "pending" => r.attempts < MaxAttempts
    BY <2>1, AccountAccessAssumption DEF Outcome, WorkerRow
  <2>5. deferred \in BOOLEAN
    BY <2>1 DEF Job, WorkerRow
  <2> HIDE DEF deferred, status, r
  <2>6. s \in Job /\ s.status = status /\ s.by = Nobody /\ s.attempts = r.attempts
    BY <2>1, <2>3, <2>5, FieldsAreTyped DEF Job
  <2> HIDE DEF s
  <2> QED
    BY <1>1, <1>2, <2>2, <2>3, <2>4, <2>6 DEF status
<1> QED
  BY <1>1, <1>2

----------------------------------------------------------------------------
(* Invariance. *)

LEMMA InvitationIsTyped == TypeInv /\ [Next]_vars => inv' \in Invitation
<1> SUFFICES ASSUME TypeInv, [Next]_vars PROVE inv' \in Invitation
  OBVIOUS
<1> DEFINE r == inv
<1>0. r \in Invitation /\ NewInvitation \in Invitation
  BY RecordsAreTyped DEF TypeInv, TypeOK
<1>a. ASSUME NEW state \in {"absent", "pending", "sent", "failed", "cancelled"},
             NEW erred \in BOOLEAN, NEW deferred \in BOOLEAN, NEW accepted \in BOOLEAN,
             inv' \in {r, [r EXCEPT !.status = state], [r EXCEPT !.accepted = accepted],
                       [r EXCEPT !.deferred = deferred], [r EXCEPT !.status = state, !.erred = erred],
                       [r EXCEPT !.status = state, !.erred = erred, !.deferred = deferred],
                       NewInvitation}
      PROVE  inv' \in Invitation
  <2> HIDE DEF r
  <2> QED
    BY <1>0, <1>a DEF Invitation
<1> USE DEF account, queue, access, bounds
<1>1. CASE UNCHANGED vars
  BY <1>0, <1>1 DEF vars
<1>2. CASE Administer
  <2>1. \/ inv' = r \/ inv' = NewInvitation \/ inv' = [r EXCEPT !.status = "cancelled"]
        \/ inv' = [r EXCEPT !.status = "pending", !.erred = FALSE, !.deferred = FALSE]
    BY <1>2 DEF Administer, Invite, Disable, Enable, Recover, RetryInvitation, RetryJob
  <2> HIDE DEF r
  <2> QED
    BY <1>a, <2>1
<1>3. CASE QueueStep
  <2>1. \/ inv' = r \/ inv' = [r EXCEPT !.status = "cancelled"]
        \/ inv' = [r EXCEPT !.status = "failed", !.erred = TRUE]
    BY <1>3 DEF QueueStep, DeliverInvitation, DropJob
  <2> HIDE DEF r
  <2> QED
    BY <1>a, <2>1
<1>4. ASSUME NEW w \in Workers, WorkerStep(w) PROVE inv' \in Invitation
  <2>1. CASE Finalise(w)
    <3> DEFINE failed == ~Void(worker[w].job) /\ worker[w].erred
               status == Outcome(w)
    <3>1. status \in {"cancelled", "sent", "failed", "pending"} /\ failed \in BOOLEAN
      BY DEF Outcome
    <3>2. \/ inv' = r
          \/ inv' = [r EXCEPT !.status = status, !.erred = failed, !.deferred = failed]
      BY <2>1 DEF Finalise
    <3> HIDE DEF status, failed, r
    <3> QED
      BY <1>a, <3>1, <3>2
  <2> QED
    BY <1>0, <1>4, <2>1 DEF WorkerStep, Claim, Recheck, Send
<1>5. CASE Trouble
  <2>1. \/ inv' = r
        \/ \E status \in {"pending", "failed"} :
             inv' = [r EXCEPT !.status = status, !.erred = TRUE, !.deferred = TRUE]
        \/ inv' = [r EXCEPT !.status = "failed", !.erred = TRUE]
    BY <1>5 DEF Trouble, Crash, FailInvitation, FailWaiting, FailUnreadable
  <2> HIDE DEF r
  <2> QED
    BY <1>a, <2>1
<1>6. CASE TimePasses
  <2>1. inv' = r \/ inv' = [r EXCEPT !.deferred = FALSE]
    BY <1>6 DEF TimePasses, RetryDue, ClaimStale, JobAges, LinkExpires
  <2> HIDE DEF r
  <2> QED
    BY <1>a, <2>1
<1>7. CASE Visit
  <2>1. ASSUME NEW v \in Visitors, ResetPassword(v) \/ SetPassword(v) \/ Consume(v)
        PROVE  inv' = r \/ inv' = [r EXCEPT !.accepted = TRUE]
    BY <2>1 DEF ResetPassword, SetPassword, Consume, FinishPassword
  <2>2. inv' = r \/ inv' = [r EXCEPT !.accepted = TRUE]
    BY <1>7, <2>1 DEF Visit, Request, PresentLink, PresentSession, Refuse, PasswordLogin, Logout
  <2> HIDE DEF r
  <2> QED
    BY <1>a, <2>2
<1> QED
  BY <1>1, <1>2, <1>3, <1>4, <1>5, <1>6, <1>7 DEF Next

LEMMA AccountIsTyped == TypeInv /\ [Next]_vars => active' \in BOOLEAN /\ password' \in BOOLEAN
<1> SUFFICES ASSUME TypeInv, [Next]_vars PROVE active' \in BOOLEAN /\ password' \in BOOLEAN
  OBVIOUS
<1>0. active \in BOOLEAN /\ password \in BOOLEAN
  BY DEF TypeInv, TypeOK
<1> SUFFICES active' \in {active, TRUE, FALSE} /\ password' \in {password, TRUE}
  BY <1>0
<1> USE DEF account, queue, access, bounds
<1>1. CASE UNCHANGED vars
  BY <1>1 DEF vars
<1>2. CASE Administer
  BY <1>2 DEF Administer, Invite, Disable, Enable, Recover, RetryInvitation, RetryJob
<1>3. CASE QueueStep
  BY <1>3 DEF QueueStep, DeliverInvitation, DropJob
<1>4. ASSUME NEW w \in Workers, WorkerStep(w) PROVE UNCHANGED account
  BY <1>4 DEF WorkerStep, Claim, Recheck, Send, Finalise
<1>5. CASE Trouble
  BY <1>5 DEF Trouble, Crash, FailInvitation, FailWaiting, FailUnreadable
<1>6. CASE TimePasses
  BY <1>6 DEF TimePasses, RetryDue, ClaimStale, JobAges, LinkExpires
<1>7. CASE Visit
  <2>1. ASSUME NEW v \in Visitors, ResetPassword(v) \/ SetPassword(v)
        PROVE  active' = active /\ password' = TRUE
    BY <2>1 DEF ResetPassword, SetPassword, FinishPassword
  <2> QED
    BY <1>7, <2>1 DEF Visit, Request, PresentLink, PresentSession, Refuse, Consume,
                      PasswordLogin, Logout
<1> QED
  BY <1>1, <1>2, <1>3, <1>4, <1>5, <1>6, <1>7 DEF Next

\* The steps of one worker.
Acts(w) == WorkerStep(w) \/ Crash(w)

LEMMA AsideOrActs == [Next]_vars <=> UNCHANGED vars \/ Aside \/ \E w \in Workers : Acts(w)
BY DEF Next, Trouble, Aside, Acts

(* The queue and the workers keep their types in a worker's step. *)
LEMMA ActsTyped ==
    ASSUME TypeInv, ClaimsSound, NEW w \in Workers, Acts(w)
    PROVE  /\ job' \in [Jobs -> Job] /\ worker' \in [Workers -> WorkerRow]
           /\ \A k \in Jobs : job'[k].status = "pending" => job'[k].attempts < MaxAttempts
<1>0. /\ job \in [Jobs -> Job] /\ worker \in [Workers -> WorkerRow]
      /\ \A k \in Jobs : job[k].status = "pending" => job[k].attempts < MaxAttempts
  BY DEF TypeInv, TypeOK, Counted
<1>1. ASSUME NEW j \in Jobs, NEW s \in Job, job' = [job EXCEPT ![j] = s],
             s.status = "pending" => s.attempts < MaxAttempts
      PROVE  /\ job' \in [Jobs -> Job]
             /\ \A k \in Jobs : job'[k].status = "pending" => job'[k].attempts < MaxAttempts
  BY <1>0, <1>1
<1>2. ASSUME NEW j \in Jobs, NEW l \in Links, Claim(w, j, l)
      PROVE  /\ job' \in [Jobs -> Job] /\ worker' \in [Workers -> WorkerRow]
             /\ \A k \in Jobs : job'[k].status = "pending" => job'[k].attempts < MaxAttempts
  BY <1>0, <1>2, ClaimIsTyped
<1>3. CASE Recheck(w)
  <2>1. worker[w].job \in Jobs
    BY <1>3 DEF Recheck, ClaimsSound
  <2>2. /\ worker' \in [Workers -> WorkerRow]
        /\ \/ UNCHANGED job
           \/ \E s \in Job : s.status = "cancelled" /\ job' = [job EXCEPT ![worker[w].job] = s]
    BY <1>3, <2>1, RecheckIsTyped
  <2> QED
    BY <1>0, <1>1, <2>1, <2>2
<1>4. ASSUME NEW erred \in BOOLEAN, Send(w, erred)
      PROVE  worker' \in [Workers -> WorkerRow] /\ UNCHANGED job
  BY <1>4, SendIsTyped
<1>5. CASE Finalise(w)
  <2>1. worker[w].job \in Jobs
    BY <1>5 DEF Finalise, ClaimsSound
  <2>2. worker' \in [Workers -> WorkerRow]
    BY <1>0, <1>5, <2>1, FinaliseIsTyped, RecordsAreTyped
  <2>3. CASE Owns(w)
    BY <1>1, <1>5, <2>1, <2>2, <2>3, FinaliseIsTyped
  <2>4. CASE ~Owns(w)
    BY <1>0, <1>5, <2>1, <2>2, <2>4, FinaliseIsTyped
  <2> QED
    BY <2>3, <2>4
<1>6. CASE Crash(w)
  BY <1>0, <1>6, RecordsAreTyped DEF Crash, Leave, queue
<1> QED
  BY <1>0, <1>2, <1>3, <1>4, <1>5, <1>6 DEF Acts, WorkerStep

LEMMA TypesStay == Inv /\ [Next]_vars => TypeInv'
<1> SUFFICES ASSUME Inv, [Next]_vars PROVE TypeInv'
  OBVIOUS
<1>0. TypeInv /\ ClaimsSound
  BY DEF Inv
<1>1. /\ job' \in [Jobs -> Job] /\ worker' \in [Workers -> WorkerRow]
      /\ \A k \in Jobs : job'[k].status = "pending" => job'[k].attempts < MaxAttempts
  <2>1. JobsRest \/ \E w \in Workers : Acts(w)
    BY <1>0, AsideOrActs, JobsAside, NothingRests DEF vars, queue
  <2>2. CASE JobsRest
    BY <1>0, <2>2 DEF JobsRest, Rests, TypeInv, TypeOK
  <2> QED
    BY <1>0, <2>1, <2>2, ActsTyped
<1> QED
  BY <1>0, <1>1, BoundsAreTyped, AccessIsTyped, InvitationIsTyped, AccountIsTyped
     DEF TypeInv, TypeOK, Counted

(* A link is only revoked together with every claim. *)
LEMMA KeptOrRevoked ==
    Inv /\ [Next]_vars =>
      \/ \A l \in Links : Kept(l) => Kept(l)'
      \/ worker' = worker /\ \A j \in Jobs : job'[j].status # "processing"
<1> SUFFICES ASSUME Inv, [Next]_vars
             PROVE  \/ \A l \in Links : Kept(l) => Kept(l)'
                    \/ worker' = worker /\ \A j \in Jobs : job'[j].status # "processing"
  OBVIOUS
<1>0. link \in [Links -> Link] /\ TypeInv /\ Presented
  BY DEF Inv, TypeInv, TypeOK
<1>1. CASE Revokes
  BY <1>0, <1>1, RevokedRest DEF Revokes
<1>2. CASE Quiet \/ Presents \/ Signs
  BY <1>2 DEF Quiet, Presents, Signs, access, Kept
<1>3. CASE AnyClaim
  BY <1>0, <1>3 DEF AnyClaim, Claim, Kept, Link
<1>4. CASE \E l \in Links : LinkExpires(l)
  BY <1>0, <1>4 DEF LinkExpires, Kept, Link
<1>5. ASSUME NEW v \in Visitors, Consume(v) PROVE \A l \in Links : Kept(l) => Kept(l)'
  BY <1>0, <1>5 DEF Consume, Use, Presented, Kept, Link
<1> QED
  BY <1>0, <1>1, <1>2, <1>3, <1>4, <1>5, StepShapes

(* A worker gains a job by a claim only, and loses it with its link. *)
LEMMA ClaimsStaySound == Inv /\ [Next]_vars => ClaimsSound'
<1> SUFFICES ASSUME Inv, [Next]_vars PROVE ClaimsSound'
  OBVIOUS
<1>0. /\ TypeInv /\ ClaimsSound /\ job \in [Jobs -> Job] /\ worker \in [Workers -> WorkerRow]
      /\ link \in [Links -> Link]
  BY DEF Inv, TypeInv, TypeOK
<1> DEFINE Sound(u) == IF worker[u].pc = "idle" THEN worker[u].job = NoJob
                       ELSE /\ worker[u].job \in Jobs /\ worker[u].link \in Links
                            /\ Owns(u) => ~job[worker[u].job].stale /\ Kept(worker[u].link)
<1>a. (\A u \in Workers : Sound(u)) /\ ((\A u \in Workers : Sound(u)') => ClaimsSound')
  BY <1>0 DEF ClaimsSound
<1>1. CASE worker' = worker /\ \A j \in Jobs : job'[j].status # "processing"
  BY <1>0, <1>1 DEF ClaimsSound, Owns
<1>2. CASE JobsRest /\ \A l \in Links : Kept(l) => Kept(l)'
  <2>1. ASSUME NEW u \in Workers, worker[u].pc # "idle", Owns(u)'
        PROVE  Owns(u) /\ ~job'[worker[u].job].stale
    <3>1. worker' = worker /\ worker[u].job \in Jobs /\ Rests(worker[u].job)
      BY <1>0, <1>2, <2>1 DEF JobsRest, ClaimsSound
    <3>2. Same(job[worker[u].job], job'[worker[u].job])
      BY <2>1, <3>1 DEF Rests, Released, GoesStale, Owns
    <3>3. Owns(u)
      BY <2>1, <3>1, <3>2 DEF Owns, Same
    <3> QED
      BY <1>0, <2>1, <3>2, <3>3 DEF Same, ClaimsSound
  <2> QED
    BY <1>0, <1>2, <2>1 DEF ClaimsSound, JobsRest
<1>3. ASSUME NEW w \in Workers, Acts(w), \A l \in Links : Kept(l) => Kept(l)'
      PROVE  ClaimsSound'
  <2>1. ASSUME NEW u \in Workers, worker'[u].job = worker[u].job, worker'[u].link = worker[u].link,
               worker'[u].attempt = worker[u].attempt, worker[u].pc # "idle", worker'[u].pc # "idle",
               \/ job'[worker[u].job] = job[worker[u].job]
               \/ job'[worker[u].job].status # "processing"
               \/ job'[worker[u].job].by # u
        PROVE  Sound(u)'
    BY <1>0, <1>3, <2>1 DEF ClaimsSound, Owns
  <2>2. ASSUME NEW u \in Workers, worker'[u] = IdleWorker PROVE Sound(u)'
    BY <2>2 DEF IdleWorker
  <2>3. ASSUME NEW u \in Workers, worker'[u] = worker[u], worker[u].pc = "idle" PROVE Sound(u)'
    BY <1>a, <2>3
  <2>4. ASSUME NEW u \in Workers \ {w}, worker'[u] = worker[u],
               \A j \in Jobs : \/ job'[j] = job[j] \/ job'[j].status # "processing"
                              \/ job'[j].by = w
        PROVE  Sound(u)'
    BY <1>0, <2>1, <2>3, <2>4 DEF ClaimsSound
  <2>5. ASSUME NEW j \in Jobs, NEW l \in Links, Claim(w, j, l) PROVE ClaimsSound'
    <3>1. \A u \in Workers \ {w} : worker'[u] = worker[u]
      BY <1>0, <2>5 DEF Claim
    <3>2. /\ \A k \in Jobs \ {j} : job'[k] = job[k]
          /\ job'[j].by = w /\ ~job'[j].stale
      BY <1>0, <2>5, ClaimIsTyped
    <3>3. worker'[w].pc = "claimed" /\ worker'[w].job = j /\ worker'[w].link = l
          /\ Kept(l)'
      BY <1>0, <2>5 DEF Claim, Kept
    <3>4. Sound(w)'
      BY <3>2, <3>3
    <3> QED
      BY <1>a, <2>4, <3>1, <3>2, <3>4
  <2>6. CASE Recheck(w)
    <3>1. worker[w].job \in Jobs
      BY <1>0, <2>6 DEF Recheck, ClaimsSound
    <3>2. \A j \in Jobs : job'[j] = job[j] \/ job'[j].status # "processing"
      BY <1>0, <2>6, <3>1, RecheckIsTyped
    <3>3. \/ worker' = [worker EXCEPT ![w].pc = "sending"] /\ UNCHANGED job
          \/ worker' = [worker EXCEPT ![w] = IdleWorker]
      BY <1>0, <2>6, <3>1, RecheckIsTyped
    <3>4. Sound(w)'
      <4>1. CASE worker' = [worker EXCEPT ![w].pc = "sending"] /\ UNCHANGED job
        BY <1>0, <2>1, <2>6, <4>1 DEF Recheck, WorkerRow
      <4> QED
        BY <1>0, <2>2, <3>3, <4>1
    <3> QED
      BY <1>0, <1>a, <2>4, <3>2, <3>3, <3>4
  <2>7. ASSUME NEW erred \in BOOLEAN, Send(w, erred) PROVE ClaimsSound'
    <3>1. UNCHANGED job /\ worker' = [worker EXCEPT ![w].pc = "answered", ![w].erred = erred]
      BY <1>0, <2>7, SendIsTyped
    <3>2. Sound(w)'
      BY <1>0, <2>1, <2>7, <3>1 DEF Send, WorkerRow
    <3> QED
      BY <1>0, <1>a, <2>4, <3>1, <3>2
  <2>8. CASE Finalise(w)
    <3>1. worker[w].job \in Jobs
      BY <1>0, <2>8 DEF Finalise, ClaimsSound
    <3>2. worker' = [worker EXCEPT ![w] = IdleWorker]
      BY <1>0, <2>8, <3>1, FinaliseIsTyped
    <3>3. \A j \in Jobs : job'[j] = job[j] \/ job'[j].status # "processing"
      BY <1>0, <2>8, <3>1, FinaliseIsTyped
    <3> QED
      BY <1>0, <1>a, <2>2, <2>4, <3>2, <3>3
  <2>9. CASE Crash(w)
    BY <1>0, <1>a, <2>2, <2>4, <2>9 DEF Crash, Leave, queue
  <2> QED
    BY <1>3, <2>5, <2>6, <2>7, <2>8, <2>9 DEF Acts, WorkerStep
<1>4. JobsRest \/ \E w \in Workers : Acts(w)
  BY <1>0, AsideOrActs, JobsAside, NothingRests DEF vars, queue
<1> QED
  BY <1>1, <1>2, <1>3, <1>4, KeptOrRevoked

LEMMA InitHolds == Init => Inv
<1> SUFFICES ASSUME Init PROVE Inv
  OBVIOUS
<1>0. /\ AbsentJob \in Job /\ Unissued \in Link /\ IdleWorker \in WorkerRow
      /\ IdleVisitor \in VisitorRow
  BY RecordsAreTyped
<1>1. inv \in Invitation
  <2> DEFINE r == NewInvitation
  <2>1. r \in Invitation /\ inv = [r EXCEPT !.status = "absent"]
    BY RecordsAreTyped DEF Init
  <2> HIDE DEF r
  <2> QED
    BY <2>1 DEF Invitation
<1>2. TypeOK
  <2>1. 0 \in 0..MaxEdits /\ 0 \in 0..MaxFaults
    BY FieldsAreTyped
  <2> QED
    BY <1>0, <1>1, <2>1 DEF Init, TypeOK
<1>3. Counted
  BY DEF Init, Counted, AbsentJob
<1>4. ClaimsSound /\ Presented
  BY DEF Init, ClaimsSound, Presented, IdleWorker, IdleVisitor
<1>5. OpenedSound /\ AccessIsCurrent
  BY DEF Init, OpenedSound, AccessIsCurrent, Unissued
<1> QED
  BY <1>2, <1>3, <1>4, <1>5 DEF Inv, TypeInv

(* The inductive invariant. *)
THEOREM Invariant == Spec => []Inv
<1>1. Inv /\ [Next]_vars => Inv'
  BY TypesStay, ClaimsStaySound, PresentedStays, OpenedStays, AccessStaysCurrent DEF Inv
<1> QED
  BY InitHolds, <1>1, PTL DEF Spec

(* Every variable has its type. *)
THEOREM TypeCorrect == Spec => []TypeOK
<1>1. Inv => TypeOK
  BY DEF Inv, TypeInv
<1> QED
  BY Invariant, <1>1, PTL

(* A revocation is final: only a credential issued since the last one opens anything. *)
THEOREM RevocationIsFinal == Spec => []AccessIsCurrent
<1>1. Inv => AccessIsCurrent
  BY DEF Inv
<1> QED
  BY Invariant, <1>1, PTL

(* Of two requests that found a link usable, one uses it. *)
THEOREM OpensOnce == Spec => []LinkUsedOnce
<1>1. Inv => LinkUsedOnce
  BY DEF Inv, OpenedSound, LinkUsedOnce
<1> QED
  BY Invariant, <1>1, PTL

----------------------------------------------------------------------------
(* What a step may never do. *)

LEMMA FirstPassword ==
    ASSUME Inv, [Next]_vars, ~password, password'
    PROVE  \E v \in Visitors : visitor[v].pc # "idle" /\ visitor'[v].pc = "idle" /\ visitor[v].epoch = epoch
<1>0. /\ link \in [Links -> Link] /\ visitor \in [Visitors -> VisitorRow]
      /\ Presented /\ AccessIsCurrent
  BY DEF Inv, TypeInv, TypeOK
<1> USE DEF account, queue, access, bounds
<1>1. ASSUME NEW v \in Visitors, ResetPassword(v) \/ SetPassword(v)
      PROVE  /\ visitor[v].pc # "idle" /\ visitor'[v].pc = "idle"
             /\ visitor[v].epoch = epoch
  <2>1. visitor[v].pc # "idle" /\ visitor'[v].pc = "idle"
    BY <1>0, <1>1 DEF ResetPassword, SetPassword, Done, IdleVisitor
  <2>2. CASE ResetPassword(v)
    BY <1>0, <2>1, <2>2 DEF ResetPassword, Usable, Presented, AccessIsCurrent
  <2>3. CASE SetPassword(v)
    BY <1>0, <2>1, <2>3 DEF SetPassword, StillSignedIn, AccessIsCurrent
  <2> QED
    BY <1>1, <2>1, <2>2, <2>3
<1>2. password' = password \/ \E v \in Visitors : ResetPassword(v) \/ SetPassword(v)
  <2>1. CASE UNCHANGED vars
    BY <2>1 DEF vars
  <2>2. CASE Administer
    BY <2>2 DEF Administer, Invite, Disable, Enable, Recover, RetryInvitation, RetryJob
  <2>3. CASE QueueStep
    BY <2>3 DEF QueueStep, DeliverInvitation, DropJob
  <2>4. ASSUME NEW w \in Workers, WorkerStep(w) PROVE password' = password
    BY <2>4 DEF WorkerStep, Claim, Recheck, Send, Finalise
  <2>5. CASE Trouble
    BY <2>5 DEF Trouble, Crash, FailInvitation, FailWaiting, FailUnreadable
  <2>6. CASE TimePasses
    BY <2>6 DEF TimePasses, RetryDue, ClaimStale, JobAges, LinkExpires
  <2>7. CASE Visit
    BY <2>7 DEF Visit, Request, PresentLink, PresentSession, Refuse, Consume, PasswordLogin, Logout
  <2> QED
    BY <2>1, <2>2, <2>3, <2>4, <2>5, <2>6, <2>7 DEF Next
<1> QED
  BY <1>1, <1>2

(* Nobody chooses the first password with access that was revoked. *)
THEOREM PasswordIsCurrent == Spec => PasswordByCurrentAccess
<1>1. Inv /\ [Next]_vars =>
        [~password /\ password' =>
           \E v \in Visitors : /\ visitor[v].pc # "idle" /\ visitor'[v].pc = "idle"
                               /\ visitor[v].epoch = epoch]_vars
  BY FirstPassword
<1> QED
  BY Invariant, <1>1, PTL DEF Spec, PasswordByCurrentAccess

LEMMA SendingStarts ==
    ASSUME Inv, [Next]_vars, NEW w \in Workers, worker'[w].pc = "sending", worker[w].pc # "sending"
    PROVE  Recheck(w) /\ Owns(w) /\ ~Void(worker[w].job)
<1>0. TypeInv /\ worker \in [Workers -> WorkerRow] /\ ClaimsSound
  BY DEF Inv, TypeInv, TypeOK
<1>1. CASE worker' = worker
  BY <1>1
<1>2. ASSUME NEW u \in Workers, Acts(u) PROVE u = w /\ Recheck(w)
  <2>1. u = w
    BY <1>0, <1>2 DEF Acts, WorkerStep, Claim, Recheck, Send, Finalise, Crash, Leave
  <2>2. ASSUME NEW j \in Jobs, NEW l \in Links, Claim(w, j, l) PROVE FALSE
    BY <1>0, <2>2 DEF Claim
  <2>3. ASSUME NEW erred \in BOOLEAN, Send(w, erred) PROVE FALSE
    BY <1>0, <2>3 DEF Send
  <2>4. ~Finalise(w) /\ ~Crash(w)
    BY <1>0 DEF Finalise, Crash, Leave, IdleWorker
  <2> QED
    BY <1>2, <2>1, <2>2, <2>3, <2>4 DEF Acts, WorkerStep
<1>3. ASSUME Recheck(w) PROVE Owns(w) /\ ~Void(worker[w].job)
  BY <1>0, <1>3 DEF Recheck, Leave, IdleWorker
<1> QED
  BY <1>0, <1>1, <1>2, <1>3, AsideOrActs, JobsAside DEF JobsRest, vars

(* No message starts with a link that a revocation has deleted. *)
THEOREM SendsNoRevokedLink == Spec => NoRevokedLinkSent
<1> DEFINE Starts(w) == worker'[w].pc = "sending" /\ worker[w].pc # "sending"
           Sound(w) == /\ active /\ job[worker[w].job].status = "processing"
                       /\ link[worker[w].link].state \in {"live", "used", "expired"}
<1>1. ASSUME Inv, [Next]_vars, NEW w \in Workers, Starts(w) PROVE Sound(w)
  <2>1. Recheck(w) /\ Owns(w) /\ ~Void(worker[w].job)
    BY <1>1, SendingStarts
  <2>2. Kept(worker[w].link)
    BY <1>1, <2>1 DEF Inv, ClaimsSound, Recheck
  <2> QED
    BY <2>1, <2>2 DEF Owns, Void, Kept
<1>2. Inv /\ [Next]_vars => [\A w \in Workers : Starts(w) => Sound(w)]_vars
  BY <1>1
<1> QED
  BY Invariant, <1>2, PTL DEF Spec, NoRevokedLinkSent

----------------------------------------------------------------------------
(* The jobs are an outbox. *)

LEMMA AsideRefines ==
    ASSUME TypeInv, JobsRest
    PROVE  Queue!Next
<1> DEFINE S == {j \in Jobs : ~Same(job[j], job'[j])}
<1>1. UNCHANGED <<InHand, Accepted>>
  BY DEF JobsRest, InHand, Accepted
<1>2. ASSUME NEW j \in Jobs
      PROVE  /\ Claimant'[j] = IF j \in S THEN Nobody ELSE Claimant[j]
             /\ j \in Sent' <=> j \in Sent \ S
  <2>1. Rests(j)
    BY DEF JobsRest
  <2> QED
    BY <2>1 DEF Rests, Same, Released, GoesStale, Claimant, Sent
<1>3. Claimant' = [j \in Jobs |-> IF j \in S THEN Nobody ELSE Claimant[j]]
  BY <1>2 DEF Claimant
<1>4. Sent' = Sent \ S
  BY <1>2 DEF Sent
<1>5. Queue!Withdraw(S)
  BY <1>1, <1>3, <1>4 DEF Queue!Withdraw
<1>6. S \in SUBSET Jobs
  OBVIOUS
<1> QED
  BY <1>5, <1>6 DEF Queue!Next

LEMMA ClaimRefines ==
    ASSUME Inv, NEW w \in Workers, NEW j \in Jobs, NEW l \in Links, Claim(w, j, l)
    PROVE  Queue!Next
<1>0. TypeInv /\ ClaimsSound /\ worker \in [Workers -> WorkerRow]
  BY DEF Inv, TypeInv, TypeOK
<1>1. /\ \A k \in Jobs \ {j} : job'[k] = job[k]
      /\ job'[j].status = "processing" /\ job'[j].by = w /\ ~job'[j].stale
  BY <1>0, ClaimIsTyped
<1>2. /\ worker[w].job = NoJob /\ worker[w].pc = "idle"
      /\ worker'[w].job = j /\ worker'[w].pc = "claimed"
      /\ \A u \in Workers \ {w} : worker'[u] = worker[u]
  BY <1>0 DEF Claim, ClaimsSound
<1>3. InHand[w] = {} /\ {j} \cap Sent = {} /\ Claimant[j] = Nobody
  BY <1>2 DEF InHand, Sent, Claimant, Claim, Ready
<1>4. InHand' = [InHand EXCEPT ![w] = {j}]
  BY <1>2, AccountAccessAssumption DEF InHand
<1>5. Accepted' = Accepted
  BY <1>2 DEF Accepted
<1>6. Sent' = Sent
  BY <1>1, <1>3 DEF Sent
<1>7. Claimant' = [k \in Jobs |-> IF k \in {j} THEN w ELSE Claimant[k]]
  BY <1>1 DEF Claimant
<1>8. Queue!Claim(w, {j})
  BY <1>3, <1>4, <1>5, <1>6, <1>7 DEF Queue!Claim
<1> QED
  BY <1>8 DEF Queue!Next

(* A worker that is through gives its job up, with whatever it recorded. *)
LEMMA EndRefines ==
    ASSUME Inv, NEW w \in Workers, worker' = [worker EXCEPT ![w] = IdleWorker],
           worker[w].job \in Jobs,
           \/ UNCHANGED job
           \/ \E s \in Job :
                /\ job' = [job EXCEPT ![worker[w].job] = s]
                /\ s.status # "processing" /\ job[worker[w].job].status = "processing"
                /\ s.status = "sent" => Owns(w) /\ worker[w].pc = "answered" /\ ~worker[w].erred
    PROVE  Queue!Next
<1>0. /\ TypeInv /\ ClaimsSound /\ worker \in [Workers -> WorkerRow] /\ job \in [Jobs -> Job]
  BY DEF Inv, TypeInv, TypeOK
<1> DEFINE j == worker[w].job
<1>1. InHand[w] = {j} /\ InHand' = [InHand EXCEPT ![w] = {}]
  BY <1>0, AccountAccessAssumption DEF InHand, IdleWorker
<1>2. Accepted' = Accepted \ {w}
  BY <1>0 DEF Accepted, IdleWorker
<1>3. CASE UNCHANGED job
  <2>1. Queue!Finish(w, {}, {})
    <3>1. Sent' = Sent \cup {}
      BY <1>3 DEF Sent
    <3>2. Claimant' = [k \in Jobs |-> IF k \in {} THEN Nobody ELSE Claimant[k]]
      BY <1>3 DEF Claimant
    <3> QED
      BY <1>1, <1>2, <3>1, <3>2 DEF Queue!Finish
  <2> QED
    BY <2>1 DEF Queue!Next
<1>4. ASSUME NEW s \in Job, job' = [job EXCEPT ![j] = s],
             s.status # "processing", job[j].status = "processing",
             s.status = "sent" => Owns(w) /\ worker[w].pc = "answered" /\ ~worker[w].erred
      PROVE  Queue!Next
  <2> DEFINE D == IF s.status = "sent" THEN {j} ELSE {}
  <2>1. job'[j] = s /\ \A k \in Jobs \ {j} : job'[k] = job[k]
    BY <1>0, <1>4
  <2>2. Sent' = Sent \cup D
    BY <1>4, <2>1 DEF Sent
  <2>3. Claimant' = [k \in Jobs |-> IF k \in {j} THEN Nobody ELSE Claimant[k]]
    BY <1>4, <2>1 DEF Claimant
  <2>4. D # {} => w \in Accepted /\ Claimant[j] = w
    BY <1>0, <1>4 DEF Accepted, Claimant, ClaimsSound, Owns
  <2>5. D \subseteq {j} \cap Queue!Held(w)
    BY <1>1, <2>4 DEF Queue!Held
  <2>6. Queue!Finish(w, {j}, D)
    BY <1>1, <1>2, <2>2, <2>3, <2>4, <2>5 DEF Queue!Finish
  <2>7. {j} \in SUBSET InHand[w] /\ D \in SUBSET {j}
    BY <1>1
  <2> QED
    BY <2>6, <2>7 DEF Queue!Next
<1> QED
  BY <1>3, <1>4

LEMMA ActsRefines ==
    ASSUME Inv, NEW w \in Workers, Acts(w)
    PROVE  [Queue!Next]_(Queue!vars)
<1>0. /\ TypeInv /\ ClaimsSound /\ worker \in [Workers -> WorkerRow] /\ job \in [Jobs -> Job]
  BY DEF Inv, TypeInv, TypeOK
<1>1. ASSUME worker[w].pc # "idle" PROVE worker[w].job \in Jobs
  BY <1>1 DEF Inv, ClaimsSound
<1>2. CASE Recheck(w)
  <2>1. worker[w].job \in Jobs /\ worker[w].pc = "claimed"
    BY <1>1, <1>2 DEF Recheck
  <2>2. CASE worker' = [worker EXCEPT ![w].pc = "sending"] /\ UNCHANGED job
    <3>1. InHand' = InHand
      BY <1>0, <2>2 DEF InHand, WorkerRow
    <3>2. Accepted' = Accepted
      BY <1>0, <2>1, <2>2 DEF Accepted, WorkerRow
    <3>3. UNCHANGED <<Claimant, Sent>>
      BY <2>2 DEF Claimant, Sent
    <3> QED
      BY <3>1, <3>2, <3>3 DEF Queue!vars
  <2>3. CASE worker' = [worker EXCEPT ![w] = IdleWorker]
    <3>1. \/ UNCHANGED job
          \/ \E s \in Job : /\ s.status = "cancelled" /\ job' = [job EXCEPT ![worker[w].job] = s]
                            /\ job[worker[w].job].status = "processing"
      BY <1>0, <1>2, <2>1, RecheckIsTyped DEF Recheck
    <3> QED
      BY <2>1, <2>3, <3>1, EndRefines
  <2> QED
    BY <1>0, <1>2, <2>1, <2>2, <2>3, RecheckIsTyped
<1>3. ASSUME NEW erred \in BOOLEAN, Send(w, erred) PROVE [Queue!Next]_(Queue!vars)
  <2>1. UNCHANGED job /\ worker' = [worker EXCEPT ![w].pc = "answered", ![w].erred = erred]
    BY <1>0, <1>3, SendIsTyped
  <2>2. worker[w].pc = "sending" /\ worker[w].job \in Jobs
    BY <1>1, <1>3 DEF Send
  <2>3. worker'[w].pc = "answered" /\ worker'[w].erred = erred /\ worker'[w].job = worker[w].job
        /\ \A u \in Workers \ {w} : worker'[u] = worker[u]
    BY <1>0, <2>1 DEF WorkerRow
  <2>4. InHand' = InHand /\ InHand[w] # {}
    BY <2>2, <2>3, AccountAccessAssumption DEF InHand
  <2>5. Accepted' = IF erred THEN Accepted ELSE Accepted \cup {w}
    BY <2>2, <2>3 DEF Accepted
  <2>6. UNCHANGED <<Claimant, Sent>>
    BY <2>1 DEF Claimant, Sent
  <2>7. w \notin Accepted
    BY <2>2 DEF Accepted
  <2>8. ~erred => Queue!Answer(w)
    BY <2>4, <2>5, <2>6, <2>7 DEF Queue!Answer
  <2> QED
    BY <2>4, <2>5, <2>6, <2>8 DEF Queue!Next, Queue!vars
<1>4. CASE Finalise(w)
  <2>1. worker[w].job \in Jobs /\ worker[w].pc = "answered"
    BY <1>1, <1>4 DEF Finalise
  <2>2. Outcome(w) = "sent" => ~worker[w].erred
    BY DEF Outcome
  <2>3. worker' = [worker EXCEPT ![w] = IdleWorker]
    BY <1>0, <1>4, <2>1, FinaliseIsTyped
  <2>4. CASE Owns(w)
    <3>1. PICK s \in Job : /\ job' = [job EXCEPT ![worker[w].job] = s] /\ s.status = Outcome(w)
                           /\ Outcome(w) \in {"cancelled", "sent", "failed", "pending"}
      BY <1>0, <1>4, <2>1, <2>4, FinaliseIsTyped
    <3> QED
      BY <2>1, <2>2, <2>3, <2>4, <3>1, EndRefines DEF Owns
  <2>5. CASE ~Owns(w)
    BY <1>0, <1>4, <2>1, <2>3, <2>5, FinaliseIsTyped, EndRefines
  <2> QED
    BY <2>4, <2>5
<1>5. CASE Crash(w)
  BY <1>1, <1>5, EndRefines DEF Crash, Leave, queue
<1> QED
  BY <1>2, <1>3, <1>4, <1>5, ClaimRefines DEF Acts, WorkerStep

(* Account mail is an outbox, whatever is revoked, retried or invited again. *)
THEOREM ImplementsOutbox == Spec => OutboxSpec
<1>1. Init => Queue!Init
  <2> SUFFICES ASSUME Init PROVE Queue!Init
    OBVIOUS
  <2>1. Claimant = [j \in Jobs |-> Nobody] /\ Sent = {}
    BY DEF Init, Claimant, Sent, AbsentJob
  <2>2. InHand = [w \in Workers |-> {}] /\ Accepted = {}
    BY DEF Init, InHand, Accepted, IdleWorker
  <2> QED
    BY <2>1, <2>2 DEF Queue!Init
<1>2. Inv /\ [Next]_vars => [Queue!Next]_(Queue!vars)
  <2> SUFFICES ASSUME Inv, [Next]_vars PROVE [Queue!Next]_(Queue!vars)
    OBVIOUS
  <2>1. TypeInv
    BY DEF Inv
  <2> QED
    BY <2>1, AsideOrActs, JobsAside, NothingRests, AsideRefines, ActsRefines DEF vars, queue
<1> QED
  BY Invariant, <1>1, <1>2, PTL DEF Spec, OutboxSpec, Queue!Spec
=============================================================================
