-------------------------- MODULE MatchQueueProofs --------------------------
(****************************************************************************)
(* The matching queue is type-correct, keeps every waiting row claimable,   *)
(* and loses no match.  The first part says what each operator on a job row *)
(* preserves and returns; the proofs about the queue cite its lemmas and    *)
(* expand none of the operators.                                            *)
(****************************************************************************)
EXTENDS MatchQueue, TLAPS

----------------------------------------------------------------------------
(* Rows. *)

\* The row-level part of the invariant: a waiting row has attempts left, and a
\* running or failing one has used some.
SoundRow(j) ==
    /\ j \in JobRow
    /\ j.status = "pending" => j.attempts < MaxAttempts
    /\ j.status = "processing" => j.attempts > 0
    /\ j.err => j.attempts > 0

\* AbsentJob, the missing row, is sound.
LEMMA AbsentJobSound == SoundRow(AbsentJob)
BY DurableJobsAssumption DEF SoundRow, AbsentJob, JobRow, JobStatus, Payload, NoPayload

\* An assignment to one column keeps the type of the row.
LEMMA JobRowUpdate ==
    ASSUME NEW j \in JobRow
    PROVE  /\ \A s \in JobStatus : [j EXCEPT !.status = s] \in JobRow
           /\ \A p \in Payload : [j EXCEPT !.payload = p] \in JobRow
           /\ \A n \in Nat : [j EXCEPT !.cursor = n] \in JobRow
           /\ \A n \in 0..MaxAttempts : [j EXCEPT !.attempts = n] \in JobRow
           /\ \A t \in Token \cup {NoToken} : [j EXCEPT !.token = t] \in JobRow
           /\ \A x \in {"none", "live", "expired"} : [j EXCEPT !.lease = x] \in JobRow
           /\ \A b \in BOOLEAN : [j EXCEPT !.deferred = b] \in JobRow
           /\ \A b \in BOOLEAN : [j EXCEPT !.err = b] \in JobRow
BY DEF JobRow

\* The values the operators assign are of their columns' types.
LEMMA ColumnValues ==
    /\ {"absent", "pending", "processing", "done", "failed"} \subseteq JobStatus
    /\ 0 \in Nat /\ 0 \in 0..MaxAttempts
    /\ NoToken \in Token \cup {NoToken}
    /\ "none" \in {"none", "live", "expired"} /\ "live" \in {"none", "live", "expired"}
    /\ TRUE \in BOOLEAN /\ FALSE \in BOOLEAN
BY DurableJobsAssumption DEF JobStatus

\* The columns of a typed row.
LEMMA JobRowColumns ==
    ASSUME NEW j \in JobRow
    PROVE  /\ j.status \in JobStatus /\ j.payload \in Payload /\ j.cursor \in Nat
           /\ j.attempts \in 0..MaxAttempts /\ j.token \in Token \cup {NoToken}
           /\ j.lease \in {"none", "live", "expired"}
           /\ j.deferred \in BOOLEAN /\ j.err \in BOOLEAN
BY DEF JobRow

\* enqueue_job leaves a pending row, restarted at item 0 unless it is the very
\* request that waits already, never touches the token of a running batch, and
\* forgets no update.
LEMMA EnqueueMatchRow ==
    ASSUME NEW j, SoundRow(j), NEW p \in Payload, NEW supersede \in BOOLEAN
    PROVE  LET r == EnqueueMatch(j, p, supersede)
           IN  /\ SoundRow(r)
               /\ r.status = "pending"
               /\ r.token = j.token
               /\ r.payload.reconcile = p.reconcile /\ r.payload.offers = p.offers
               /\ p.updated \/ (Open(j) /\ j.payload.updated) => r.payload.updated
               /\ \/ r.cursor = 0
                  \/ r = j /\ j.status = "pending" /\ ~supersede /\ j.payload = p
<1> DEFINE q == [p EXCEPT !.updated = p.updated \/ (Open(j) /\ j.payload.updated)]
           r == [j EXCEPT !.status = "pending", !.cursor = 0, !.attempts = 0,
                          !.err = FALSE, !.deferred = FALSE, !.payload = q]
<1>1. /\ q \in Payload /\ q.reconcile = p.reconcile /\ q.offers = p.offers
      /\ q.updated = (p.updated \/ (Open(j) /\ j.payload.updated))
  <2>1. (p.updated \/ (Open(j) /\ j.payload.updated)) \in BOOLEAN
    OBVIOUS
  <2> QED  BY <2>1 DEF Payload
<1>2. CASE j.status = "pending" /\ ~supersede /\ j.payload = p
  BY <1>2 DEF EnqueueMatch
<1>3. CASE ~(j.status = "pending" /\ ~supersede /\ j.payload = p)
  <2>1. EnqueueMatch(j, p, supersede) = r
    BY <1>3 DEF EnqueueMatch
  <2> HIDE DEF q
  <2>2. r \in JobRow
    BY <1>1, JobRowUpdate, ColumnValues DEF SoundRow
  <2>3. /\ r.status = "pending" /\ r.token = j.token /\ r.payload = q /\ r.cursor = 0
        /\ r.attempts = 0 /\ r.err = FALSE
    BY DEF SoundRow, JobRow
  <2>4. SoundRow(r)
    BY <2>2, <2>3, DurableJobsAssumption DEF SoundRow
  <2> QED  BY <1>1, <2>1, <2>3, <2>4
<1> QED  BY <1>2, <1>3

\* retry of a failed row clears its attempts and keeps the place it reached.
LEMMA RetryRowSound ==
    ASSUME NEW j, SoundRow(j)
    PROVE  LET r == RetryRow(j)
           IN  /\ SoundRow(r) /\ r.status = "pending"
               /\ r.cursor = j.cursor /\ r.payload = j.payload
<1>1. RetryRow(j) \in JobRow
  BY JobRowUpdate, ColumnValues DEF SoundRow, RetryRow
<1>2. /\ RetryRow(j).status = "pending" /\ RetryRow(j).cursor = j.cursor
      /\ RetryRow(j).payload = j.payload /\ RetryRow(j).attempts = 0
      /\ RetryRow(j).err = FALSE
  BY DEF SoundRow, RetryRow, JobRow
<1> QED  BY <1>1, <1>2, DurableJobsAssumption DEF SoundRow

\* A row whose attempts are used up fails where it stopped.
LEMMA ExhaustRowSound ==
    ASSUME NEW j, SoundRow(j), ~HasAttempts(j)
    PROVE  LET r == ExhaustRow(j)
           IN  /\ SoundRow(r) /\ r.status = "failed"
               /\ r.cursor = j.cursor /\ r.payload = j.payload
<1>1. ExhaustRow(j) \in JobRow
  BY JobRowUpdate, ColumnValues DEF SoundRow, ExhaustRow
<1>2. /\ ExhaustRow(j).status = "failed" /\ ExhaustRow(j).cursor = j.cursor
      /\ ExhaustRow(j).payload = j.payload /\ ExhaustRow(j).attempts = j.attempts
  BY DEF SoundRow, ExhaustRow, JobRow
<1>3. j.attempts > 0
  BY JobRowColumns, DurableJobsAssumption DEF SoundRow, HasAttempts
<1> QED  BY <1>1, <1>2, <1>3 DEF SoundRow

\* A claim charges one attempt and takes the row over with its own token.
LEMMA ClaimRowSound ==
    ASSUME NEW j, SoundRow(j), HasAttempts(j), NEW t \in Token
    PROVE  LET r == ClaimRow(j, t)
           IN  /\ SoundRow(r) /\ r.status = "processing" /\ r.token = t
               /\ r.cursor = j.cursor /\ r.payload = j.payload
<1>1. j.attempts + 1 \in 0..MaxAttempts /\ t \in Token \cup {NoToken}
  BY JobRowColumns, DurableJobsAssumption DEF SoundRow, HasAttempts
<1>2. /\ ClaimRow(j, t).status = "processing" /\ ClaimRow(j, t).token = t
      /\ ClaimRow(j, t).cursor = j.cursor /\ ClaimRow(j, t).payload = j.payload
      /\ ClaimRow(j, t).attempts = j.attempts + 1
  BY DEF SoundRow, ClaimRow, JobRow
<1>3. ClaimRow(j, t) \in JobRow
  <2> DEFINE c == [j EXCEPT !.status = "processing", !.token = t, !.lease = "live"]
  <2>1. c \in JobRow
    BY <1>1, JobRowUpdate, ColumnValues DEF SoundRow
  <2>2. c.attempts = j.attempts
    BY DEF SoundRow, JobRow
  <2>3. ClaimRow(j, t) = [c EXCEPT !.attempts = j.attempts + 1]
    BY <2>2 DEF ClaimRow
  <2> HIDE DEF c
  <2> QED  BY <1>1, <2>1, <2>3, JobRowUpdate
<1>4. j.attempts + 1 > 0
  BY JobRowColumns DEF SoundRow
<1> QED  BY <1>2, <1>3, <1>4 DEF SoundRow

\* A successful batch leaves a waiting row, its error and attempts cleared, where
\* it stood.
LEMMA ProgressRow ==
    ASSUME NEW j, SoundRow(j)
    PROVE  LET r == Progress(j)
           IN  /\ SoundRow(r) /\ r.status = "pending" /\ r.attempts = 0 /\ r.err = FALSE
               /\ r.cursor = j.cursor /\ r.payload = j.payload
<1>1. Progress(j) \in JobRow
  BY JobRowUpdate, ColumnValues DEF SoundRow, Progress
<1>2. /\ Progress(j).status = "pending" /\ Progress(j).cursor = j.cursor
      /\ Progress(j).payload = j.payload /\ Progress(j).attempts = 0
      /\ Progress(j).err = FALSE
  BY DEF SoundRow, Progress, JobRow
<1> QED  BY <1>1, <1>2, DurableJobsAssumption DEF SoundRow

\* Giving a claim back changes the lease and the token only.
LEMMA ReleaseRow ==
    ASSUME NEW j, SoundRow(j)
    PROVE  LET r == Release(j)
           IN  /\ SoundRow(r) /\ r.token = NoToken
               /\ r.status = j.status /\ r.cursor = j.cursor /\ r.payload = j.payload
               /\ r.err = j.err /\ r.deferred = j.deferred /\ r.attempts = j.attempts
<1>1. Release(j) \in JobRow
  BY JobRowUpdate, ColumnValues DEF SoundRow, Release
<1>2. /\ Release(j).status = j.status /\ Release(j).cursor = j.cursor
      /\ Release(j).payload = j.payload /\ Release(j).attempts = j.attempts
      /\ Release(j).err = j.err /\ Release(j).deferred = j.deferred
      /\ Release(j).token = NoToken
  BY DEF SoundRow, Release, JobRow
<1> QED  BY <1>1, <1>2 DEF SoundRow

\* The retry state of an attempt that failed: the row waits while it has attempts
\* left and fails when it has none.
LEMMA ChargeRow ==
    ASSUME NEW j \in JobRow, j.attempts > 0
    PROVE  LET r == Charge(j)
           IN  /\ SoundRow(r) /\ r.status \in {"pending", "failed"}
               /\ r.cursor = j.cursor /\ r.payload = j.payload /\ r.token = j.token
<1> DEFINE s == IF j.attempts >= MaxAttempts THEN "failed" ELSE "pending"
<1>1. s \in JobStatus /\ s \in {"pending", "failed"}
  BY DEF JobStatus
<1>2. s = "pending" => j.attempts < MaxAttempts
  BY JobRowColumns, DurableJobsAssumption
<1>3. Charge(j) = [j EXCEPT !.status = s, !.err = TRUE, !.deferred = TRUE]
  BY DEF Charge
<1> HIDE DEF s
<1>4. Charge(j) \in JobRow
  BY <1>1, <1>3, JobRowUpdate, ColumnValues
<1>5. /\ Charge(j).status = s /\ Charge(j).attempts = j.attempts
      /\ Charge(j).cursor = j.cursor /\ Charge(j).payload = j.payload
      /\ Charge(j).token = j.token
  BY <1>3 DEF JobRow
<1> QED  BY <1>1, <1>2, <1>4, <1>5 DEF SoundRow

\* The end of a job, and the start of the offers of a match-user job.
LEMMA CompletedRow ==
    ASSUME NEW j, SoundRow(j)
    PROVE  SoundRow(Completed(j)) /\ Completed(j).status = "done"
<1> DEFINE g == Progress(j)
<1>1. /\ SoundRow(g) /\ g.status = "pending" /\ g.attempts = 0 /\ g.err = FALSE
      /\ Completed(j) = [g EXCEPT !.status = "done"]
  BY ProgressRow DEF Completed
<1> HIDE DEF g
<1>2. [g EXCEPT !.status = "done"] \in JobRow
  BY <1>1, JobRowUpdate, ColumnValues DEF SoundRow
<1> QED  BY <1>1, <1>2 DEF SoundRow, JobRow

LEMMA OffersPhaseRow ==
    ASSUME NEW j, SoundRow(j), NEW p \in Payload
    PROVE  /\ SoundRow(OffersPhase(j, p)) /\ OffersPhase(j, p).status = "pending"
           /\ OffersPhase(j, p).cursor = 0
<1> DEFINE g == Progress(j)
           q == [p EXCEPT !.offers = TRUE]
<1>1. /\ SoundRow(g) /\ g.status = "pending" /\ g.attempts = 0 /\ g.err = FALSE
      /\ OffersPhase(j, p) = [g EXCEPT !.cursor = 0, !.payload = q]
  BY ProgressRow DEF OffersPhase
<1>2. q \in Payload
  BY DEF Payload
<1> HIDE DEF g, q
<1>3. [g EXCEPT !.cursor = 0, !.payload = q] \in JobRow
  BY <1>1, <1>2, JobRowUpdate, ColumnValues DEF SoundRow
<1> QED  BY <1>1, <1>3, DurableJobsAssumption DEF SoundRow, JobRow

\* The commit of the owner moves the row to the next batch or to what an empty
\* batch leads to.
LEMMA FinishRowOfOwner ==
    ASSUME NEW j, SoundRow(j), NEW t \in Token, NEW last \in Nat, NEW emptied, SoundRow(emptied),
           Owns(j, t)
    PROVE  LET r == FinishRow(j, t, last, emptied)
           IN  /\ SoundRow(r)
               /\ last # 0 => r.status = "pending" /\ r.cursor = last /\ r.payload = j.payload
               /\ last = 0 => r = emptied
<1> DEFINE g == Progress(j)
<1>1. /\ SoundRow(g) /\ g.status = "pending" /\ g.attempts = 0 /\ g.err = FALSE
      /\ g.cursor = j.cursor /\ g.payload = j.payload
  BY ProgressRow
<1> HIDE DEF g
<1>2. CASE last # 0
  <2>1. FinishRow(j, t, last, emptied) = [g EXCEPT !.cursor = last]
    BY <1>2 DEF FinishRow, g
  <2>2. [g EXCEPT !.cursor = last] \in JobRow
    BY <1>1, JobRowUpdate DEF SoundRow
  <2> QED  BY <1>1, <1>2, <2>1, <2>2, DurableJobsAssumption DEF SoundRow, JobRow
<1>3. CASE last = 0
  <2>1. FinishRow(j, t, last, emptied) = emptied
    BY <1>3 DEF FinishRow
  <2> QED  BY <1>3, <2>1
<1> QED  BY <1>2, <1>3

\* The commit of a replaced generation changes neither the place nor the state
\* of the row.
LEMMA FinishRowOfOther ==
    ASSUME NEW j, SoundRow(j), NEW t \in Token, NEW last \in Nat, NEW emptied, ~Owns(j, t)
    PROVE  LET r == FinishRow(j, t, last, emptied)
           IN  /\ SoundRow(r)
               /\ r.status = j.status /\ r.cursor = j.cursor /\ r.payload = j.payload
               /\ r.err = j.err /\ r.deferred = j.deferred
               /\ r.token \in {j.token, NoToken}
<1>1. FinishRow(j, t, last, emptied) \in {Release(j), j}
  BY DEF FinishRow
<1> QED  BY <1>1, ReleaseRow

\* An error of the owner charges the retry state; an error of a replaced
\* generation does not.  Both keep the place the row reached.
LEMMA FailRowSound ==
    ASSUME NEW j, SoundRow(j), NEW t \in Token
    PROVE  LET r == FailRow(j, t)
           IN  /\ SoundRow(r)
               /\ r.cursor = j.cursor /\ r.payload = j.payload
               /\ Owns(j, t) => r.status \in {"pending", "failed"}
               /\ ~Owns(j, t) => r.status = j.status /\ r.deferred = j.deferred
               /\ ~Owns(j, t) => r.token \in {j.token, NoToken}
<1>1. CASE Owns(j, t)
  <2>1. FailRow(j, t) = Charge(Release(j))
    BY <1>1 DEF FailRow
  <2>2. Release(j) \in JobRow /\ Release(j).attempts > 0
    BY <1>1, ReleaseRow DEF SoundRow, Owns
  <2> QED  BY <1>1, <2>1, <2>2, ChargeRow, ReleaseRow
<1>2. CASE ~Owns(j, t)
  <2>1. FailRow(j, t) \in {Release(j), j}
    BY <1>2 DEF FailRow
  <2> QED  BY <1>2, <2>1, ReleaseRow
<1> QED  BY <1>1, <1>2

\* An error before the claim charges a waiting row.
LEMMA PreClaimFailRowSound ==
    ASSUME NEW j, SoundRow(j)
    PROVE  LET r == PreClaimFailRow(j)
           IN  /\ SoundRow(r)
               /\ r.cursor = j.cursor /\ r.payload = j.payload /\ r.token = j.token
               /\ j.status = "pending" => r.status \in {"pending", "failed"}
               /\ j.status # "pending" => r = j
<1>1. CASE j.status = "pending"
  <2> DEFINE a == j.attempts + 1
             c == [j EXCEPT !.attempts = a, !.lease = "none"]
  <2>1. a \in 0..MaxAttempts /\ a > 0
    BY <1>1, JobRowColumns, DurableJobsAssumption DEF SoundRow
  <2>2. PreClaimFailRow(j) = Charge(c)
    BY <1>1 DEF PreClaimFailRow
  <2> HIDE DEF a
  <2>3. c \in JobRow
    BY <2>1, JobRowUpdate, ColumnValues DEF SoundRow
  <2>4. c.attempts = a /\ c.cursor = j.cursor /\ c.payload = j.payload /\ c.token = j.token
    BY DEF SoundRow, JobRow
  <2> HIDE DEF c
  <2> QED  BY <1>1, <2>1, <2>2, <2>3, <2>4, ChargeRow
<1>2. CASE j.status # "pending"
  BY <1>2 DEF PreClaimFailRow
<1> QED  BY <1>1, <1>2

----------------------------------------------------------------------------
(* Rows that keep their place. *)

\* A row with work left, or given up on with its place kept.
Live == {"pending", "processing", "failed"}

\* Row r stands where j stood.
KeepsPlace(j, r) ==
    /\ SoundRow(r)
    /\ r.cursor = j.cursor /\ r.payload = j.payload
    /\ j.status \in Live => r.status \in Live
    /\ j.status = "absent" => r.status = "absent"

\* Moreover, nobody owns r who did not own j.
Keeps(j, r) == KeepsPlace(j, r) /\ \A t \in Token : Owns(r, t) => Owns(j, t)

\* Every way to leave a row, other than the commit of its owner, keeps its place.
LEMMA RowKeepsPlace ==
    ASSUME NEW j, SoundRow(j)
    PROVE  /\ Keeps(j, j)
           /\ Open(j) /\ ~HasAttempts(j) => Keeps(j, ExhaustRow(j))
           /\ j.status = "failed" => Keeps(j, RetryRow(j))
           /\ Keeps(j, PreClaimFailRow(j))
           /\ \A t \in Token : Keeps(j, FailRow(j, t))
           /\ Keeps(j, [j EXCEPT !.lease = "expired"])
           /\ Keeps(j, [j EXCEPT !.deferred = FALSE])
<1> USE DEF Live, KeepsPlace, Keeps, Owns
<1>1. Keeps(j, j)
  OBVIOUS
<1>2. Open(j) /\ ~HasAttempts(j) => Keeps(j, ExhaustRow(j))
  BY ExhaustRowSound DEF Open
<1>3. j.status = "failed" => Keeps(j, RetryRow(j))
  BY RetryRowSound
<1>4. Keeps(j, PreClaimFailRow(j))
  BY PreClaimFailRowSound
<1>5. ASSUME NEW t \in Token PROVE Keeps(j, FailRow(j, t))
  BY FailRowSound, DurableJobsAssumption
<1>6. Keeps(j, [j EXCEPT !.lease = "expired"])
  <2>1. [j EXCEPT !.lease = "expired"] \in JobRow
    BY JobRowUpdate DEF SoundRow
  <2> QED  BY <2>1 DEF SoundRow, JobRow
<1>7. Keeps(j, [j EXCEPT !.deferred = FALSE])
  <2>1. [j EXCEPT !.deferred = FALSE] \in JobRow
    BY JobRowUpdate DEF SoundRow
  <2> QED  BY <2>1 DEF SoundRow, JobRow
<1> QED  BY <1>1, <1>2, <1>3, <1>4, <1>5, <1>6, <1>7

\* The commit of a replaced generation keeps the place too.
LEMMA FinishRowOfOtherKeeps ==
    ASSUME NEW j, SoundRow(j), NEW t \in Token, NEW last \in Nat, NEW emptied, ~Owns(j, t)
    PROVE  Keeps(j, FinishRow(j, t, last, emptied))
BY FinishRowOfOther, DurableJobsAssumption DEF KeepsPlace, Keeps, Live, Owns

----------------------------------------------------------------------------
(* The inductive invariant. *)

\* Every job row is sound.
SoundJobs == \A k \in Keys : SoundRow(job[k])

\* A worker that claimed holds a token, which no other worker holds.
TokensDiffer ==
    \A w \in Workers :
      IF Running(w)
        THEN /\ worker[w].token \in Token /\ worker[w].key \in Keys
             /\ \A v \in Workers \ {w} : worker[v].token # worker[w].token
        ELSE worker[w].token = NoToken

\* What the worker of the current generation read when it claimed is still so.
ClaimHolds ==
    \A w \in Workers : Current(w) =>
      /\ worker[w].cursor = job[worker[w].key].cursor
      /\ worker[w].payload = job[worker[w].key].payload

Item(k, u, o) == IF k[1] = "offer" THEN u ELSE o

\* The pairs in a worker's hands are of its job, and past the cursor it read.
HitsAhead ==
    \A w \in Workers :
      /\ worker[w].pc # "evaluated" => worker[w].hits = {}
      /\ \A u \in Users, o \in Offers : <<u, o>> \in worker[w].hits =>
           /\ worker[w].key \in {OfferKey(o), UserKey(u)}
           /\ worker[w].cursor < Item(worker[w].key, u, o)

\* A job that waits to be tried is of a known key; an offer never collected has no job.
SelectedKeys == \A w \in Workers : worker[w].pc # "idle" => worker[w].key \in Keys

AbsentOfferIdle ==
    \A o \in Offers : offer[o].state = "absent" => job[OfferKey(o)].status = "absent"

\* The types, and what they rest on.
TypeInv == TypeOK /\ SoundJobs /\ SelectedKeys /\ TokensDiffer

----------------------------------------------------------------------------
(* Keys, items and batches. *)

\* A key names an offer or a user.
LEMMA KeyForms ==
    /\ \A o \in Offers : OfferKey(o) \in Keys /\ OfferKey(o)[1] = "offer" /\ OfferKey(o)[2] = o
    /\ \A u \in Users : UserKey(u) \in Keys /\ UserKey(u)[1] = "user" /\ UserKey(u)[2] = u
    /\ \A k \in Keys : \/ \E o \in Offers : k = OfferKey(o)
                       \/ \E u \in Users : k = UserKey(u)
BY DEF Keys, OfferKey, UserKey

\* Ids of users and offers are positive.
LEMMA IdsPositive ==
    /\ \A u \in Users : u \in Nat /\ u > 0
    /\ \A o \in Offers : o \in Nat /\ o > 0
BY MatchQueueAssumption

\* The items of a job are ids of the other kind, its pairs join them to its key.
LEMMA ItemForms ==
    ASSUME NEW k \in Keys, NEW p, NEW i \in Items(k, p)
    PROVE  /\ i \in Nat /\ i > 0
           /\ Pair(k, i) \in Users \X Offers
           /\ ToLock(k, p, {i}) \subseteq Users
<1>1. CASE \E o \in Offers : k = OfferKey(o)
  BY <1>1, KeyForms, IdsPositive DEF Items, Pair, ToLock
<1>2. CASE \E u \in Users : k = UserKey(u)
  BY <1>2, KeyForms, IdsPositive DEF Items, Pair, ToLock
<1> QED  BY <1>1, <1>2, KeyForms

\* The token of a claim is unused.
LEMMA FreshTokenUnused ==
    ASSUME Token \ TokensInUse # {}
    PROVE  /\ FreshToken \in Token
           /\ \A k \in Keys : job[k].token # FreshToken
           /\ \A w \in Workers : worker[w].token # FreshToken
<1>1. FreshToken \in Token \ TokensInUse
  BY DEF FreshToken
<1> QED  BY <1>1 DEF TokensInUse

----------------------------------------------------------------------------
(* Typing. *)

\* The payloads of the producers.
LEMMA PayloadForms ==
    /\ ActivationPayload \in Payload /\ BaselinePayload \in Payload /\ NoPayload \in Payload
    /\ OfferPayload(TRUE) \in Payload /\ OfferPayload(FALSE) \in Payload
    /\ ActivationPayload.reconcile /\ ~ActivationPayload.offers
BY DEF ActivationPayload, BaselinePayload, NoPayload, OfferPayload, Payload

\* A sound row at one key keeps every row sound.
LEMMA OneRowChanges ==
    ASSUME TypeOK, SoundJobs, NEW k \in Keys, NEW r, SoundRow(r),
           job' = [job EXCEPT ![k] = r]
    PROVE  /\ SoundJobs' /\ job' \in [Keys -> JobRow]
           /\ job'[k] = r /\ \A l \in Keys \ {k} : job'[l] = job[l]
BY DEF TypeOK, SoundJobs, SoundRow

\* A worker that leaves holds nothing.
LEMMA LeaveType ==
    ASSUME TypeInv, NEW w \in Workers, Leave(w)
    PROVE  /\ worker' \in [Workers -> WorkerRow] /\ SelectedKeys' /\ TokensDiffer'
           /\ worker'[w] = IdleWorker /\ \A v \in Workers \ {w} : worker'[v] = worker[v]
<1>1. IdleWorker \in WorkerRow /\ IdleWorker.pc = "idle" /\ IdleWorker.token = NoToken
  BY PayloadForms DEF IdleWorker, WorkerRow
<1>2. worker'[w] = IdleWorker /\ \A v \in Workers \ {w} : worker'[v] = worker[v]
  BY DEF TypeInv, TypeOK, Leave
<1>3. worker' \in [Workers -> WorkerRow]
  BY <1>1 DEF TypeInv, TypeOK, Leave
<1>4. SelectedKeys'
  BY <1>1, <1>2 DEF TypeInv, SelectedKeys
<1>5. TokensDiffer'
  <2>1. \A v \in Workers \ {w} : Running(v)' = Running(v)
    BY <1>2 DEF Running
  <2>2. ~Running(w)'
    BY <1>1, <1>2 DEF Running
  <2> QED  BY <1>1, <1>2, <2>1, <2>2, DurableJobsAssumption DEF TypeInv, TokensDiffer
<1> QED  BY <1>2, <1>3, <1>4, <1>5

\* Workers untouched and rows sound: what is left of the invariant are the tables.
LEMMA WorkersIdleStep ==
    ASSUME TypeInv, UNCHANGED worker
    PROVE  SelectedKeys' /\ TokensDiffer' /\ worker' \in [Workers -> WorkerRow]
BY DEF TypeInv, TypeOK, SelectedKeys, TokensDiffer, Running

\* Enabling or disabling an account keeps the type of its row.
LEMMA UserRowUpdate ==
    ASSUME NEW r \in UserRow
    PROVE  \A b \in BOOLEAN : [r EXCEPT !.active = b] \in UserRow
BY DEF UserRow

\* A producer's transaction keeps the types.
LEMMA EnqueueType ==
    ASSUME TypeInv, NEW k \in Keys, NEW p \in Payload, NEW supersede \in BOOLEAN,
           job' = [job EXCEPT ![k] = EnqueueMatch(@, p, supersede)]
    PROVE  SoundJobs' /\ job' \in [Keys -> JobRow]
<1>1. SoundRow(job[k])
  BY DEF TypeInv, SoundJobs
<1>2. SoundRow(EnqueueMatch(job[k], p, supersede))
  BY <1>1, EnqueueMatchRow
<1> QED  BY <1>2, OneRowChanges DEF TypeInv

LEMMA ProduceType == TypeInv /\ Produce => TypeInv'
<1> SUFFICES ASSUME TypeInv, Produce PROVE TypeInv'
  OBVIOUS
<1> USE DEF MayEdit
<1>1. ASSUME NEW o \in Offers, NEW kind \in Kinds, CollectNew(o, kind) PROVE TypeInv'
  <2>1. job' = [job EXCEPT ![OfferKey(o)] = EnqueueMatch(@, OfferPayload(FALSE), FALSE)]
    BY <1>1 DEF CollectNew
  <2>2. SoundJobs' /\ job' \in [Keys -> JobRow]
    BY <2>1, KeyForms, PayloadForms, EnqueueType
  <2>3. offer' \in [Offers -> OfferRow] /\ edits' \in 0..MaxEdits
    BY <1>1, MatchQueueAssumption DEF CollectNew, TypeInv, TypeOK, OfferRow
  <2> QED  BY <1>1, <2>2, <2>3, WorkersIdleStep DEF CollectNew, TypeInv, TypeOK
<1>2. ASSUME NEW o \in Offers, NEW kind \in Kinds, NEW state \in {"open", "closed"},
             CollectChange(o, state, kind)
      PROVE  TypeInv'
  <2>1. job' = [job EXCEPT ![OfferKey(o)] = EnqueueMatch(@, OfferPayload(TRUE), TRUE)]
    BY <1>2 DEF CollectChange
  <2>2. SoundJobs' /\ job' \in [Keys -> JobRow]
    BY <2>1, KeyForms, PayloadForms, EnqueueType
  <2>3. offer' \in [Offers -> OfferRow] /\ edits' \in 0..MaxEdits
    BY <1>2, MatchQueueAssumption DEF CollectChange, TypeInv, TypeOK, OfferRow
  <2>4. sync' \in [Users -> [Offers -> SyncStatus]]
    BY <1>2 DEF CollectChange, TypeInv, TypeOK, SyncStatus
  <2> QED  BY <1>2, <2>2, <2>3, <2>4, WorkersIdleStep DEF CollectChange, TypeInv, TypeOK
<1>3. ASSUME NEW u \in Users, NEW row \in UserRow, ActivatePreference(u, row)
      PROVE  /\ user' \in [Users -> UserRow] /\ known' \in [Users -> SUBSET Offers]
             /\ SoundJobs' /\ job' \in [Keys -> JobRow]
  <2>1. job' = [job EXCEPT ![UserKey(u)] = EnqueueMatch(@, ActivationPayload, FALSE)]
    BY <1>3 DEF ActivatePreference
  <2>2. SoundJobs' /\ job' \in [Keys -> JobRow]
    BY <2>1, KeyForms, PayloadForms, EnqueueType
  <2> QED  BY <1>3, <2>2 DEF ActivatePreference, TypeInv, TypeOK
<1>4. ASSUME NEW u \in Users, NEW scope \in SUBSET Kinds \ {{}}, Activate(u, scope)
      PROVE  TypeInv'
  <2>1. [active |-> TRUE, status |-> "active", scope |-> scope] \in UserRow
    BY DEF UserRow
  <2>2. edits' \in 0..MaxEdits
    BY <1>4, MatchQueueAssumption DEF Activate, TypeInv, TypeOK
  <2> QED  BY <1>3, <1>4, <2>1, <2>2, WorkersIdleStep DEF Activate, TypeInv, TypeOK
<1>5. ASSUME NEW u \in Users, Deactivate(u) PROVE TypeInv'
  <2>1. user' \in [Users -> UserRow] /\ edits' \in 0..MaxEdits
    <3>1. [user[u] EXCEPT !.active = FALSE] \in UserRow
      BY UserRowUpdate DEF TypeInv, TypeOK
    <3> QED  BY <1>5, <3>1, MatchQueueAssumption DEF Deactivate, TypeInv, TypeOK
  <2>2. /\ delivery' \in [Users -> [Offers -> AlertStatus]]
        /\ sync' \in [Users -> [Offers -> SyncStatus]]
    BY <1>5 DEF Deactivate, TypeInv, TypeOK, AlertStatus, SyncStatus
  <2> QED  BY <1>5, <2>1, <2>2, WorkersIdleStep DEF Deactivate, TypeInv, TypeOK, SoundJobs
<1>6. ASSUME NEW u \in Users, Reactivate(u) PROVE TypeInv'
  <2>1. edits' \in 0..MaxEdits
    BY <1>6, MatchQueueAssumption DEF Reactivate, TypeInv, TypeOK
  <2>2. [user[u] EXCEPT !.active = TRUE] \in UserRow
    BY UserRowUpdate DEF TypeInv, TypeOK
  <2>3. CASE user[u].status = "active"
    BY <1>3, <1>6, <2>1, <2>2, <2>3, WorkersIdleStep DEF Reactivate, TypeInv, TypeOK
  <2>4. CASE user[u].status # "active"
    <3>1. user' \in [Users -> UserRow]
      BY <1>6, <2>2, <2>4 DEF Reactivate, TypeInv, TypeOK
    <3> QED  BY <1>6, <2>1, <2>4, <3>1, WorkersIdleStep
             DEF Reactivate, TypeInv, TypeOK, SoundJobs
  <2> QED  BY <2>3, <2>4
<1>7. ASSUME NEW u \in Users, NotionReady(u) PROVE TypeInv'
  <2>1. job' = [job EXCEPT ![UserKey(u)] = EnqueueMatch(@, BaselinePayload, FALSE)]
    BY <1>7 DEF NotionReady
  <2>2. SoundJobs' /\ job' \in [Keys -> JobRow]
    BY <2>1, KeyForms, PayloadForms, EnqueueType
  <2>3. dest' \in [Users -> BOOLEAN] /\ edits' \in 0..MaxEdits
    BY <1>7, MatchQueueAssumption DEF NotionReady, TypeInv, TypeOK
  <2> QED  BY <1>7, <2>2, <2>3, WorkersIdleStep DEF NotionReady, TypeInv, TypeOK
<1>8. ASSUME NEW u \in Users, NotionDisconnect(u) PROVE TypeInv'
  <2>1. dest' \in [Users -> BOOLEAN] /\ edits' \in 0..MaxEdits
    BY <1>8, MatchQueueAssumption DEF NotionDisconnect, TypeInv, TypeOK
  <2>2. sync' \in [Users -> [Offers -> SyncStatus]]
    BY <1>8 DEF NotionDisconnect, TypeInv, TypeOK, SyncStatus
  <2> QED  BY <1>8, <2>1, <2>2, WorkersIdleStep DEF NotionDisconnect, TypeInv, TypeOK, SoundJobs
<1>9. ASSUME NEW k \in Keys, AdminRetry(k) \/ PurgeJob(k) PROVE TypeInv'
  <2>1. SoundRow(RetryRow(job[k])) /\ SoundRow(AbsentJob)
    BY RetryRowSound, AbsentJobSound DEF TypeInv, SoundJobs
  <2>2. SoundJobs' /\ job' \in [Keys -> JobRow]
    BY <1>9, <2>1, OneRowChanges DEF AdminRetry, PurgeJob, TypeInv
  <2> QED  BY <1>9, <2>2, WorkersIdleStep DEF AdminRetry, PurgeJob, tables, TypeInv, TypeOK
<1> QED  BY <1>1, <1>2, <1>4, <1>5, <1>6, <1>7, <1>8, <1>9 DEF Produce

\* The mail and Notion queues touch their own tables only.
LEMMA DownstreamType == TypeInv /\ Downstream => TypeInv'
<1> SUFFICES ASSUME TypeInv, NEW u \in Users, NEW o \in Offers, Mail(u, o) \/ SyncPage(u, o)
             PROVE  TypeInv'
  BY DEF Downstream
<1>1. /\ delivery' \in [Users -> [Offers -> AlertStatus]]
      /\ sync' \in [Users -> [Offers -> SyncStatus]]
  <2>1. CASE Mail(u, o)
    <3> DEFINE s == IF Relevant(u, o) THEN "sent" ELSE "cancelled"
    <3>1. s \in AlertStatus
      BY DEF AlertStatus
    <3>2. delivery' = [delivery EXCEPT ![u][o] = s] /\ sync' = sync
      BY <2>1 DEF Mail
    <3> HIDE DEF s
    <3> QED  BY <3>1, <3>2 DEF TypeInv, TypeOK
  <2>2. CASE SyncPage(u, o)
    BY <2>2 DEF SyncPage, TypeInv, TypeOK, SyncStatus
  <2> QED  BY <2>1, <2>2
<1> QED  BY <1>1, WorkersIdleStep DEF Mail, SyncPage, TypeInv, TypeOK, SoundJobs

\* An assignment to one field keeps the type of a worker.
LEMMA WorkerRowUpdate ==
    ASSUME NEW r \in WorkerRow
    PROVE  /\ \A x \in {"idle", "selected", "claimed", "evaluated"} : [r EXCEPT !.pc = x] \in WorkerRow
           /\ \A k \in Keys \cup {NoKey} : [r EXCEPT !.key = k] \in WorkerRow
           /\ \A t \in Token \cup {NoToken} : [r EXCEPT !.token = t] \in WorkerRow
           /\ \A n \in Nat : [r EXCEPT !.cursor = n] \in WorkerRow
           /\ \A p \in Payload : [r EXCEPT !.payload = p] \in WorkerRow
           /\ \A n \in Nat : [r EXCEPT !.last = n] \in WorkerRow
           /\ \A h \in SUBSET (Users \X Offers) : [r EXCEPT !.hits = h] \in WorkerRow
           /\ \A h \in SUBSET Users : [r EXCEPT !.held = h] \in WorkerRow
BY DEF WorkerRow

\* Select: the worker has a key in hand and nothing else.
LEMMA SelectType ==
    ASSUME TypeInv, NEW w \in Workers, NEW k \in Keys, Select(w, k)
    PROVE  /\ TypeInv'
           /\ worker'[w].pc = "selected" /\ worker'[w].hits = worker[w].hits
           /\ \A v \in Workers \ {w} : worker'[v] = worker[v]
<1> DEFINE r == [worker[w] EXCEPT !.pc = "selected", !.key = k]
<1>1. worker' = [worker EXCEPT ![w] = r]
  BY DEF Select, TypeInv, TypeOK
<1>2. r \in WorkerRow /\ r.key = k /\ r.pc = "selected" /\ r.token = worker[w].token
      /\ r.hits = worker[w].hits
  <2>1. worker[w] \in WorkerRow
    BY DEF TypeInv, TypeOK
  <2>2. r \in WorkerRow
    BY <2>1, WorkerRowUpdate
  <2> QED  BY <2>1, <2>2 DEF WorkerRow
<1> HIDE DEF r
<1>3. /\ worker' \in [Workers -> WorkerRow] /\ worker'[w] = r
      /\ \A v \in Workers \ {w} : worker'[v] = worker[v]
  BY <1>1, <1>2 DEF TypeInv, TypeOK
<1>4. TypeOK' /\ SoundJobs'
  BY <1>3 DEF Select, tables, TypeInv, TypeOK, SoundJobs
<1>5. SelectedKeys'
  BY <1>2, <1>3 DEF TypeInv, SelectedKeys
<1>6. \A v \in Workers : Running(v)' = Running(v) /\ worker'[v].token = worker[v].token
  BY <1>2, <1>3 DEF Running, Select
<1>7. TokensDiffer'
  BY <1>2, <1>3, <1>6 DEF TypeInv, TokensDiffer, Running, Select
<1> QED  BY <1>2, <1>3, <1>4, <1>5, <1>7 DEF TypeInv

\* Claim: the worker and the row carry the same new token.
LEMMA ClaimType ==
    ASSUME TypeInv, NEW w \in Workers, Claim(w)
    PROVE  /\ TypeInv'
           /\ worker'[w].pc = "claimed" /\ worker'[w].key = worker[w].key
           /\ worker'[w].token = FreshToken /\ worker'[w].hits = {}
           /\ worker'[w].cursor = job[worker[w].key].cursor
           /\ worker'[w].payload = job[worker[w].key].payload
           /\ worker[w].key \in Keys
           /\ job'[worker[w].key] = ClaimRow(job[worker[w].key], FreshToken)
           /\ \A v \in Workers \ {w} : worker'[v] = worker[v]
           /\ \A k \in Keys \ {worker[w].key} : job'[k] = job[k]
<1> DEFINE k == worker[w].key
           r == [IdleWorker EXCEPT !.pc = "claimed", !.key = k, !.token = FreshToken,
                                   !.cursor = job[k].cursor, !.payload = job[k].payload]
<1>1. k \in Keys
  BY DEF TypeInv, SelectedKeys, Claim
<1>2. FreshToken \in Token /\ \A v \in Workers : worker[v].token # FreshToken
  BY FreshTokenUnused DEF Claim
<1>3. SoundRow(job[k]) /\ HasAttempts(job[k])
  BY <1>1 DEF TypeInv, SoundJobs, Claim
<1>4. /\ r \in WorkerRow /\ r.pc = "claimed" /\ r.key = k /\ r.token = FreshToken
      /\ r.cursor = job[k].cursor /\ r.payload = job[k].payload /\ r.hits = {}
  <2>1. IdleWorker \in WorkerRow /\ IdleWorker.hits = {}
    BY PayloadForms DEF IdleWorker, WorkerRow
  <2>2. job[k].cursor \in Nat /\ job[k].payload \in Payload
    BY <1>3, JobRowColumns DEF SoundRow
  <2>3. r \in WorkerRow
    BY <1>1, <1>2, <2>1, <2>2, WorkerRowUpdate
  <2> QED  BY <2>1, <2>3 DEF WorkerRow
<1>5. worker' = [worker EXCEPT ![w] = r] /\ job' = [job EXCEPT ![k] = ClaimRow(@, FreshToken)]
  BY DEF Claim
<1> HIDE DEF r
<1>7. /\ worker' \in [Workers -> WorkerRow] /\ worker'[w] = r
      /\ \A v \in Workers \ {w} : worker'[v] = worker[v]
  BY <1>4, <1>5 DEF TypeInv, TypeOK
<1>8. /\ SoundJobs' /\ job' \in [Keys -> JobRow]
      /\ job'[k] = ClaimRow(job[k], FreshToken)
      /\ \A l \in Keys \ {k} : job'[l] = job[l]
  BY <1>1, <1>2, <1>3, <1>5, ClaimRowSound, OneRowChanges DEF TypeInv
<1>9. SelectedKeys'
  BY <1>1, <1>4, <1>7 DEF TypeInv, SelectedKeys
<1>10. TokensDiffer'
  <2>1. \A v \in Workers \ {w} : Running(v)' = Running(v)
    BY <1>7 DEF Running
  <2>2. Running(w)'
    BY <1>4, <1>7 DEF Running
  <2> QED  BY <1>1, <1>2, <1>4, <1>7, <2>1, <2>2, DurableJobsAssumption
           DEF TypeInv, TokensDiffer
<1>11. TypeOK'
  BY <1>7, <1>8 DEF Claim, tables, TypeInv, TypeOK
<1> QED  BY <1>1, <1>4, <1>7, <1>8, <1>9, <1>10, <1>11 DEF TypeInv

\* Evaluate: the end of the batch is 0 or one of the items past the cursor.
LEMMA EvaluateType ==
    ASSUME TypeInv, NEW w \in Workers, Evaluate(w)
    PROVE  LET k == worker[w].key
               p == worker[w].payload
               S == After(Items(k, p), worker[w].cursor)
               n == worker'[w]
           IN  /\ TypeInv'
               /\ k \in Keys /\ worker[w].pc = "claimed"
               /\ n.pc = "evaluated" /\ n.key = k /\ n.token = worker[w].token
               /\ n.payload = p /\ n.cursor = worker[w].cursor
               /\ n.last \in S \cup {0} /\ (n.last = 0 => S = {})
               /\ n.hits = Hits(k, p, {i \in S : i <= n.last})
               /\ \A v \in Workers \ {w} : worker'[v] = worker[v]
<1> DEFINE k == worker[w].key
           p == worker[w].payload
           S == After(Items(k, p), worker[w].cursor)
<1>1. k \in Keys /\ worker[w].pc = "claimed"
  BY DEF TypeInv, SelectedKeys, Evaluate
<1>2. PICK last \in S \cup {0} :
         /\ BatchEnds(S, last)
         /\ worker' = [worker EXCEPT ![w] =
              [@ EXCEPT !.pc = "evaluated", !.last = last,
                        !.held = ToLock(k, p, {i \in S : i <= last}),
                        !.hits = Hits(k, p, {i \in S : i <= last})]]
  BY Zenon DEF Evaluate
<1> DEFINE h == Hits(k, p, {i \in S : i <= last})
           l == ToLock(k, p, {i \in S : i <= last})
           n == [worker[w] EXCEPT !.pc = "evaluated", !.last = last, !.held = l, !.hits = h]
<1>3. \A i \in S : i \in Nat /\ i > 0 /\ Pair(k, i) \in Users \X Offers
  BY <1>1, ItemForms DEF After
<1>4. last \in Nat /\ (last = 0 => S = {})
  <2>1. S # {} => last \in S
    BY <1>2, Zenon DEF BatchEnds
  <2> HIDE DEF S
  <2> QED  BY <1>2, <1>3, <2>1
<1>5. h \in SUBSET (Users \X Offers)
  BY <1>3 DEF Hits
<1>6. l \in SUBSET Users
  <2>1. CASE k[1] = "offer"
    BY <2>1 DEF ToLock, Items, After
  <2>2. CASE k[1] # "offer"
    BY <1>1, <2>2, KeyForms DEF ToLock
  <2> QED  BY <2>1, <2>2
<1>7. worker' = [worker EXCEPT ![w] = n]
  BY <1>2
<1> HIDE DEF h, l
<1>8. /\ n \in WorkerRow /\ n.pc = "evaluated" /\ n.key = k /\ n.token = worker[w].token
      /\ n.payload = p /\ n.cursor = worker[w].cursor /\ n.last = last /\ n.hits = h
  <2>1. worker[w] \in WorkerRow
    BY DEF TypeInv, TypeOK
  <2>2. n \in WorkerRow
    BY <1>4, <1>5, <1>6, <2>1, WorkerRowUpdate
  <2> QED  BY <2>1, <2>2 DEF WorkerRow
<1> HIDE DEF n
<1>9. /\ worker' \in [Workers -> WorkerRow] /\ worker'[w] = n
      /\ \A v \in Workers \ {w} : worker'[v] = worker[v]
  BY <1>7, <1>8 DEF TypeInv, TypeOK
<1>10. TypeOK' /\ SoundJobs'
  BY <1>9 DEF Evaluate, tables, TypeInv, TypeOK, SoundJobs
<1>11. SelectedKeys' /\ TokensDiffer'
  BY <1>1, <1>8, <1>9 DEF TypeInv, SelectedKeys, TokensDiffer, Running
<1> QED  BY <1>1, <1>2, <1>4, <1>8, <1>9, <1>10, <1>11 DEF TypeInv, h

\* A worker leaves, and one row at most changes with it.
LEMMA LeaveStepType ==
    ASSUME TypeInv, NEW w \in Workers, Leave(w), NEW k \in Keys, NEW r, SoundRow(r),
           job' = [job EXCEPT ![k] = r],
           UNCHANGED <<user, known, offer, dest, edits>>, faults' \in 0..MaxFaults,
           matched' \in [Users -> SUBSET Offers],
           delivery' \in [Users -> [Offers -> AlertStatus]],
           sync' \in [Users -> [Offers -> SyncStatus]]
    PROVE  /\ TypeInv'
           /\ job'[k] = r /\ (\A l \in Keys \ {k} : job'[l] = job[l])
           /\ worker'[w] = IdleWorker /\ \A v \in Workers \ {w} : worker'[v] = worker[v]
<1>1. /\ SoundJobs' /\ job' \in [Keys -> JobRow]
      /\ job'[k] = r /\ (\A l \in Keys \ {k} : job'[l] = job[l])
  BY OneRowChanges DEF TypeInv
<1>2. /\ worker' \in [Workers -> WorkerRow] /\ SelectedKeys' /\ TokensDiffer'
      /\ worker'[w] = IdleWorker /\ \A v \in Workers \ {w} : worker'[v] = worker[v]
  BY LeaveType
<1> QED  BY <1>1, <1>2 DEF TypeInv, TypeOK

\* The worker at its commit: a key, a token, what it read.
LEMMA RunningForms ==
    ASSUME TypeInv, NEW w \in Workers, Running(w)
    PROVE  /\ worker[w].key \in Keys /\ worker[w].token \in Token
           /\ worker[w].payload \in Payload /\ worker[w].last \in Nat
           /\ worker[w].cursor \in Nat
           /\ SoundRow(job[worker[w].key])
BY DEF TypeInv, TypeOK, TokensDiffer, WorkerRow, SoundJobs

\* A batch that commits, fails, or never started: the row it leaves behind.
LEMMA FinishReconcileType ==
    ASSUME TypeInv, NEW w \in Workers, FinishReconcile(w)
    PROVE  LET k == worker[w].key
           IN  /\ TypeInv' /\ k \in Keys
               /\ job'[k] = FinishRow(job[k], worker[w].token, worker[w].last,
                                      OffersPhase(job[k], worker[w].payload))
               /\ \A l \in Keys \ {k} : job'[l] = job[l]
               /\ worker'[w] = IdleWorker /\ \A v \in Workers \ {w} : worker'[v] = worker[v]
<1> DEFINE k == worker[w].key
           r == FinishRow(job[k], worker[w].token, worker[w].last, OffersPhase(job[k], worker[w].payload))
<1>1. Running(w)
  BY DEF FinishReconcile, Running
<1>2. k \in Keys /\ SoundRow(r)
  BY <1>1, RunningForms, OffersPhaseRow, CompletedRow, FinishRowOfOwner, FinishRowOfOther
<1>3. delivery' \in [Users -> [Offers -> AlertStatus]]
  <2>1. ASSUME NEW u \in Users PROVE Reconciled(w, u) \in [Offers -> AlertStatus]
    BY DEF Reconciled, TypeInv, TypeOK, AlertStatus
  <2>2. delivery' \in {delivery, [delivery EXCEPT ![k[2]] = Reconciled(w, k[2])]}
    BY DEF FinishReconcile
  <2> QED  BY <2>1, <2>2 DEF TypeInv, TypeOK
<1>4. /\ Leave(w) /\ job' = [job EXCEPT ![k] = r]
      /\ UNCHANGED <<user, known, offer, matched, dest, sync, edits, faults>>
  BY DEF FinishReconcile
<1> HIDE DEF r
<1> QED  BY <1>2, <1>3, <1>4, LeaveStepType DEF TypeInv, TypeOK, r

LEMMA FinishMatchType ==
    ASSUME TypeInv, NEW w \in Workers, FinishMatch(w)
    PROVE  LET k == worker[w].key
           IN  /\ TypeInv' /\ k \in Keys
               /\ job'[k] = FinishRow(job[k], worker[w].token, worker[w].last,
                                      Completed(job[k]))
               /\ \A l \in Keys \ {k} : job'[l] = job[l]
               /\ worker'[w] = IdleWorker /\ \A v \in Workers \ {w} : worker'[v] = worker[v]
<1> DEFINE k == worker[w].key
           r == FinishRow(job[k], worker[w].token, worker[w].last, Completed(job[k]))
<1>1. Running(w)
  BY DEF FinishMatch, Running
<1>2. k \in Keys /\ SoundRow(r)
  BY <1>1, RunningForms, OffersPhaseRow, CompletedRow, FinishRowOfOwner, FinishRowOfOther
<1>3. matched' \in [Users -> SUBSET Offers]
  BY DEF FinishMatch, TypeInv, TypeOK
<1>4. delivery' \in [Users -> [Offers -> AlertStatus]]
  BY DEF FinishMatch, TypeInv, TypeOK, AlertStatus
<1>5. sync' \in [Users -> [Offers -> SyncStatus]]
  BY DEF FinishMatch, TypeInv, TypeOK, SyncStatus
<1>6. /\ Leave(w) /\ job' = [job EXCEPT ![k] = r]
      /\ UNCHANGED <<user, known, offer, dest, edits, faults>>
  BY DEF FinishMatch
<1> HIDE DEF r
<1> QED  BY <1>2, <1>3, <1>4, <1>5, <1>6, LeaveStepType DEF TypeInv, TypeOK, r

\* Every other way for a worker to leave its job keeps the place of every row.
LEMMA GiveUpType ==
    ASSUME TypeInv, NEW w \in Workers,
           SkipJob(w) \/ ExhaustJob(w) \/ FailBatch(w) \/ FailBeforeClaim(w) \/ Crash(w)
    PROVE  /\ TypeInv'
           /\ \A k \in Keys : Keeps(job[k], job'[k])
           /\ worker'[w] = IdleWorker /\ \A v \in Workers \ {w} : worker'[v] = worker[v]
<1> DEFINE k == worker[w].key
           j == job[k]
<1>1. k \in Keys
  BY DEF TypeInv, SelectedKeys, SkipJob, ExhaustJob, FailBatch, FailBeforeClaim, Crash, Running
<1>2. \A l \in Keys : SoundRow(job[l])
  BY DEF TypeInv, SoundJobs
<1>3. PICK r : job' = [job EXCEPT ![k] = r] /\ Keeps(j, r)
  <2>1. CASE SkipJob(w) \/ Crash(w)
    <3>1. job' = [job EXCEPT ![k] = j]
      BY <1>1, <2>1 DEF SkipJob, Crash, TypeInv, TypeOK
    <3> QED  BY <1>1, <1>2, <3>1, RowKeepsPlace
  <2>2. CASE ExhaustJob(w)
    <3>1. job' = [job EXCEPT ![k] = ExhaustRow(j)] /\ Open(j) /\ ~HasAttempts(j)
      BY <2>2 DEF ExhaustJob, Claimable
    <3> QED  BY <1>1, <1>2, <3>1, RowKeepsPlace
  <2>3. CASE FailBatch(w)
    <3>1. job' = [job EXCEPT ![k] = FailRow(j, worker[w].token)] /\ worker[w].token \in Token
      BY <2>3, RunningForms DEF FailBatch
    <3> QED  BY <1>1, <1>2, <3>1, RowKeepsPlace
  <2>4. CASE FailBeforeClaim(w)
    <3>1. job' = [job EXCEPT ![k] = PreClaimFailRow(j)]
      BY <2>4 DEF FailBeforeClaim
    <3> QED  BY <1>1, <1>2, <3>1, RowKeepsPlace
  <2> QED  BY <2>1, <2>2, <2>3, <2>4
<1>4. faults' \in 0..MaxFaults
  BY MatchQueueAssumption
     DEF SkipJob, ExhaustJob, FailBatch, FailBeforeClaim, Crash, MayFail, tables, TypeInv, TypeOK
<1>5. /\ Leave(w)
      /\ UNCHANGED <<user, known, offer, dest, edits, matched, delivery, sync>>
  BY DEF SkipJob, ExhaustJob, FailBatch, FailBeforeClaim, Crash, tables
<1>6. /\ matched' \in [Users -> SUBSET Offers]
      /\ delivery' \in [Users -> [Offers -> AlertStatus]]
      /\ sync' \in [Users -> [Offers -> SyncStatus]]
  BY <1>5 DEF TypeInv, TypeOK
<1>7. SoundRow(r)
  BY <1>3 DEF Keeps, KeepsPlace
<1>8. /\ TypeInv'
      /\ job'[k] = r /\ (\A l \in Keys \ {k} : job'[l] = job[l])
      /\ worker'[w] = IdleWorker /\ \A v \in Workers \ {w} : worker'[v] = worker[v]
  BY <1>1, <1>3, <1>4, <1>5, <1>6, <1>7, LeaveStepType
<1>9. \A l \in Keys \ {k} : Keeps(job[l], job'[l])
  BY <1>2, <1>8, RowKeepsPlace
<1> QED  BY <1>3, <1>8, <1>9

\* The passage of time keeps the place of every row.
LEMMA TimePassesType ==
    ASSUME TypeInv, TimePasses
    PROVE  /\ TypeInv' /\ UNCHANGED <<tables, worker, edits, faults>>
           /\ \A k \in Keys : Keeps(job[k], job'[k])
<1> PICK k \in Keys : LeaseExpires(k) \/ RetryDue(k)
  BY DEF TimePasses
<1>1. \A l \in Keys : SoundRow(job[l])
  BY DEF TypeInv, SoundJobs
<1>2. PICK r : job' = [job EXCEPT ![k] = r] /\ Keeps(job[k], r)
  <2>1. CASE LeaseExpires(k)
    <3>1. job' = [job EXCEPT ![k] = [job[k] EXCEPT !.lease = "expired"]]
      BY <2>1 DEF LeaseExpires, TypeInv, TypeOK
    <3> QED  BY <1>1, <3>1, RowKeepsPlace
  <2>2. CASE RetryDue(k)
    <3>1. job' = [job EXCEPT ![k] = [job[k] EXCEPT !.deferred = FALSE]]
      BY <2>2 DEF RetryDue, TypeInv, TypeOK
    <3> QED  BY <1>1, <3>1, RowKeepsPlace
  <2> QED  BY <2>1, <2>2
<1>3. SoundRow(r)
  BY <1>2 DEF Keeps, KeepsPlace
<1>4. /\ SoundJobs' /\ job' \in [Keys -> JobRow]
      /\ job'[k] = r /\ \A l \in Keys \ {k} : job'[l] = job[l]
  BY <1>2, <1>3, OneRowChanges DEF TypeInv
<1>5. UNCHANGED <<tables, worker, edits, faults>>
  BY DEF LeaseExpires, RetryDue
<1>6. TypeInv'
  BY <1>4, <1>5, WorkersIdleStep DEF tables, TypeInv, TypeOK
<1>7. \A l \in Keys : Keeps(job[l], job'[l])
  BY <1>1, <1>2, <1>4, RowKeepsPlace
<1> QED  BY <1>5, <1>6, <1>7

\* The initial states are typed.
LEMMA InitType == Init => TypeInv
<1> SUFFICES ASSUME Init PROVE TypeInv
  OBVIOUS
<1> USE DEF Init
<1>1. /\ user \in [Users -> UserRow] /\ offer \in [Offers -> OfferRow]
  <2>1. Kinds \in SUBSET Kinds
    OBVIOUS
  <2>2. [active : {TRUE}, status : {"draft", "active"}, scope : {Kinds}] \subseteq UserRow
    BY <2>1 DEF UserRow
  <2>3. (CHOOSE x \in Kinds : TRUE) \in Kinds
    BY MatchQueueAssumption
  <2> QED  BY <2>2, <2>3 DEF OfferRow
<1>2. /\ known \in [Users -> SUBSET Offers] /\ matched \in [Users -> SUBSET Offers]
      /\ delivery \in [Users -> [Offers -> AlertStatus]] /\ dest \in [Users -> BOOLEAN]
      /\ sync \in [Users -> [Offers -> SyncStatus]]
      /\ edits \in 0..MaxEdits /\ faults \in 0..MaxFaults
  BY MatchQueueAssumption DEF AlertStatus, SyncStatus
<1>3. SoundJobs /\ job \in [Keys -> JobRow]
  BY AbsentJobSound DEF SoundJobs, SoundRow
<1>4. IdleWorker \in WorkerRow /\ IdleWorker.pc = "idle" /\ IdleWorker.token = NoToken
  BY PayloadForms DEF IdleWorker, WorkerRow
<1>5. worker \in [Workers -> WorkerRow] /\ SelectedKeys /\ TokensDiffer
  BY <1>4 DEF SelectedKeys, TokensDiffer, Running
<1> QED  BY <1>1, <1>2, <1>3, <1>5 DEF TypeInv, TypeOK

\* Every step keeps the types.
LEMMA NextType == TypeInv /\ [Next]_vars => TypeInv'
<1> SUFFICES ASSUME TypeInv, [Next]_vars PROVE TypeInv'
  OBVIOUS
<1>1. CASE Produce
  BY <1>1, ProduceType
<1>2. CASE Downstream
  BY <1>2, DownstreamType
<1>3. ASSUME NEW w \in Workers, WorkerStep(w) PROVE TypeInv'
  BY <1>3, SelectType, ClaimType, EvaluateType, FinishReconcileType, FinishMatchType, GiveUpType
     DEF WorkerStep
<1>4. CASE Trouble
  BY <1>4, GiveUpType DEF Trouble
<1>5. CASE TimePasses
  BY <1>5, TimePassesType
<1>6. CASE UNCHANGED vars
  BY <1>6 DEF vars, TypeInv, TypeOK, SoundJobs, SelectedKeys, TokensDiffer, Running
<1> QED  BY <1>1, <1>2, <1>3, <1>4, <1>5, <1>6 DEF Next

----------------------------------------------------------------------------

\* The tables, the job rows and the workers keep their types; the bound on
\* attempts rests on WaitingIsClaimable, the distinct tokens on FreshToken.
THEOREM TypeCorrect == Spec => []TypeOK
<1>1. Spec => []TypeInv
  BY InitType, NextType, PTL DEF Spec
<1>2. TypeInv => TypeOK
  BY DEF TypeInv
<1> QED  BY <1>1, <1>2, PTL

\* A waiting job can always be claimed, and an error shown on a job comes with an
\* attempt counted against it, whatever process_jobs and match_batch did before.
THEOREM AttemptsStaySound == Spec => []AttemptsAreSound
<1>1. Spec => []TypeInv
  BY InitType, NextType, PTL DEF Spec
<1>2. TypeInv => AttemptsAreSound
  BY DEF TypeInv, SoundJobs, SoundRow, AttemptsAreSound
<1> QED  BY <1>1, <1>2, PTL

----------------------------------------------------------------------------
(* No match is lost. *)

Covered(u, o) ==
    \/ o \in matched[u] \/ InHand(u, o)
    \/ Ahead(OfferKey(o), u) \/ Ahead(UserKey(u), o)

\* A row may also restart: at its first item, or to reconcile first.
Restarts(k, r) ==
    r.status = "pending" /\ (r.cursor = 0 \/ Reconciling(k, r.payload))

Stands(k) ==
    job[k].status \in Live => KeepsPlace(job[k], job'[k]) \/ Restarts(k, job'[k])

\* An offer whose pages are to be updated is not forgotten by what replaces its job.
UpdatesStand ==
    \A o \in Offers :
      job[OfferKey(o)].status \in Live /\ job[OfferKey(o)].payload.updated
        => job'[OfferKey(o)].payload.updated

\* No worker has read a batch of a current generation that had not before.
NoNewReader ==
    \A w \in Workers : Current(w)' /\ Evaluated(w)' => Current(w) /\ worker'[w] = worker[w]

\* As long as rows keep their place or restart and no worker takes over, work that
\* was ahead stays ahead, and work in the hands of a worker that loses its
\* generation is ahead again.
LEMMA AheadStays ==
    ASSUME TypeInv, NoNewReader, NEW k \in Keys, Stands(k), NEW i \in Nat \ {0}, Ahead(k, i)
    PROVE  Ahead(k, i)'
<1>1. ~PassedBy(k, i)'
  BY DEF NoNewReader, PassedBy, Evaluated, Reconciling, Ahead
<1>2. job'[k].status \in Live
  BY DEF Ahead, Stands, KeepsPlace, Restarts, Live
<1>3. Reconciling(k, job'[k].payload) \/ job'[k].cursor < i
  BY DEF Ahead, Stands, KeepsPlace, Restarts, Live
<1> QED  BY <1>1, <1>2, <1>3 DEF Ahead, Live, Reconciling

\* Two workers never run the current generation of one job.
LEMMA OneCurrent ==
    ASSUME TypeInv, NEW v \in Workers, NEW w \in Workers, Current(v), Current(w),
           worker[v].key = worker[w].key
    PROVE  v = w
BY DEF TypeInv, TokensDiffer, Current, Owns

LEMMA HandedBack ==
    ASSUME TypeInv, ClaimHolds, HitsAhead, NoNewReader, \A k \in Keys : Stands(k),
           NEW u \in Users, NEW o \in Offers, InHand(u, o)
    PROVE  InHand(u, o)' \/ Ahead(OfferKey(o), u)' \/ Ahead(UserKey(u), o)'
<1>1. PICK w \in Workers : Current(w) /\ Evaluated(w) /\ <<u, o>> \in worker[w].hits
  BY DEF InHand
<1>2. PICK k \in {OfferKey(o), UserKey(u)}, i \in {Item(worker[w].key, u, o)} :
         /\ k = worker[w].key /\ i = Item(k, u, o) /\ worker[w].cursor < i
         /\ worker[w].cursor = job[k].cursor /\ worker[w].payload = job[k].payload
         /\ k \in Keys /\ job[k].status = "processing"
  BY <1>1, KeyForms DEF HitsAhead, ClaimHolds, Current, Owns
<1>3. CASE Current(w)' /\ Evaluated(w)'
  BY <1>1, <1>3 DEF NoNewReader, InHand
<1>4. CASE ~(Current(w)' /\ Evaluated(w)')
  <2>1. ~PassedBy(k, i)'
    <3> SUFFICES ASSUME NEW v \in Workers, Current(v)', Evaluated(v)', worker'[v].key = k
                 PROVE  FALSE
      BY DEF PassedBy
    <3>1. Current(v) /\ worker[v].key = k
      BY DEF NoNewReader
    <3> QED  BY <1>1, <1>2, <1>4, <3>1, OneCurrent
  <2>2. job'[k].status \in Live
    BY <1>2 DEF Stands, KeepsPlace, Restarts, Live
  <2>3. Reconciling(k, job'[k].payload) \/ job'[k].cursor < i
    BY <1>2, IdsPositive DEF Stands, KeepsPlace, Restarts, Item, Live
  <2>4. Ahead(k, i)'
    BY <2>1, <2>2, <2>3 DEF Ahead, Live, Reconciling
  <2> QED  BY <1>2, <2>4, KeyForms DEF Item
<1> QED  BY <1>3, <1>4

LEMMA CoverStays ==
    ASSUME TypeInv, ClaimHolds, HitsAhead, NoNewReader, \A k \in Keys : Stands(k),
           NEW u \in Users, NEW o \in Offers, Covered(u, o), matched[u] \subseteq matched'[u]
    PROVE  Covered(u, o)'
BY AheadStays, HandedBack, KeyForms, IdsPositive DEF Covered

\* Rows keep their place, or are in nobody's hands.
ClaimsKept == \A k \in Keys : Keeps(job[k], job'[k]) \/ job'[k].status # "processing"

\* Workers stay as they are, or leave.
WorkersStay ==
    \A w \in Workers : \/ worker'[w] = worker[w]
                       \/ worker'[w].pc \in {"idle", "selected"} /\ worker'[w].hits = {}

\* Nothing becomes relevant.
NoNewMatch == \A u \in Users, o \in Offers : Relevant(u, o)' => Relevant(u, o)

\* An untouched table of workers or of users and offers is a case of these.
LEMMA Unchanged ==
    /\ worker' = worker => WorkersStay
    /\ user' = user /\ offer' = offer => NoNewMatch
BY DEF WorkersStay, NoNewMatch, Relevant, Matches

LEMMA ClaimsStay ==
    ASSUME TypeInv, TypeInv', ClaimHolds, HitsAhead,
           ClaimsKept, WorkersStay
    PROVE  NoNewReader /\ ClaimHolds' /\ HitsAhead'
<1>1. ASSUME NEW w \in Workers, Current(w)'
      PROVE  /\ worker'[w] = worker[w] /\ Current(w)
             /\ worker[w].key \in Keys /\ Keeps(job[worker[w].key], job'[worker[w].key])
  <2>1. worker'[w] = worker[w]
    BY <1>1 DEF WorkersStay, Current, Running
  <2>2. Running(w)
    BY <1>1, <2>1 DEF Current, Running
  <2>3. worker[w].key \in Keys /\ worker[w].token \in Token
    BY <2>2, RunningForms
  <2>4. Owns(job'[worker[w].key], worker[w].token)
    BY <1>1, <2>1 DEF Current
  <2>5. Keeps(job[worker[w].key], job'[worker[w].key])
    BY <2>3, <2>4 DEF ClaimsKept, Owns
  <2> QED  BY <2>1, <2>2, <2>3, <2>4, <2>5 DEF Current, Keeps
<1>2. NoNewReader
  BY <1>1 DEF NoNewReader
<1>3. ClaimHolds'
  BY <1>1 DEF ClaimHolds, Keeps, KeepsPlace
<1>4. HitsAhead'
  BY DEF WorkersStay, HitsAhead
<1> QED  BY <1>2, <1>3, <1>4

\* The parts of the invariant that do not speak of matches.
ClaimInv == TypeInv /\ ClaimHolds /\ HitsAhead /\ AbsentOfferIdle

\* Rows stand, and no worker takes a batch over.
StepStands == NoNewReader /\ (\A k \in Keys : Stands(k)) /\ UpdatesStand

Advances == ClaimInv' /\ EveryMatchCovered' /\ StepStands

\* enqueue_job keeps the place of the row or restarts it; when it cannot be left
\* alone, or asks to reconcile, the row restarts.
LEMMA EnqueueEffect ==
    ASSUME TypeInv, NEW k \in Keys, NEW p \in Payload, NEW supersede \in BOOLEAN,
           job' = [job EXCEPT ![k] = EnqueueMatch(@, p, supersede)]
    PROVE  /\ \A l \in Keys : Stands(l)
           /\ ClaimsKept /\ job'[k].status = "pending"
           /\ job[k].status # "pending" \/ supersede \/ Reconciling(k, p)
                => Restarts(k, job'[k])
           /\ p.updated \/ (Open(job[k]) /\ job[k].payload.updated) => job'[k].payload.updated
           /\ \A l \in Keys \ {k} : job'[l] = job[l]
<1> DEFINE r == EnqueueMatch(job[k], p, supersede)
<1>1. \A l \in Keys : SoundRow(job[l])
  BY DEF TypeInv, SoundJobs
<1>2. /\ SoundRow(r) /\ r.status = "pending"
      /\ r.payload.reconcile = p.reconcile /\ r.payload.offers = p.offers
      /\ p.updated \/ (Open(job[k]) /\ job[k].payload.updated) => r.payload.updated
      /\ \/ r.cursor = 0
         \/ r = job[k] /\ job[k].status = "pending" /\ ~supersede /\ job[k].payload = p
  BY <1>1, EnqueueMatchRow
<1> HIDE DEF r
<1>3. job' = [job EXCEPT ![k] = r]
  BY DEF r
<1>4. job'[k] = r /\ \A l \in Keys \ {k} : job'[l] = job[l]
  BY <1>2, <1>3, OneRowChanges DEF TypeInv
<1>5. \A l \in Keys \ {k} : Keeps(job[l], job'[l])
  BY <1>1, <1>4, RowKeepsPlace
<1>6. job[k].status # "pending" \/ supersede \/ Reconciling(k, p) => Restarts(k, r)
  BY <1>2 DEF Restarts, Reconciling
<1>7. KeepsPlace(job[k], r) \/ Restarts(k, r)
  BY <1>1, <1>2, RowKeepsPlace DEF Restarts, Keeps
<1> QED  BY <1>2, <1>4, <1>5, <1>6, <1>7 DEF Stands, Keeps, ClaimsKept

\* A restarted row has every item ahead.
LEMMA RestartCovers ==
    ASSUME NEW k \in Keys, Restarts(k, job'[k]), NEW i \in Nat \ {0}
    PROVE  Ahead(k, i)'
BY DEF Restarts, Ahead, PassedBy, Current, Owns, Reconciling

\* A step that moves no worker to a new batch and keeps or restarts the rows
\* keeps every match covered that was relevant before.
LEMMA StepKeepsCover ==
    ASSUME ClaimInv, EveryMatchCovered, NoNewReader, \A k \in Keys : Stands(k),
           \A u \in Users : matched[u] \subseteq matched'[u],
           \A u \in Users, o \in Offers :
             Relevant(u, o)' => \/ Relevant(u, o)
                                \/ Restarts(OfferKey(o), job'[OfferKey(o)])
                                \/ Restarts(UserKey(u), job'[UserKey(u)])
    PROVE  EveryMatchCovered'
<1> SUFFICES ASSUME NEW u \in Users, NEW o \in Offers, Relevant(u, o)'
             PROVE  Covered(u, o)'
  BY DEF EveryMatchCovered, Covered
<1>1. CASE Relevant(u, o)
  <2>1. Covered(u, o)
    BY <1>1 DEF EveryMatchCovered, Covered
  <2> QED  BY <2>1, CoverStays DEF ClaimInv
<1>2. CASE Restarts(OfferKey(o), job'[OfferKey(o)])
  <2>1. Ahead(OfferKey(o), u)'
    BY <1>2, RestartCovers, KeyForms, IdsPositive
  <2> QED  BY <2>1 DEF Covered
<1>3. CASE Restarts(UserKey(u), job'[UserKey(u)])
  <2>1. Ahead(UserKey(u), o)'
    BY <1>3, RestartCovers, KeyForms, IdsPositive
  <2> QED  BY <2>1 DEF Covered
<1> QED  BY <1>1, <1>2, <1>3

\* What becomes relevant is an item of job k.
NewMatchesOf(k) ==
    \A u \in Users, o \in Offers :
      Relevant(u, o)' => Relevant(u, o) \/ k \in {OfferKey(o), UserKey(u)}

\* No offer becomes absent, and an offer with job k is not.
AbsentBut(k) ==
    \A o \in Offers : offer'[o].state = "absent" =>
      offer[o].state = "absent" /\ k # OfferKey(o)

\* A producer that enqueues one job, with the change that makes matches relevant.
LEMMA EnqueueStep ==
    ASSUME ClaimInv, EveryMatchCovered, TypeInv', worker' = worker, matched' = matched,
           NEW k \in Keys, NEW p \in Payload, NEW supersede \in BOOLEAN,
           job' = [job EXCEPT ![k] = EnqueueMatch(@, p, supersede)],
           job[k].status # "pending" \/ supersede \/ Reconciling(k, p) \/ NoNewMatch,
           k[1] = "user" \/ p.updated \/ job[k].status = "absent",
           NewMatchesOf(k), AbsentBut(k)
    PROVE  Advances
<1>1. /\ \A l \in Keys : Stands(l)
      /\ ClaimsKept /\ job'[k].status = "pending"
      /\ job[k].status # "pending" \/ supersede \/ Reconciling(k, p)
           => Restarts(k, job'[k])
      /\ p.updated => job'[k].payload.updated
      /\ \A l \in Keys \ {k} : job'[l] = job[l]
  BY EnqueueEffect DEF ClaimInv
<1>2. WorkersStay
  BY Unchanged
<1>3. NoNewReader /\ ClaimHolds' /\ HitsAhead'
  BY <1>1, <1>2, ClaimsStay DEF ClaimInv
<1>4. AbsentOfferIdle'
  BY <1>1, KeyForms DEF ClaimInv, AbsentOfferIdle, AbsentBut
<1>5. EveryMatchCovered'
  <2>1. \A u \in Users, o \in Offers :
          Relevant(u, o)' => \/ Relevant(u, o)
                             \/ Restarts(OfferKey(o), job'[OfferKey(o)])
                             \/ Restarts(UserKey(u), job'[UserKey(u)])
    BY <1>1 DEF NoNewMatch, NewMatchesOf
  <2>2. \A u \in Users : matched[u] \subseteq matched'[u]
    OBVIOUS
  <2> QED  BY <1>1, <1>3, <2>1, <2>2, StepKeepsCover
<1>6. UpdatesStand
  <2> SUFFICES ASSUME NEW o \in Offers, job[OfferKey(o)].status \in Live,
                      job[OfferKey(o)].payload.updated
               PROVE  job'[OfferKey(o)].payload.updated
    BY DEF UpdatesStand
  <2>1. CASE OfferKey(o) = k
    BY <1>1, <2>1, KeyForms DEF Live
  <2>2. CASE OfferKey(o) # k
    BY <1>1, <2>2, KeyForms
  <2> QED  BY <2>1, <2>2
<1> QED  BY <1>1, <1>3, <1>4, <1>5, <1>6 DEF ClaimInv, Advances, StepStands

\* Any other step after which rows stand and workers stay or leave.
LEMMA QuietStep ==
    ASSUME ClaimInv, EveryMatchCovered, TypeInv',
           ClaimsKept, WorkersStay, NoNewMatch, \A k \in Keys : Stands(k),
           \A k \in Keys : job[k].status = "absent" => job'[k].status = "absent",
           \A u \in Users : matched[u] \subseteq matched'[u], offer' = offer, UpdatesStand
    PROVE  Advances
<1>1. NoNewReader /\ ClaimHolds' /\ HitsAhead'
  BY ClaimsStay DEF ClaimInv
<1>2. AbsentOfferIdle'
  BY KeyForms DEF ClaimInv, AbsentOfferIdle
<1>3. EveryMatchCovered'
  BY <1>1, StepKeepsCover DEF NoNewMatch
<1> QED  BY <1>1, <1>2, <1>3 DEF ClaimInv, Advances, StepStands

\* Every row keeps its place.
LEMMA KeepStep ==
    ASSUME ClaimInv, EveryMatchCovered, TypeInv', WorkersStay, NoNewMatch,
           \A k \in Keys : Keeps(job[k], job'[k]),
           \A u \in Users : matched[u] \subseteq matched'[u], offer' = offer
    PROVE  Advances
<1>1. ClaimsKept /\ \A k \in Keys : Stands(k)
  BY DEF ClaimsKept, Stands, Keeps
<1>2. \A k \in Keys : job[k].status = "absent" => job'[k].status = "absent"
  BY DEF Keeps, KeepsPlace
<1>3. UpdatesStand
  BY KeyForms DEF UpdatesStand, Keeps, KeepsPlace
<1> QED  BY <1>1, <1>2, <1>3, QuietStep

\* Only tables that no match depends on change.
LEMMA TablesStep ==
    ASSUME ClaimInv, EveryMatchCovered, TypeInv', NoNewMatch,
           worker' = worker, job' = job, matched' = matched, offer' = offer
    PROVE  Advances
<1>1. \A k \in Keys : Keeps(job[k], job'[k])
  BY RowKeepsPlace DEF ClaimInv, TypeInv, SoundJobs
<1>2. WorkersStay /\ \A u \in Users : matched[u] \subseteq matched'[u]
  BY Unchanged
<1> QED  BY <1>1, <1>2, KeepStep

\* A producer's transaction loses no match: what it makes relevant, it enqueues.
LEMMA ProduceKeepsCover ==
    ASSUME ClaimInv, EveryMatchCovered, Produce
    PROVE  Advances
<1>1. TypeInv /\ TypeInv'
  BY ProduceType DEF ClaimInv
<1>2. \A l \in Keys : SoundRow(job[l]) /\ Keeps(job[l], job[l]) /\ KeepsPlace(job[l], job[l])
  BY <1>1, RowKeepsPlace DEF TypeInv, SoundJobs, Keeps
<1>3. ASSUME NEW o \in Offers, NEW kind \in Kinds, CollectNew(o, kind)
      PROVE  Advances
  <2>1. /\ job' = [job EXCEPT ![OfferKey(o)] = EnqueueMatch(@, OfferPayload(FALSE), FALSE)]
        /\ worker' = worker /\ matched' = matched /\ user' = user
    BY <1>3 DEF CollectNew
  <2>2. job[OfferKey(o)].status = "absent"
    BY <1>3 DEF CollectNew, ClaimInv, AbsentOfferIdle
  <2>3. /\ offer'[o].state = "open"
        /\ \A i \in Offers \ {o} : offer'[i] = offer[i] /\ OfferKey(i) # OfferKey(o)
    BY <1>1, <1>3, KeyForms DEF CollectNew, TypeInv, TypeOK
  <2>4. NewMatchesOf(OfferKey(o)) /\ AbsentBut(OfferKey(o))
    BY <2>1, <2>3 DEF NewMatchesOf, AbsentBut, Relevant, Matches
  <2>5. OfferKey(o) \in Keys /\ OfferPayload(FALSE) \in Payload
    BY KeyForms, PayloadForms
  <2> QED  BY <1>1, <2>1, <2>2, <2>4, <2>5, EnqueueStep
<1>4. ASSUME NEW o \in Offers, NEW kind \in Kinds, NEW state \in {"open", "closed"},
             CollectChange(o, state, kind)
      PROVE  Advances
  <2>1. /\ job' = [job EXCEPT ![OfferKey(o)] = EnqueueMatch(@, OfferPayload(TRUE), TRUE)]
        /\ worker' = worker /\ matched' = matched /\ user' = user
    BY <1>4 DEF CollectChange
  <2>2. /\ offer'[o].state # "absent"
        /\ \A i \in Offers \ {o} : offer'[i] = offer[i] /\ OfferKey(i) # OfferKey(o)
    BY <1>1, <1>4, KeyForms DEF CollectChange, TypeInv, TypeOK
  <2>3. NewMatchesOf(OfferKey(o)) /\ AbsentBut(OfferKey(o))
    BY <2>1, <2>2 DEF NewMatchesOf, AbsentBut, Relevant, Matches
  <2>4. OfferKey(o) \in Keys /\ OfferPayload(TRUE) \in Payload /\ OfferPayload(TRUE).updated
    BY KeyForms, PayloadForms DEF OfferPayload
  <2> QED  BY <1>1, <2>1, <2>3, <2>4, EnqueueStep
<1>5. ASSUME NEW u \in Users, NEW row \in UserRow, ActivatePreference(u, row),
             offer' = offer, worker' = worker, matched' = matched
      PROVE  Advances
  <2>1. job' = [job EXCEPT ![UserKey(u)] = EnqueueMatch(@, ActivationPayload, FALSE)]
    BY <1>5 DEF ActivatePreference
  <2>2. \A v \in Users \ {u} : user'[v] = user[v]
    BY <1>1, <1>5 DEF ActivatePreference, TypeInv, TypeOK
  <2>3. NewMatchesOf(UserKey(u)) /\ AbsentBut(UserKey(u))
    BY <1>5, <2>2, KeyForms DEF NewMatchesOf, AbsentBut, Relevant, Matches
  <2>4. /\ Reconciling(UserKey(u), ActivationPayload)
        /\ UserKey(u) \in Keys /\ ActivationPayload \in Payload /\ UserKey(u)[1] = "user"
    BY PayloadForms, KeyForms DEF Reconciling
  <2> QED  BY <1>1, <1>5, <2>1, <2>3, <2>4, EnqueueStep
<1>6. ASSUME NEW u \in Users, NEW scope \in SUBSET Kinds \ {{}}, Activate(u, scope)
      PROVE  Advances
  <2>1. [active |-> TRUE, status |-> "active", scope |-> scope] \in UserRow
    BY DEF UserRow
  <2> QED  BY <1>5, <1>6, <2>1 DEF Activate
<1>7. ASSUME NEW u \in Users, Deactivate(u) PROVE Advances
  <2>1. offer' = offer /\ worker' = worker /\ matched' = matched /\ job' = job
    BY <1>7 DEF Deactivate
  <2>2. NoNewMatch
    BY <1>1, <1>7 DEF NoNewMatch, Deactivate, Relevant, Matches, TypeInv, TypeOK, UserRow
  <2> QED  BY <1>1, <2>1, <2>2, TablesStep
<1>8. ASSUME NEW u \in Users, Reactivate(u) PROVE Advances
  <2>1. CASE user[u].status = "active"
    <3>1. [user[u] EXCEPT !.active = TRUE] \in UserRow
      BY <1>1, UserRowUpdate DEF TypeInv, TypeOK
    <3> QED  BY <1>5, <1>8, <2>1, <3>1 DEF Reactivate
  <2>2. CASE user[u].status # "active"
    <3>1. /\ offer' = offer /\ worker' = worker /\ matched' = matched /\ job' = job
          /\ user' = [user EXCEPT ![u].active = TRUE]
      BY <1>8, <2>2 DEF Reactivate
    <3>2. /\ user'[u].status = user[u].status
          /\ \A v \in Users \ {u} : user'[v] = user[v]
      BY <1>1, <3>1 DEF TypeInv, TypeOK, UserRow
    <3>3. NoNewMatch
      BY <2>2, <3>1, <3>2 DEF NoNewMatch, Relevant, Matches
    <3> QED  BY <1>1, <3>1, <3>3, TablesStep
  <2> QED  BY <2>1, <2>2
<1>9. ASSUME NEW u \in Users, NotionReady(u) PROVE Advances
  <2>1. /\ job' = [job EXCEPT ![UserKey(u)] = EnqueueMatch(@, BaselinePayload, FALSE)]
        /\ worker' = worker /\ matched' = matched /\ user' = user /\ offer' = offer
    BY <1>9 DEF NotionReady
  <2>2. NoNewMatch
    BY <2>1, Unchanged
  <2>3. NewMatchesOf(UserKey(u)) /\ AbsentBut(UserKey(u))
    BY <2>1, <2>2, KeyForms DEF NoNewMatch, NewMatchesOf, AbsentBut
  <2>4. UserKey(u) \in Keys /\ BaselinePayload \in Payload /\ UserKey(u)[1] = "user"
    BY PayloadForms, KeyForms
  <2> QED  BY <1>1, <2>1, <2>2, <2>3, <2>4, EnqueueStep
<1>10. ASSUME NEW u \in Users, NotionDisconnect(u) PROVE Advances
  <2>1. /\ offer' = offer /\ user' = user /\ worker' = worker /\ matched' = matched
        /\ job' = job
    BY <1>10 DEF NotionDisconnect
  <2>2. NoNewMatch
    BY <2>1, Unchanged
  <2> QED  BY <1>1, <2>1, <2>2, TablesStep
<1>11. ASSUME NEW k \in Keys, AdminRetry(k) \/ PurgeJob(k) PROVE Advances
  <2>1. /\ offer' = offer /\ user' = user /\ worker' = worker
        /\ \A u \in Users : matched[u] \subseteq matched'[u]
    BY <1>11 DEF AdminRetry, PurgeJob, tables
  <2> WorkersStay
    BY <2>1, Unchanged
  <2>2. NoNewMatch
    BY <2>1, Unchanged
  <2>3. CASE AdminRetry(k)
    <3>1. /\ job' = [job EXCEPT ![k] = RetryRow(job[k])] /\ Keeps(job[k], RetryRow(job[k]))
          /\ SoundRow(RetryRow(job[k]))
      BY <1>2, <2>3, RowKeepsPlace, RetryRowSound DEF AdminRetry
    <3>2. job'[k] = RetryRow(job[k]) /\ \A l \in Keys \ {k} : job'[l] = job[l]
      BY <1>1, <3>1, OneRowChanges DEF TypeInv
    <3>3. \A l \in Keys : Keeps(job[l], job'[l])
      BY <1>2, <3>1, <3>2
    <3> QED  BY <1>1, <2>1, <2>2, <3>3, KeepStep
  <2>4. CASE PurgeJob(k)
    <3>1. /\ job' = [job EXCEPT ![k] = AbsentJob] /\ SoundRow(AbsentJob)
          /\ job[k].status = "done" /\ AbsentJob.status = "absent"
      BY <2>4, AbsentJobSound DEF PurgeJob, AbsentJob
    <3>2. job'[k] = AbsentJob /\ \A l \in Keys \ {k} : job'[l] = job[l]
      BY <1>1, <3>1, OneRowChanges DEF TypeInv
    <3>3. /\ ClaimsKept
          /\ \A l \in Keys : Stands(l)
          /\ \A l \in Keys : job[l].status = "absent" => job'[l].status = "absent"
      BY <1>2, <3>1, <3>2 DEF ClaimsKept, Stands, Live
    <3>4. UpdatesStand
      BY <3>1, <3>2, KeyForms DEF UpdatesStand, Live
    <3> QED  BY <1>1, <2>1, <2>2, <3>3, <3>4, QuietStep
  <2> QED  BY <1>11, <2>3, <2>4
<1> QED  BY <1>3, <1>4, <1>6, <1>7, <1>8, <1>9, <1>10, <1>11 DEF Produce

\* Alerts and pages are sent: no match depends on it.
LEMMA DownstreamKeepsCover ==
    ASSUME ClaimInv, EveryMatchCovered, Downstream
    PROVE  Advances
<1>1. TypeInv'
  BY DownstreamType DEF ClaimInv
<1>2. /\ user' = user /\ offer' = offer /\ worker' = worker /\ matched' = matched
      /\ job' = job
  BY DEF Downstream, Mail, SyncPage
<1> QED  BY <1>1, <1>2, Unchanged, TablesStep

\* Leases expire and retries fall due: rows keep their place.
LEMMA TimeKeepsCover ==
    ASSUME ClaimInv, EveryMatchCovered, TimePasses
    PROVE  Advances
<1>1. /\ TypeInv' /\ UNCHANGED <<tables, worker, edits, faults>>
      /\ \A k \in Keys : Keeps(job[k], job'[k])
  BY TimePassesType DEF ClaimInv
<1>2. /\ user' = user /\ offer' = offer /\ worker' = worker
      /\ \A u \in Users : matched[u] \subseteq matched'[u]
  BY <1>1 DEF tables
<1>3. NoNewMatch /\ WorkersStay
  BY <1>2, Unchanged
<1> QED  BY <1>1, <1>2, <1>3, KeepStep

\* A worker selects a key.
LEMMA SelectKeepsCover ==
    ASSUME ClaimInv, EveryMatchCovered, NEW w \in Workers, NEW k \in Keys, Select(w, k)
    PROVE  Advances
<1>1. /\ TypeInv' /\ worker'[w].pc = "selected" /\ worker'[w].hits = worker[w].hits
      /\ \A v \in Workers \ {w} : worker'[v] = worker[v]
  BY SelectType DEF ClaimInv
<1>2. worker[w].hits = {}
  BY DEF Select, ClaimInv, HitsAhead
<1>3. WorkersStay
  BY <1>1, <1>2 DEF WorkersStay
<1>4. /\ user' = user /\ offer' = offer /\ job' = job
      /\ \A u \in Users : matched[u] \subseteq matched'[u]
  BY DEF Select, tables
<1>5. \A l \in Keys : Keeps(job[l], job'[l])
  BY <1>4, RowKeepsPlace DEF ClaimInv, TypeInv, SoundJobs
<1>6. NoNewMatch
  BY <1>4, Unchanged
<1> QED  BY <1>1, <1>3, <1>4, <1>5, <1>6, KeepStep

\* A worker that leaves its job unfinished hands the work back.
LEMMA GiveUpKeepsCover ==
    ASSUME ClaimInv, EveryMatchCovered, NEW w \in Workers,
           SkipJob(w) \/ ExhaustJob(w) \/ FailBatch(w) \/ FailBeforeClaim(w) \/ Crash(w)
    PROVE  Advances
<1>1. /\ TypeInv' /\ \A k \in Keys : Keeps(job[k], job'[k])
      /\ worker'[w] = IdleWorker /\ \A v \in Workers \ {w} : worker'[v] = worker[v]
  BY GiveUpType DEF ClaimInv
<1>2. WorkersStay
  BY <1>1 DEF WorkersStay, IdleWorker
<1>3. /\ user' = user /\ offer' = offer /\ \A u \in Users : matched[u] \subseteq matched'[u]
  BY DEF SkipJob, ExhaustJob, FailBatch, FailBeforeClaim, Crash, tables
<1>4. NoNewMatch
  BY <1>3, Unchanged
<1> QED  BY <1>1, <1>2, <1>3, <1>4, KeepStep

\* A reconciling batch leads to the next one, or to the offers from the first.
LEMMA FinishReconcileKeepsCover ==
    ASSUME ClaimInv, EveryMatchCovered, NEW w \in Workers, FinishReconcile(w)
    PROVE  Advances
<1>1. PICK k \in Keys :
        /\ k = worker[w].key /\ TypeInv'
        /\ job'[k] = FinishRow(job[k], worker[w].token, worker[w].last,
                               OffersPhase(job[k], worker[w].payload))
        /\ \A l \in Keys \ {k} : job'[l] = job[l]
        /\ worker'[w] = IdleWorker /\ \A v \in Workers \ {w} : worker'[v] = worker[v]
  BY FinishReconcileType DEF ClaimInv
<1>2. WorkersStay
  BY <1>1 DEF WorkersStay, IdleWorker
<1>3. /\ user' = user /\ offer' = offer /\ \A u \in Users : matched[u] \subseteq matched'[u]
  BY DEF FinishReconcile
<1>4. NoNewMatch
  BY <1>3, Unchanged
<1>5. /\ SoundRow(job[k]) /\ worker[w].token \in Token /\ worker[w].payload \in Payload
      /\ worker[w].last \in Nat
  BY <1>1, RunningForms DEF FinishReconcile, Running, ClaimInv
<1>6. \A l \in Keys \ {k} : Keeps(job[l], job'[l])
  BY <1>1, RowKeepsPlace DEF ClaimInv, TypeInv, SoundJobs
<1>7. CASE Owns(job[k], worker[w].token)
  <2>1. worker[w].payload = job[k].payload /\ job[k].status = "processing"
    BY <1>1, <1>7 DEF ClaimInv, ClaimHolds, Current, Running, FinishReconcile, Owns
  <2>2. Reconciling(k, job[k].payload)
    BY <1>1, <2>1 DEF FinishReconcile
  <2>3. /\ job'[k].status = "pending"
        /\ worker[w].last # 0 => job'[k].payload = job[k].payload
        /\ worker[w].last = 0 => job'[k].cursor = 0
    BY <1>1, <1>5, <1>7, OffersPhaseRow, FinishRowOfOwner
  <2>4. Restarts(k, job'[k])
    BY <2>2, <2>3 DEF Restarts
  <2>5. ClaimsKept /\ \A l \in Keys : Stands(l)
    BY <1>6, <2>3, <2>4 DEF ClaimsKept, Stands, Keeps
  <2>6. \A l \in Keys : job[l].status = "absent" => job'[l].status = "absent"
    BY <1>6, <2>1 DEF Keeps, KeepsPlace
  <2>7. UpdatesStand
    BY <1>6, <2>2, KeyForms DEF UpdatesStand, Keeps, KeepsPlace, Reconciling
  <2> QED  BY <1>1, <1>2, <1>3, <1>4, <2>5, <2>6, <2>7, QuietStep
<1>8. CASE ~Owns(job[k], worker[w].token)
  <2>1. Keeps(job[k], job'[k])
    BY <1>1, <1>5, <1>8, FinishRowOfOtherKeeps
  <2> QED  BY <1>1, <1>2, <1>3, <1>4, <1>6, <2>1, KeepStep
<1> QED  BY <1>7, <1>8

\* A matching batch records the pairs in hand; the rest of its items stay ahead.
LEMMA FinishMatchKeepsCover ==
    ASSUME ClaimInv, EveryMatchCovered, NEW w \in Workers, FinishMatch(w)
    PROVE  /\ ClaimInv' /\ EveryMatchCovered'
           /\ ~Owns(job[worker[w].key], worker[w].token) => StepStands
<1>1. PICK k \in Keys :
        /\ k = worker[w].key /\ TypeInv'
        /\ job'[k] = FinishRow(job[k], worker[w].token, worker[w].last,
                               Completed(job[k]))
        /\ \A l \in Keys \ {k} : job'[l] = job[l]
        /\ worker'[w] = IdleWorker /\ \A v \in Workers \ {w} : worker'[v] = worker[v]
  BY FinishMatchType DEF ClaimInv
<1>2. WorkersStay
  BY <1>1 DEF WorkersStay, IdleWorker
<1>3. /\ user' = user /\ offer' = offer
      /\ \A u \in Users : /\ matched[u] \subseteq matched'[u]
                          /\ \A o \in Offers : <<u, o>> \in worker[w].hits => o \in matched'[u]
  BY DEF FinishMatch
<1>4. NoNewMatch
  BY <1>3, Unchanged
<1>5. /\ SoundRow(job[k]) /\ worker[w].token \in Token /\ worker[w].payload \in Payload
      /\ worker[w].last \in Nat /\ Evaluated(w) /\ Running(w)
  BY <1>1, RunningForms DEF FinishMatch, Running, ClaimInv, Evaluated
<1>6. \A l \in Keys \ {k} : Keeps(job[l], job'[l])
  BY <1>1, RowKeepsPlace DEF ClaimInv, TypeInv, SoundJobs
<1>7. CASE ~Owns(job[k], worker[w].token)
  <2>1. Keeps(job[k], job'[k])
    BY <1>1, <1>5, <1>7, FinishRowOfOtherKeeps
  <2> QED  BY <1>1, <1>2, <1>3, <1>4, <1>6, <2>1, KeepStep DEF Advances
<1>8. CASE Owns(job[k], worker[w].token)
  <2>1. Current(w) /\ job[k].status = "processing"
    BY <1>1, <1>5, <1>8 DEF Current, Owns
  <2>2. /\ worker[w].last # 0 => job'[k].status = "pending" /\ job'[k].cursor = worker[w].last
        /\ worker[w].last = 0 => job'[k].status = "done"
    BY <1>1, <1>5, <1>8, CompletedRow, FinishRowOfOwner
  <2>3. ClaimsKept
    BY <1>6, <2>2 DEF ClaimsKept
  <2>4. NoNewReader /\ ClaimHolds' /\ HitsAhead'
    BY <1>1, <1>2, <2>3, ClaimsStay DEF ClaimInv
  <2>5. AbsentOfferIdle'
    BY <1>3, <1>6, <2>1, KeyForms DEF ClaimInv, AbsentOfferIdle, Keeps, KeepsPlace
  <2>6. \A l \in Keys \ {k} : Stands(l)
    BY <1>6 DEF Stands, Keeps
  <2>7. ASSUME NEW u \in Users, NEW o \in Offers, Covered(u, o) PROVE Covered(u, o)'
    <3>1. CASE o \in matched[u]
      BY <1>3, <3>1 DEF Covered
    <3>2. CASE InHand(u, o)
      <4>1. PICK v \in Workers : Current(v) /\ Evaluated(v) /\ <<u, o>> \in worker[v].hits
        BY <3>2 DEF InHand
      <4>2. CASE v = w
        BY <1>3, <4>1, <4>2 DEF Covered
      <4>3. CASE v # w
        <5>1. worker[v].key \in Keys \ {k} /\ worker'[v] = worker[v]
          BY <1>1, <2>1, <4>1, <4>3, OneCurrent, RunningForms DEF Current, ClaimInv
        <5>2. Current(v)' /\ Evaluated(v)' /\ <<u, o>> \in worker'[v].hits
          BY <1>1, <4>1, <5>1 DEF Current, Running, Evaluated, Reconciling
        <5> QED  BY <5>2 DEF Covered, InHand
      <4> QED  BY <4>2, <4>3
    <3>3. ASSUME NEW l \in Keys, NEW i \in Nat \ {0}, Ahead(l, i) PROVE Ahead(l, i)'
      <4>1. CASE l # k
        BY <2>4, <2>6, <3>3, <4>1, AheadStays DEF ClaimInv
      <4>2. CASE l = k
        <5>1. worker[w].last # 0 /\ worker[w].last < i
          BY <1>1, <1>5, <2>1, <3>3, <4>2 DEF Ahead, PassedBy
        <5>2. job'[k].status = "pending" /\ job'[k].cursor < i
          BY <2>2, <5>1
        <5>3. ~PassedBy(k, i)'
          BY <5>2 DEF PassedBy, Current, Owns
        <5> QED  BY <4>2, <5>2, <5>3 DEF Ahead
      <4> QED  BY <4>1, <4>2
    <3>4. CASE Ahead(OfferKey(o), u)
      BY <3>3, <3>4, KeyForms, IdsPositive DEF Covered
    <3>5. CASE Ahead(UserKey(u), o)
      BY <3>3, <3>5, KeyForms, IdsPositive DEF Covered
    <3> QED  BY <2>7, <3>1, <3>2, <3>4, <3>5 DEF Covered
  <2>8. EveryMatchCovered'
    BY <1>4, <2>7 DEF NoNewMatch, EveryMatchCovered, Covered
  <2> QED  BY <1>1, <1>8, <2>4, <2>5, <2>8 DEF ClaimInv
<1> QED  BY <1>7, <1>8

\* A claim takes a job over: what its former worker had in hand is ahead again.
LEMMA ClaimKeepsCover ==
    ASSUME ClaimInv, EveryMatchCovered, NEW w \in Workers, Claim(w)
    PROVE  Advances
<1>1. PICK k \in Keys :
        /\ k = worker[w].key /\ TypeInv'
        /\ worker'[w].pc = "claimed" /\ worker'[w].key = k
        /\ worker'[w].token = FreshToken /\ worker'[w].hits = {}
        /\ worker'[w].cursor = job[k].cursor /\ worker'[w].payload = job[k].payload
        /\ job'[k] = ClaimRow(job[k], FreshToken)
        /\ \A v \in Workers \ {w} : worker'[v] = worker[v]
        /\ \A l \in Keys \ {k} : job'[l] = job[l]
  BY ClaimType DEF ClaimInv
<1>2. /\ FreshToken \in Token
      /\ \A v \in Workers : worker[v].token # FreshToken
  BY FreshTokenUnused DEF Claim
<1>3. /\ \A l \in Keys : SoundRow(job[l])
      /\ Open(job[k]) /\ HasAttempts(job[k])
  BY <1>1 DEF Claim, Claimable, ClaimInv, TypeInv, SoundJobs
<1>4. /\ SoundRow(job'[k]) /\ job'[k].status = "processing" /\ job'[k].token = FreshToken
      /\ job'[k].cursor = job[k].cursor /\ job'[k].payload = job[k].payload
  BY <1>1, <1>2, <1>3, ClaimRowSound
<1>5. \A l \in Keys : Stands(l)
  BY <1>1, <1>3, <1>4, RowKeepsPlace DEF Stands, Keeps, KeepsPlace, Live, Open
<1>6. ASSUME NEW v \in Workers \ {w}, Current(v)'
      PROVE  Current(v) /\ worker'[v] = worker[v] /\ worker[v].key \in Keys \ {k}
  <2>1. worker'[v] = worker[v] /\ Running(v)
    BY <1>1, <1>6 DEF Current, Running
  <2>2. worker[v].key \in Keys
    BY <2>1, RunningForms DEF ClaimInv
  <2>3. worker[v].key # k
    BY <1>2, <1>4, <1>6, <2>1 DEF Current, Owns
  <2> QED  BY <1>1, <1>6, <2>1, <2>2, <2>3 DEF Current
<1>7. NoNewReader
  BY <1>1, <1>6 DEF NoNewReader, Evaluated
<1>8. ClaimHolds'
  BY <1>1, <1>4, <1>6 DEF ClaimInv, ClaimHolds
<1>9. HitsAhead'
  BY <1>1 DEF ClaimInv, HitsAhead
<1>10. user' = user /\ offer' = offer /\ \A u \in Users : matched[u] \subseteq matched'[u]
  BY DEF Claim, tables
<1>11. AbsentOfferIdle'
  BY <1>1, <1>3, <1>10, KeyForms DEF ClaimInv, AbsentOfferIdle, Open
<1>12. EveryMatchCovered'
  BY <1>5, <1>7, <1>10, Unchanged, StepKeepsCover DEF NoNewMatch
<1>13. UpdatesStand
  BY <1>1, <1>4, KeyForms DEF UpdatesStand
<1> QED  BY <1>1, <1>5, <1>7, <1>8, <1>9, <1>11, <1>12, <1>13 DEF ClaimInv, Advances, StepStands

\* A relevant pair is among the items of both its jobs, and passes the batch's test.
LEMMA RelevantIsItem ==
    ASSUME NEW u \in Users, NEW o \in Offers, Relevant(u, o), NEW k \in {OfferKey(o), UserKey(u)},
           NEW p, ~Reconciling(k, p)
    PROVE  /\ Item(k, u, o) \in Items(k, p) /\ Pair(k, Item(k, u, o)) = <<u, o>>
           /\ \A batch : Item(k, u, o) \in batch => <<u, o>> \in Hits(k, p, batch)
<1>1. Pair(k, Item(k, u, o)) = <<u, o>>
  BY KeyForms DEF Pair, Item
<1>2. Item(k, u, o) \in Items(k, p)
  BY KeyForms DEF Item, Items, Relevant, Matches
<1>3. ASSUME NEW batch, Item(k, u, o) \in batch PROVE <<u, o>> \in Hits(k, p, batch)
  BY <1>1, <1>3 DEF Hits
<1> QED  BY <1>1, <1>2, <1>3

\* A worker reads a batch: the relevant pairs up to its end are in hand, the others
\* still ahead; an empty batch means there are none.
LEMMA EvaluateKeepsCover ==
    ASSUME ClaimInv, EveryMatchCovered, NEW w \in Workers, Evaluate(w)
    PROVE  ClaimInv' /\ EveryMatchCovered'
<1>1. PICK k \in Keys, p \in {worker[w].payload}, n \in {worker'[w]},
           S \in {After(Items(worker[w].key, worker[w].payload), worker[w].cursor)} :
        /\ k = worker[w].key /\ p = worker[w].payload /\ n = worker'[w]
        /\ S = After(Items(k, p), worker[w].cursor)
        /\ TypeInv' /\ worker[w].pc = "claimed"
        /\ n.pc = "evaluated" /\ n.key = k /\ n.token = worker[w].token
        /\ n.payload = p /\ n.cursor = worker[w].cursor
        /\ n.last \in S \cup {0} /\ (n.last = 0 => S = {})
        /\ n.hits = Hits(k, p, {i \in S : i <= n.last})
        /\ \A v \in Workers \ {w} : worker'[v] = worker[v]
  BY EvaluateType DEF ClaimInv
<1>2. /\ user' = user /\ offer' = offer /\ matched' = matched /\ job' = job
  BY DEF Evaluate, tables
<1>3. /\ \A v \in Workers : Current(v)' = Current(v)
      /\ \A v \in Workers \ {w} : Evaluated(v)' = Evaluated(v)
  BY <1>1, <1>2 DEF Current, Running, Evaluated, Reconciling
<1>4. ClaimHolds'
  BY <1>1, <1>2, <1>3 DEF ClaimInv, ClaimHolds
<1>5. \A i \in S : i \in Nat /\ i > 0 /\ i > worker[w].cursor /\ i \in Items(k, p)
  BY <1>1, ItemForms DEF After
<1>6. HitsAhead'
  <2>1. ASSUME NEW u \in Users, NEW o \in Offers, <<u, o>> \in n.hits
        PROVE  n.key \in {OfferKey(o), UserKey(u)} /\ n.cursor < Item(n.key, u, o)
    <3>1. PICK i \in S : <<u, o>> = Pair(k, i)
      BY <1>1, <2>1 DEF Hits
    <3>2. CASE k[1] = "offer"
      <4>1. PICK x \in Offers : k = OfferKey(x)
        BY <3>2, KeyForms
      <4>2. u = i /\ o = x
        BY <3>1, <4>1, KeyForms DEF Pair
      <4> QED  BY <1>1, <1>5, <3>2, <4>1, <4>2 DEF Item
    <3>3. CASE k[1] # "offer"
      <4>1. PICK x \in Users : k = UserKey(x)
        BY <3>3, KeyForms
      <4>2. u = x /\ o = i
        BY <3>1, <3>3, <4>1, KeyForms DEF Pair
      <4> QED  BY <1>1, <1>5, <3>3, <4>1, <4>2 DEF Item
    <3> QED  BY <3>2, <3>3
  <2> QED  BY <1>1, <2>1 DEF ClaimInv, HitsAhead
<1>7. AbsentOfferIdle'
  BY <1>2 DEF ClaimInv, AbsentOfferIdle
<1>8. ASSUME NEW u \in Users, NEW o \in Offers, Relevant(u, o), NEW l \in {OfferKey(o), UserKey(u)},
             Ahead(l, Item(l, u, o))
      PROVE  Covered(u, o)'
  <2> DEFINE i == Item(l, u, o)
  <2>1. l \in Keys /\ i \in Nat \ {0}
    BY KeyForms, IdsPositive DEF Item
  <2>2. Ahead(l, i)' => Covered(u, o)'
    BY KeyForms DEF Covered, Item
  <2>3. ASSUME ~PassedBy(l, i)' PROVE Ahead(l, i)'
    BY <1>2, <1>8, <2>3 DEF Ahead, Reconciling
  <2>4. ASSUME NEW v \in Workers, v # w, Current(v)', Evaluated(v)', worker'[v].key = l,
               worker'[v].last = 0 \/ i <= worker'[v].last
        PROVE  FALSE
    BY <1>1, <1>3, <1>8, <2>4 DEF Ahead, PassedBy
  <2>5. CASE Current(w) /\ Evaluated(w)' /\ k = l /\ (n.last = 0 \/ i <= n.last)
    <3>1. p = job[k].payload /\ worker[w].cursor = job[k].cursor
      BY <1>1, <2>5 DEF ClaimInv, ClaimHolds
    <3>2. ~Reconciling(k, p)
      BY <1>1, <2>5 DEF Evaluated, Reconciling
    <3>3. worker[w].cursor < i
      BY <1>8, <2>5, <3>1, <3>2 DEF Ahead
    <3>4. i \in Items(k, p) /\ \A batch : i \in batch => <<u, o>> \in Hits(k, p, batch)
      BY <1>8, <2>5, <3>2, RelevantIsItem
    <3>5. i \in S
      BY <1>1, <3>3, <3>4 DEF After
    <3>6. i <= n.last
      BY <1>1, <2>5, <3>5
    <3>7. <<u, o>> \in worker'[w].hits
      BY <1>1, <3>4, <3>5, <3>6
    <3> QED  BY <1>3, <2>5, <3>7 DEF Covered, InHand
  <2>6. CASE ~(Current(w) /\ Evaluated(w)' /\ k = l /\ (n.last = 0 \/ i <= n.last))
    <3>1. ~PassedBy(l, i)'
      BY <1>1, <1>3, <2>4, <2>6 DEF PassedBy
    <3> QED  BY <2>2, <2>3, <3>1
  <2> QED  BY <2>5, <2>6
<1>9. EveryMatchCovered'
  <2> SUFFICES ASSUME NEW u \in Users, NEW o \in Offers, Relevant(u, o)'
               PROVE  Covered(u, o)'
    BY DEF EveryMatchCovered, Covered
  <2>1. Relevant(u, o)
    BY <1>2 DEF Relevant, Matches
  <2>2. CASE o \in matched[u]
    BY <1>2, <2>2 DEF Covered
  <2>3. CASE InHand(u, o)
    <3>1. PICK v \in Workers : Current(v) /\ Evaluated(v) /\ <<u, o>> \in worker[v].hits
      BY <2>3 DEF InHand
    <3>2. v # w
      BY <1>1, <3>1 DEF Evaluated
    <3> QED  BY <1>1, <1>3, <3>1, <3>2 DEF Covered, InHand
  <2>4. CASE Ahead(OfferKey(o), u)
    BY <1>8, <2>1, <2>4, KeyForms DEF Item
  <2>5. CASE Ahead(UserKey(u), o)
    BY <1>8, <2>1, <2>5, KeyForms DEF Item
  <2> QED  BY <2>1, <2>2, <2>3, <2>4, <2>5 DEF EveryMatchCovered
<1> QED  BY <1>1, <1>4, <1>6, <1>7, <1>9 DEF ClaimInv

\* At the start no offer is relevant to anybody, or none is known.
LEMMA InitCovers == Init => ClaimInv /\ EveryMatchCovered
<1> SUFFICES ASSUME Init PROVE ClaimInv /\ EveryMatchCovered
  OBVIOUS
<1>1. TypeInv
  BY InitType
<1>2. \A w \in Workers : ~Running(w) /\ worker[w].hits = {}
  BY DEF Init, IdleWorker, Running
<1>3. ClaimHolds /\ HitsAhead
  BY <1>2 DEF ClaimHolds, HitsAhead, Current
<1>4. AbsentOfferIdle
  BY KeyForms DEF Init, AbsentOfferIdle, AbsentJob
<1>5. EveryMatchCovered
  BY DEF Init, EveryMatchCovered, Relevant, Matches
<1> QED  BY <1>1, <1>3, <1>4, <1>5 DEF ClaimInv

\* Every step keeps the invariant.
LEMMA NextCovers == ClaimInv /\ EveryMatchCovered /\ [Next]_vars => (ClaimInv /\ EveryMatchCovered)'
<1> SUFFICES ASSUME ClaimInv, EveryMatchCovered, [Next]_vars
             PROVE  ClaimInv' /\ EveryMatchCovered'
  OBVIOUS
<1>1. CASE Produce
  BY <1>1, ProduceKeepsCover DEF Advances
<1>2. CASE Downstream
  BY <1>2, DownstreamKeepsCover DEF Advances
<1>3. ASSUME NEW w \in Workers, WorkerStep(w) PROVE ClaimInv' /\ EveryMatchCovered'
  BY <1>3, SelectKeepsCover, ClaimKeepsCover, EvaluateKeepsCover, FinishReconcileKeepsCover,
     FinishMatchKeepsCover, GiveUpKeepsCover
     DEF WorkerStep, Advances
<1>4. CASE Trouble
  BY <1>4, GiveUpKeepsCover DEF Trouble, Advances
<1>5. CASE TimePasses
  BY <1>5, TimeKeepsCover DEF Advances
<1>6. CASE UNCHANGED vars
  <2>1. TypeInv'
    BY <1>6, NextType DEF ClaimInv
  <2>2. /\ user' = user /\ offer' = offer /\ worker' = worker /\ matched' = matched
        /\ job' = job
    BY <1>6 DEF vars
  <2> QED  BY <2>1, <2>2, Unchanged, TablesStep DEF Advances
<1> QED  BY <1>1, <1>2, <1>3, <1>4, <1>5, <1>6 DEF Next

----------------------------------------------------------------------------
(* Matches are recorded for active accounts only. *)

\* A worker holds the rows of the users it found active until it commits.
HeldActive ==
    \A w \in Workers, u \in Users, o \in Offers :
      <<u, o>> \in worker[w].hits /\ Evaluated(w) =>
        u \in worker[w].held /\ user[u].active /\ user[u].status = "active"

\* A step that changes no user a worker holds, and no worker but by leaving.
LEMMA HeldStays ==
    ASSUME HeldActive, WorkersStay,
           \A u \in Users : user'[u] = user[u] \/ ~Locked(u)
    PROVE  HeldActive'
<1> SUFFICES ASSUME NEW w \in Workers, NEW u \in Users, NEW o \in Offers,
                    <<u, o>> \in worker'[w].hits, Evaluated(w)'
             PROVE  u \in worker'[w].held /\ user'[u].active /\ user'[u].status = "active"
  BY DEF HeldActive
<1>1. worker'[w] = worker[w]
  BY DEF WorkersStay
<1>2. u \in worker[w].held /\ user[u].active /\ user[u].status = "active"
  BY <1>1 DEF HeldActive, Evaluated, Reconciling
<1>3. user'[u] = user[u]
  BY <1>2 DEF Locked
<1> QED  BY <1>1, <1>2, <1>3

\* The transactions that change a user wait for the workers that hold it.
LEMMA NextHeld == TypeInv /\ HitsAhead /\ HeldActive /\ [Next]_vars => HeldActive'
<1> SUFFICES ASSUME TypeInv, HitsAhead, HeldActive, [Next]_vars PROVE HeldActive'
  OBVIOUS
<1>1. CASE Produce
  <2>1. worker' = worker
    BY <1>1 DEF Produce, CollectNew, CollectChange, Activate, Deactivate, Reactivate,
                NotionReady, NotionDisconnect, AdminRetry, PurgeJob, tables
  <2>2. \A u \in Users : user'[u] = user[u] \/ ~Locked(u)
    BY <1>1 DEF Produce, CollectNew, CollectChange, Activate, Deactivate, Reactivate,
                NotionReady, NotionDisconnect, AdminRetry, PurgeJob, tables,
                ActivatePreference, TypeInv, TypeOK
  <2> QED  BY <2>1, <2>2, Unchanged, HeldStays
<1>2. CASE Downstream \/ TimePasses \/ UNCHANGED vars
  <2>1. worker' = worker /\ user' = user
    BY <1>2 DEF Downstream, Mail, SyncPage, TimePasses, LeaseExpires, RetryDue, tables, vars
  <2> QED  BY <2>1, Unchanged, HeldStays
<1>3. ASSUME NEW w \in Workers, NEW k \in Keys, Select(w, k) PROVE HeldActive'
  <2>1. WorkersStay
    BY <1>3, SelectType DEF Select, HitsAhead, WorkersStay
  <2>2. user' = user
    BY <1>3 DEF Select, tables
  <2> QED  BY <2>1, <2>2, HeldStays
<1>4. ASSUME NEW w \in Workers,
             \/ SkipJob(w) \/ ExhaustJob(w) \/ FailBatch(w) \/ FailBeforeClaim(w) \/ Crash(w)
             \/ FinishReconcile(w) \/ FinishMatch(w)
      PROVE  HeldActive'
  <2>1. worker'[w] = IdleWorker /\ \A v \in Workers \ {w} : worker'[v] = worker[v]
    BY <1>4, GiveUpType, FinishReconcileType, FinishMatchType
  <2>2. WorkersStay
    BY <2>1 DEF WorkersStay, IdleWorker
  <2>3. user' = user
    BY <1>4 DEF SkipJob, ExhaustJob, FailBatch, FailBeforeClaim, Crash, FinishReconcile,
                FinishMatch, tables
  <2> QED  BY <2>2, <2>3, HeldStays
<1>5. ASSUME NEW w \in Workers, Claim(w) PROVE HeldActive'
  <2>1. /\ worker'[w].hits = {} /\ \A v \in Workers \ {w} : worker'[v] = worker[v]
    BY <1>5, ClaimType
  <2>2. user' = user
    BY <1>5 DEF Claim, tables
  <2> QED  BY <2>1, <2>2 DEF HeldActive, Evaluated, Reconciling
<1>6. ASSUME NEW w \in Workers, Evaluate(w) PROVE HeldActive'
  <2>1. user' = user
    BY <1>6 DEF Evaluate, tables
  <2>2. PICK k \in Keys, p \in {worker[w].payload},
             batch \in SUBSET Items(worker[w].key, worker[w].payload) :
          /\ k = worker[w].key /\ batch \subseteq Items(k, p)
          /\ worker'[w].held = ToLock(k, p, batch) /\ worker'[w].hits = Hits(k, p, batch)
          /\ worker'[w].key = k /\ worker'[w].payload = p
          /\ \A v \in Workers \ {w} : worker'[v] = worker[v]
    <3> DEFINE S == After(Items(worker[w].key, worker[w].payload), worker[w].cursor)
    <3>1. PICK last \in S \cup {0} :
             worker' = [worker EXCEPT ![w] =
               [@ EXCEPT !.pc = "evaluated", !.last = last,
                         !.held = ToLock(worker[w].key, worker[w].payload, {i \in S : i <= last}),
                         !.hits = Hits(worker[w].key, worker[w].payload, {i \in S : i <= last})]]
      BY <1>6, Zenon DEF Evaluate
    <3> DEFINE b == {i \in S : i <= last}
               l == ToLock(worker[w].key, worker[w].payload, b)
               h == Hits(worker[w].key, worker[w].payload, b)
               n == [worker[w] EXCEPT !.pc = "evaluated", !.last = last, !.held = l, !.hits = h]
    <3>2. b \subseteq Items(worker[w].key, worker[w].payload)
      BY DEF After
    <3>3. worker' = [worker EXCEPT ![w] = n]
      BY <3>1
    <3> HIDE DEF b, l, h
    <3>4. /\ n.held = l /\ n.hits = h /\ n.key = worker[w].key
          /\ n.payload = worker[w].payload
      BY DEF TypeInv, TypeOK, WorkerRow
    <3> HIDE DEF n
    <3>5. worker'[w] = n /\ \A v \in Workers \ {w} : worker'[v] = worker[v]
      BY <3>3 DEF TypeInv, TypeOK
    <3>6. worker[w].key \in Keys
      BY <1>6 DEF Evaluate, TypeInv, SelectedKeys
    <3> QED  BY <3>2, <3>4, <3>5, <3>6 DEF l, h
  <2>3. ASSUME NEW u \in Users, NEW o \in Offers, <<u, o>> \in Hits(k, p, batch),
               ~Reconciling(k, p)
        PROVE  u \in ToLock(k, p, batch) /\ user[u].active /\ user[u].status = "active"
    <3>1. PICK i \in batch : <<u, o>> = Pair(k, i) /\ Relevant(u, o)
      BY <2>3 DEF Hits
    <3>2. u \in ToLock(k, p, batch)
      <4>1. CASE k[1] = "offer"
        BY <3>1, <4>1 DEF Pair, ToLock
      <4>2. CASE k[1] # "offer"
        BY <2>3, <3>1, <4>2 DEF Pair, ToLock
      <4> QED  BY <4>1, <4>2
    <3> QED  BY <3>1, <3>2 DEF Relevant
  <2> QED  BY <2>1, <2>2, <2>3 DEF HeldActive, Evaluated, Reconciling
<1> QED  BY <1>1, <1>2, <1>3, <1>4, <1>5, <1>6 DEF Next, WorkerStep, Trouble

----------------------------------------------------------------------------

\* At every moment, each offer that fits an activated preference is recorded as a
\* match, held by the worker that runs a current generation, or still ahead of the
\* offer's or the user's job.
THEOREM MatchesCovered == Spec => []EveryMatchCovered
<1>1. Spec => [](ClaimInv /\ EveryMatchCovered)
  BY InitCovers, NextCovers, PTL DEF Spec
<1> QED  BY <1>1, PTL

\* The matching queue loses no match: for any number of users, offers, workers,
\* retries and batch sizes, whatever generations are replaced and workers crash.
THEOREM NoMatchLost == Spec => []NoMissedMatch
<1>1. Spec => [](ClaimInv /\ EveryMatchCovered)
  BY InitCovers, NextCovers, PTL DEF Spec
<1>2. ClaimInv /\ EveryMatchCovered => NoMissedMatch
  <2> SUFFICES ASSUME ClaimInv, EveryMatchCovered, NEW u \in Users, NEW o \in Offers,
                      Relevant(u, o), Settled(OfferKey(o)), Settled(UserKey(u))
               PROVE  o \in matched[u]
    BY DEF NoMissedMatch
  <2>1. ~Ahead(OfferKey(o), u) /\ ~Ahead(UserKey(u), o)
    BY DEF Settled, Ahead
  <2>2. ~InHand(u, o)
    <3> SUFFICES ASSUME NEW w \in Workers, Current(w), <<u, o>> \in worker[w].hits
                 PROVE  FALSE
      BY DEF InHand
    <3>1. worker[w].key \in {OfferKey(o), UserKey(u)}
      BY DEF ClaimInv, HitsAhead
    <3> QED  BY <3>1 DEF Current, Owns, Settled
  <2> QED  BY <2>1, <2>2 DEF EveryMatchCovered
<1> QED  BY <1>1, <1>2, PTL

\* A match is recorded only for an account that is active under an activated
\* preference at that commit: the locks of the batch outlast its reads.
THEOREM MatchesWhileActive == Spec => MatchedWhileActive
<1>1. Init => HeldActive
  BY DEF Init, HeldActive, IdleWorker
<1>2. ClaimInv /\ EveryMatchCovered /\ HeldActive /\ [Next]_vars
        => (ClaimInv /\ EveryMatchCovered /\ HeldActive)'
  BY NextCovers, NextHeld DEF ClaimInv
<1>3. HeldActive /\ TypeInv /\ [Next]_vars =>
        [\A u \in Users : matched'[u] # matched[u] => user[u].active /\ user[u].status = "active"]_vars
  <2> SUFFICES ASSUME HeldActive, TypeInv, Next, NEW u \in Users, matched'[u] # matched[u]
               PROVE  user[u].active /\ user[u].status = "active"
    BY DEF vars
  <2>1. PICK w \in Workers : FinishMatch(w)
    BY DEF Next, Produce, CollectNew, CollectChange, Activate, Deactivate, Reactivate, NotionReady,
           NotionDisconnect, AdminRetry, PurgeJob, Downstream, Mail, SyncPage, WorkerStep, Select,
           SkipJob, ExhaustJob, Claim, Evaluate, FinishReconcile, Trouble, FailBatch,
           FailBeforeClaim, Crash, TimePasses, LeaseExpires, RetryDue, tables
  <2>2. matched'[u] = matched[u] \cup {o \in Offers : <<u, o>> \in worker[w].hits}
    BY <2>1 DEF FinishMatch
  <2>3. PICK o \in Offers : <<u, o>> \in worker[w].hits
    BY <2>2
  <2>4. Evaluated(w)
    BY <2>1 DEF FinishMatch, Evaluated
  <2> QED  BY <2>3, <2>4 DEF HeldActive
<1>4. ClaimInv => TypeInv
  BY DEF ClaimInv
<1> QED  BY InitCovers, <1>1, <1>2, <1>3, <1>4, PTL DEF Spec, MatchedWhileActive

----------------------------------------------------------------------------
(* Changes reach the pages. *)

\* While an offer has a page, it fits and the account stays enabled; it may close.  A
\* change that is matched at another moment passes over the page.
PagesFit ==
    \A u \in Users, o \in Offers : sync[u][o] # "none" =>
      user[u].active /\ user[u].status = "active" /\ offer[o].kind \in user[u].scope

\* Pages are of a destination and of offers that exist, as are the pairs in hand.
PagesKnown ==
    /\ \A u \in Users, o \in Offers : sync[u][o] # "none" => dest[u] /\ offer[o].state # "absent"
    /\ \A w \in Workers, u \in Users, o \in Offers :
         <<u, o>> \in worker[w].hits => offer[o].state # "absent"

\* A page that lacks a change which its reader can see.
Outdated(u, o) == Relevant(u, o) /\ dest[u] /\ sync[u][o] = "stale"

\* The offer's job brings the change, with a worker or without.
UpdateInHand(u, o) ==
    \E w \in Workers : /\ Current(w) /\ Evaluated(w) /\ <<u, o>> \in worker[w].hits
                       /\ worker[w].key = OfferKey(o) /\ worker[w].payload.updated

UpdateAhead(u, o) == Ahead(OfferKey(o), u) /\ job[OfferKey(o)].payload.updated

UpdatesCovered ==
    \A u \in Users, o \in Offers : Outdated(u, o) => UpdateInHand(u, o) \/ UpdateAhead(u, o)

\* What a step does to the users, offers and pages: the producers, the page that is
\* written and the commit of matches; any other step leaves them alone.
LEMMA PageSteps ==
    ASSUME [Next]_vars
    PROVE  \/ UNCHANGED <<user, offer, dest, sync>>
           \/ \E o \in Offers, kind \in Kinds : CollectNew(o, kind)
           \/ \E o \in Offers, kind \in Kinds, state \in {"open", "closed"} : CollectChange(o, state, kind)
           \/ \E u \in Users, scope \in SUBSET Kinds \ {{}} : Activate(u, scope)
           \/ \E u \in Users : Deactivate(u) \/ Reactivate(u) \/ NotionReady(u) \/ NotionDisconnect(u)
           \/ \E u \in Users, o \in Offers : SyncPage(u, o)
           \/ \E w \in Workers : FinishMatch(w)
<1>1. CASE \/ \E k \in Keys : AdminRetry(k) \/ PurgeJob(k) \/ LeaseExpires(k) \/ RetryDue(k)
           \/ \E u \in Users, o \in Offers : Mail(u, o)
           \/ UNCHANGED vars
  BY <1>1 DEF AdminRetry, PurgeJob, LeaseExpires, RetryDue, Mail, tables, vars
<1>2. ASSUME NEW w \in Workers,
             \/ \E k \in Keys : Select(w, k)
             \/ SkipJob(w) \/ ExhaustJob(w) \/ Claim(w) \/ Evaluate(w) \/ FinishReconcile(w)
             \/ FailBatch(w) \/ FailBeforeClaim(w) \/ Crash(w)
      PROVE  UNCHANGED <<user, offer, dest, sync>>
  BY <1>2 DEF Select, SkipJob, ExhaustJob, Claim, Evaluate, FinishReconcile, FailBatch,
              FailBeforeClaim, Crash, tables
<1> QED  BY <1>1, <1>2 DEF Next, Produce, Downstream, WorkerStep, Trouble, TimePasses

\* The workers: a batch is read, or pairs leave with the worker that had them.
LEMMA HandSteps ==
    ASSUME TypeInv, HitsAhead, [Next]_vars, NEW w \in Workers
    PROVE  worker'[w].hits \in {worker[w].hits, {}} \/ Evaluate(w)
<1>1. CASE worker' = worker
  BY <1>1
<1>2. ASSUME NEW v \in Workers,
             \/ SkipJob(v) \/ ExhaustJob(v) \/ FailBatch(v) \/ FailBeforeClaim(v) \/ Crash(v)
             \/ FinishReconcile(v) \/ FinishMatch(v)
      PROVE  worker'[w].hits \in {worker[w].hits, {}}
  <2>1. worker'[v] = IdleWorker /\ \A x \in Workers \ {v} : worker'[x] = worker[x]
    BY <1>2, GiveUpType, FinishReconcileType, FinishMatchType
  <2> QED  BY <2>1 DEF IdleWorker
<1>3. ASSUME NEW v \in Workers, NEW k \in Keys, Select(v, k)
      PROVE  worker'[w].hits \in {worker[w].hits, {}}
  BY <1>3, SelectType
<1>4. ASSUME NEW v \in Workers, Claim(v) PROVE worker'[w].hits \in {worker[w].hits, {}}
  BY <1>4, ClaimType
<1>5. ASSUME NEW v \in Workers, Evaluate(v)
      PROVE  worker'[w].hits \in {worker[w].hits, {}} \/ Evaluate(w)
  <2>1. CASE v = w
    BY <1>5, <2>1
  <2>2. CASE v # w
    BY <1>5, <2>2, EvaluateType
  <2> QED  BY <2>1, <2>2
<1>6. CASE Produce \/ Downstream \/ TimePasses \/ UNCHANGED vars
  <2>1. worker' = worker
    BY <1>6 DEF Produce, CollectNew, CollectChange, Activate, Deactivate, Reactivate,
                NotionReady, NotionDisconnect, AdminRetry, PurgeJob, tables,
                Downstream, Mail, SyncPage, TimePasses, LeaseExpires, RetryDue, vars
  <2> QED  BY <1>1, <2>1
<1> QED  BY <1>2, <1>3, <1>4, <1>5, <1>6 DEF Next, WorkerStep, Trouble

\* A batch finds offers that are open.
LEMMA HitsAreOpen ==
    ASSUME TypeInv, NEW w \in Workers, Evaluate(w),
           NEW u \in Users, NEW o \in Offers, <<u, o>> \in worker'[w].hits
    PROVE  offer[o].state = "open"
<1> DEFINE k == worker[w].key
           p == worker[w].payload
           S == After(Items(k, p), worker[w].cursor)
           batch == {i \in S : i <= worker'[w].last}
<1>2. worker'[w].hits = Hits(k, p, batch)
  BY EvaluateType
<1> HIDE DEF k, p, batch
<1>3. PICK i \in batch : <<u, o>> = Pair(k, i) /\ (Matches(Pair(k, i)[1], Pair(k, i)[2])
                                                  \/ Relevant(Pair(k, i)[1], Pair(k, i)[2]))
  BY <1>2 DEF Hits
<1> QED  BY <1>3 DEF Relevant, Matches

\* Pages are written for the pairs in hand, and go with their destination.
LEMMA NextKnown ==
    ASSUME TypeInv, HitsAhead, PagesKnown, [Next]_vars
    PROVE  PagesKnown'
<1>1. \A o \in Offers : offer[o].state # "absent" => offer'[o].state # "absent"
  <2>1. ASSUME NEW o \in Offers, NEW kind \in Kinds, NEW state \in {"open", "closed"},
               offer' = [offer EXCEPT ![o] = [state |-> state, kind |-> kind]]
        PROVE  \A i \in Offers : offer[i].state # "absent" => offer'[i].state # "absent"
    BY <2>1 DEF TypeInv, TypeOK
  <2>2. \/ offer' = offer
        \/ \E o \in Offers, kind \in Kinds, state \in {"open", "closed"} :
             offer' = [offer EXCEPT ![o] = [state |-> state, kind |-> kind]]
    BY PageSteps DEF CollectNew, CollectChange, Activate, Deactivate, Reactivate, NotionReady,
                     NotionDisconnect, SyncPage, FinishMatch
  <2> QED  BY <2>1, <2>2
<1>2. ASSUME NEW w \in Workers, NEW u \in Users, NEW o \in Offers, <<u, o>> \in worker'[w].hits
      PROVE  offer'[o].state # "absent"
  <2>1. CASE worker'[w].hits \in {worker[w].hits, {}}
    BY <1>1, <1>2, <2>1 DEF PagesKnown
  <2>2. CASE Evaluate(w)
    BY <1>1, <1>2, <2>2, HitsAreOpen
  <2> QED  BY <2>1, <2>2, HandSteps
<1>3. ASSUME NEW u \in Users, NEW o \in Offers, sync'[u][o] # "none"
      PROVE  dest'[u] /\ (sync[u][o] # "none" \/ offer[o].state # "absent")
  <2> USE DEF TypeInv, TypeOK
  <2>1. CASE UNCHANGED <<user, offer, dest, sync>>
    BY <1>3, <2>1 DEF PagesKnown
  <2>2. ASSUME NEW x \in Offers, NEW kind \in Kinds, CollectNew(x, kind)
        PROVE  dest'[u] /\ (sync[u][o] # "none" \/ offer[o].state # "absent")
    BY <1>3, <2>2 DEF PagesKnown, CollectNew
  <2>3. ASSUME NEW x \in Offers, NEW kind \in Kinds, NEW state \in {"open", "closed"},
               CollectChange(x, state, kind)
        PROVE  dest'[u] /\ (sync[u][o] # "none" \/ offer[o].state # "absent")
    <3>1. sync[u][o] # "none" /\ dest' = dest
      BY <1>3, <2>3 DEF CollectChange
    <3> QED  BY <3>1 DEF PagesKnown
  <2>4. ASSUME NEW v \in Users, NEW scope \in SUBSET Kinds \ {{}}, Activate(v, scope)
        PROVE  dest'[u] /\ (sync[u][o] # "none" \/ offer[o].state # "absent")
    BY <1>3, <2>4 DEF PagesKnown, Activate
  <2>5. ASSUME NEW v \in Users, Deactivate(v) \/ Reactivate(v) \/ NotionReady(v) \/ NotionDisconnect(v)
        PROVE  dest'[u] /\ (sync[u][o] # "none" \/ offer[o].state # "absent")
    <3>1. CASE Deactivate(v)
      BY <1>3, <3>1 DEF Deactivate, PagesKnown
    <3>2. CASE Reactivate(v)
      BY <1>3, <3>2 DEF Reactivate, PagesKnown
    <3>3. CASE NotionReady(v)
      BY <1>3, <3>3 DEF NotionReady, PagesKnown
    <3>4. CASE NotionDisconnect(v)
      BY <1>3, <3>4 DEF NotionDisconnect, PagesKnown
    <3> QED  BY <2>5, <3>1, <3>2, <3>3, <3>4
  <2>6. ASSUME NEW v \in Users, NEW x \in Offers, SyncPage(v, x)
        PROVE  dest'[u] /\ (sync[u][o] # "none" \/ offer[o].state # "absent")
    <3>1. sync[u][o] # "none" /\ dest' = dest
      BY <1>3, <2>6 DEF SyncPage
    <3> QED  BY <3>1 DEF PagesKnown
  <2>7. ASSUME NEW w \in Workers, FinishMatch(w)
        PROVE  dest'[u] /\ (sync[u][o] # "none" \/ offer[o].state # "absent")
    <3>1. dest' = dest /\ (sync[u][o] # "none" \/ (<<u, o>> \in worker[w].hits /\ dest[u]))
      BY <1>3, <2>7 DEF FinishMatch
    <3> QED  BY <3>1 DEF PagesKnown
  <2> QED  BY <2>1, <2>2, <2>3, <2>4, <2>5, <2>6, <2>7, PageSteps
<1> QED  BY <1>1, <1>2, <1>3 DEF PagesKnown

\* A page becomes outdated, or visible again, with a change of its offer only.
LEMMA NewlyOutdated ==
    ASSUME TypeInv, PagesKnown, PagesFit, [Next]_vars,
           NEW u \in Users, NEW o \in Offers, Outdated(u, o)'
    PROVE  \/ Outdated(u, o)
           \/ \E kind \in Kinds, state \in {"open", "closed"} : CollectChange(o, state, kind)
<1> USE DEF TypeInv, TypeOK
<1> DEFINE Before == /\ sync[u][o] = "stale" /\ offer[o].state = "open"
<1>1. Before => Outdated(u, o)
  BY DEF PagesFit, PagesKnown, Outdated, Relevant, Matches
<1>2. sync'[u][o] = "stale" /\ offer'[o].state = "open"
  BY DEF Outdated, Relevant, Matches
<1> HIDE DEF Before
<1>3. CASE UNCHANGED <<user, offer, dest, sync>>
  BY <1>1, <1>2, <1>3 DEF Before
<1>4. ASSUME NEW x \in Offers, NEW kind \in Kinds, CollectNew(x, kind) PROVE Before
  <2>1. offer[x].state = "absent" /\ sync' = sync
    BY <1>4 DEF CollectNew
  <2>2. x # o
    BY <1>2, <2>1 DEF PagesKnown
  <2>3. offer'[o] = offer[o]
    BY <1>4, <2>2 DEF CollectNew
  <2> QED  BY <1>2, <2>1, <2>3 DEF Before
<1>5. ASSUME NEW x \in Offers \ {o}, NEW kind \in Kinds, NEW state \in {"open", "closed"},
             CollectChange(x, state, kind)
      PROVE  Before
  <2>1. offer'[o] = offer[o] /\ sync'[u][o] = sync[u][o]
    BY <1>5 DEF CollectChange
  <2> QED  BY <1>2, <2>1 DEF Before
<1>6. ASSUME NEW v \in Users, NEW scope \in SUBSET Kinds \ {{}}, Activate(v, scope) PROVE Before
  BY <1>2, <1>6 DEF Activate, Before
<1>7. ASSUME NEW v \in Users, Deactivate(v) \/ Reactivate(v) \/ NotionReady(v) \/ NotionDisconnect(v)
      PROVE  Before
  <2>1. offer' = offer
    BY <1>7 DEF Deactivate, Reactivate, NotionReady, NotionDisconnect
  <2>2. CASE Deactivate(v)
    BY <1>2, <2>1, <2>2 DEF Deactivate, Before
  <2>3. CASE Reactivate(v) \/ NotionReady(v)
    BY <1>2, <2>1, <2>3 DEF Reactivate, NotionReady, Before
  <2>4. CASE NotionDisconnect(v)
    BY <1>2, <2>1, <2>4 DEF NotionDisconnect, Before
  <2> QED  BY <1>7, <2>2, <2>3, <2>4
<1>8. ASSUME NEW v \in Users, NEW x \in Offers, SyncPage(v, x) PROVE Before
  BY <1>2, <1>8 DEF SyncPage, Before
<1>9. ASSUME NEW w \in Workers, FinishMatch(w) PROVE Before
  BY <1>2, <1>9 DEF FinishMatch, Before
<1> QED  BY <1>1, <1>3, <1>4, <1>5, <1>6, <1>7, <1>8, <1>9, PageSteps

\* A worker that loses its generation leaves the update to the job.
LEMMA UpdateHandedBack ==
    ASSUME TypeInv, ClaimHolds, HitsAhead, StepStands,
           NEW u \in Users, NEW o \in Offers, UpdateInHand(u, o)
    PROVE  UpdateInHand(u, o)' \/ UpdateAhead(u, o)'
<1> DEFINE k == OfferKey(o)
<1>1. PICK w \in Workers : /\ Current(w) /\ Evaluated(w) /\ <<u, o>> \in worker[w].hits
                           /\ worker[w].key = k /\ worker[w].payload.updated
  BY DEF UpdateInHand
<1>2. /\ k \in Keys /\ u \in Nat \ {0} /\ worker[w].cursor < u
      /\ worker[w].cursor = job[k].cursor /\ worker[w].payload = job[k].payload
      /\ job[k].status = "processing"
  BY <1>1, KeyForms, IdsPositive DEF HitsAhead, ClaimHolds, Current, Owns, Item
<1>3. CASE Current(w)' /\ Evaluated(w)'
  BY <1>1, <1>3 DEF StepStands, NoNewReader, UpdateInHand
<1>4. CASE ~(Current(w)' /\ Evaluated(w)')
  <2>1. ~PassedBy(k, u)'
    <3> SUFFICES ASSUME NEW v \in Workers, Current(v)', Evaluated(v)', worker'[v].key = k
                 PROVE  FALSE
      BY DEF PassedBy
    <3>1. Current(v) /\ worker[v].key = k
      BY DEF StepStands, NoNewReader
    <3> QED  BY <1>1, <1>4, <3>1, OneCurrent
  <2>2. job'[k].status \in Live /\ (Reconciling(k, job'[k].payload) \/ job'[k].cursor < u)
    BY <1>2 DEF StepStands, Stands, KeepsPlace, Restarts, Live
  <2>3. job'[k].payload.updated
    BY <1>1, <1>2 DEF StepStands, UpdatesStand, Live
  <2> QED  BY <2>1, <2>2, <2>3 DEF UpdateAhead, Ahead, Live, Reconciling
<1> QED  BY <1>3, <1>4

\* When rows stand, an update that was covered is, and one that comes with a
\* restarted job is covered by it.
LEMMA UpdatesStep ==
    ASSUME ClaimInv, UpdatesCovered, StepStands, PagesKnown, PagesFit, [Next]_vars
    PROVE  UpdatesCovered'
<1> SUFFICES ASSUME NEW u \in Users, NEW o \in Offers, Outdated(u, o)'
             PROVE  UpdateInHand(u, o)' \/ UpdateAhead(u, o)'
  BY DEF UpdatesCovered
<1>1. OfferKey(o) \in Keys /\ u \in Nat \ {0} /\ TypeInv /\ ClaimHolds /\ HitsAhead
  BY KeyForms, IdsPositive DEF ClaimInv
<1>2. CASE Outdated(u, o)
  <2>1. CASE UpdateInHand(u, o)
    BY <1>1, <2>1, UpdateHandedBack
  <2>2. CASE UpdateAhead(u, o)
    <3>1. Ahead(OfferKey(o), u)'
      BY <1>1, <2>2, AheadStays DEF UpdateAhead, StepStands
    <3>2. job'[OfferKey(o)].payload.updated
      BY <2>2 DEF UpdateAhead, Ahead, Live, StepStands, UpdatesStand
    <3> QED  BY <3>1, <3>2 DEF UpdateAhead
  <2> QED  BY <1>2, <2>1, <2>2 DEF UpdatesCovered
<1>3. ASSUME NEW kind \in Kinds, NEW state \in {"open", "closed"}, CollectChange(o, state, kind)
      PROVE  UpdateAhead(u, o)'
  <2>1. /\ job' = [job EXCEPT ![OfferKey(o)] = EnqueueMatch(@, OfferPayload(TRUE), TRUE)]
        /\ OfferPayload(TRUE) \in Payload /\ OfferPayload(TRUE).updated
    BY <1>3, PayloadForms DEF CollectChange, OfferPayload
  <2>2. Restarts(OfferKey(o), job'[OfferKey(o)]) /\ job'[OfferKey(o)].payload.updated
    BY <1>1, <2>1, EnqueueEffect
  <2> QED  BY <1>1, <2>2, RestartCovers DEF UpdateAhead
<1> QED  BY <1>1, <1>2, <1>3, NewlyOutdated

\* The commit of a batch requeues the pages of its pairs; the items it did not
\* reach are still to be updated.
LEMMA FinishMatchUpdates ==
    ASSUME ClaimInv, EveryMatchCovered, UpdatesCovered, PagesKnown, PagesFit,
           NEW w \in Workers, FinishMatch(w)
    PROVE  UpdatesCovered'
<1>1. PICK k \in Keys :
        /\ k = worker[w].key /\ TypeInv'
        /\ job'[k] = FinishRow(job[k], worker[w].token, worker[w].last,
                               Completed(job[k]))
        /\ \A l \in Keys \ {k} : job'[l] = job[l]
        /\ worker'[w] = IdleWorker /\ \A v \in Workers \ {w} : worker'[v] = worker[v]
  BY FinishMatchType DEF ClaimInv
<1>2. [Next]_vars
  BY DEF Next, WorkerStep
<1>3. CASE ~Owns(job[k], worker[w].token)
  BY <1>1, <1>2, <1>3, FinishMatchKeepsCover, UpdatesStep
<1>4. CASE Owns(job[k], worker[w].token)
  <2> SUFFICES ASSUME NEW u \in Users, NEW o \in Offers, Outdated(u, o)'
               PROVE  UpdateInHand(u, o)' \/ UpdateAhead(u, o)'
    BY DEF UpdatesCovered
  <2>1. Evaluated(w) /\ Running(w) /\ Current(w) /\ job[k].status = "processing"
    BY <1>1, <1>4 DEF FinishMatch, Evaluated, Running, Current, Owns
  <2>2. /\ SoundRow(job[k]) /\ worker[w].token \in Token /\ worker[w].last \in Nat
    BY <1>1, <2>1, RunningForms DEF ClaimInv
  <2>3. /\ worker[w].last # 0 => /\ job'[k].status = "pending" /\ job'[k].cursor = worker[w].last
                                 /\ job'[k].payload = job[k].payload
    BY <1>1, <1>4, <2>2, CompletedRow, FinishRowOfOwner
  <2>4. /\ Outdated(u, o)
        /\ ~(<<u, o>> \in worker[w].hits /\ worker[w].payload.updated)
    BY DEF Outdated, FinishMatch, Relevant, Matches
  <2>5. OfferKey(o) \in Keys /\ u \in Nat \ {0}
    BY KeyForms, IdsPositive
  <2>6. CASE UpdateInHand(u, o)
    <3>1. PICK v \in Workers : /\ Current(v) /\ Evaluated(v) /\ <<u, o>> \in worker[v].hits
                               /\ worker[v].key = OfferKey(o) /\ worker[v].payload.updated
      BY <2>6 DEF UpdateInHand
    <3>2. v # w
      BY <2>4, <3>1
    <3>3. worker[v].key \in Keys \ {k} /\ worker'[v] = worker[v]
      BY <1>1, <2>1, <2>5, <3>1, <3>2, OneCurrent DEF ClaimInv
    <3>4. Current(v)' /\ Evaluated(v)'
      BY <1>1, <3>1, <3>3 DEF Current, Running, Evaluated, Reconciling
    <3> QED  BY <3>1, <3>3, <3>4 DEF UpdateInHand
  <2>7. CASE UpdateAhead(u, o)
    <3>1. CASE OfferKey(o) # k
      <4>1. job'[OfferKey(o)] = job[OfferKey(o)]
        BY <1>1, <2>5, <3>1
      <4>2. ~PassedBy(OfferKey(o), u)'
        <5> SUFFICES ASSUME NEW v \in Workers, Current(v)', Evaluated(v)',
                            worker'[v].key = OfferKey(o), worker'[v].last = 0 \/ u <= worker'[v].last
                     PROVE  FALSE
          BY DEF PassedBy
        <5>1. v # w
          BY <1>1 DEF Current, Running, IdleWorker
        <5>2. worker'[v] = worker[v]
          BY <1>1, <5>1
        <5>3. Current(v) /\ Evaluated(v)
          BY <4>1, <5>2 DEF Current, Running, Evaluated, Reconciling
        <5> QED  BY <2>7, <5>2, <5>3 DEF UpdateAhead, Ahead, PassedBy
      <4> QED  BY <2>7, <4>1, <4>2 DEF UpdateAhead, Ahead, Reconciling
    <3>2. CASE OfferKey(o) = k
      <4>1. worker[w].last # 0 /\ worker[w].last < u
        BY <1>1, <2>1, <2>2, <2>5, <2>7, <3>2 DEF UpdateAhead, Ahead, PassedBy
      <4>2. job'[k].status = "pending" /\ job'[k].cursor < u /\ job'[k].payload = job[k].payload
        BY <2>3, <4>1
      <4>3. ~PassedBy(k, u)'
        BY <4>2 DEF PassedBy, Current, Owns
      <4> QED  BY <2>7, <3>2, <4>2, <4>3 DEF UpdateAhead, Ahead
    <3> QED  BY <3>1, <3>2
  <2> QED  BY <2>4, <2>6, <2>7 DEF UpdatesCovered
<1> QED  BY <1>3, <1>4

\* A batch of an update takes the outdated pages up to its end in hand.
LEMMA EvaluateUpdates ==
    ASSUME ClaimInv, UpdatesCovered, NEW w \in Workers, Evaluate(w)
    PROVE  UpdatesCovered'
<1>1. PICK k \in Keys, p \in {worker[w].payload}, n \in {worker'[w]},
           S \in {After(Items(worker[w].key, worker[w].payload), worker[w].cursor)} :
        /\ k = worker[w].key /\ p = worker[w].payload /\ n = worker'[w]
        /\ S = After(Items(k, p), worker[w].cursor)
        /\ TypeInv' /\ worker[w].pc = "claimed"
        /\ n.pc = "evaluated" /\ n.key = k /\ n.token = worker[w].token
        /\ n.payload = p /\ n.cursor = worker[w].cursor
        /\ n.last \in S \cup {0} /\ (n.last = 0 => S = {})
        /\ n.hits = Hits(k, p, {i \in S : i <= n.last})
        /\ \A v \in Workers \ {w} : worker'[v] = worker[v]
  BY EvaluateType DEF ClaimInv
<1>2. UNCHANGED <<user, offer, dest, sync, job>>
  BY DEF Evaluate, tables
<1>3. /\ \A v \in Workers : Current(v)' = Current(v)
      /\ \A v \in Workers \ {w} : Evaluated(v)' = Evaluated(v)
  BY <1>1, <1>2 DEF Current, Running, Evaluated, Reconciling
<1> SUFFICES ASSUME NEW u \in Users, NEW o \in Offers, Outdated(u, o)'
             PROVE  UpdateInHand(u, o)' \/ UpdateAhead(u, o)'
  BY DEF UpdatesCovered
<1>4. Outdated(u, o) /\ Relevant(u, o)
  BY <1>2 DEF Outdated, Relevant, Matches
<1>5. CASE UpdateInHand(u, o)
  <2>1. PICK v \in Workers : /\ Current(v) /\ Evaluated(v) /\ <<u, o>> \in worker[v].hits
                             /\ worker[v].key = OfferKey(o) /\ worker[v].payload.updated
    BY <1>5 DEF UpdateInHand
  <2>2. v # w
    BY <1>1, <2>1 DEF Evaluated
  <2> QED  BY <1>1, <1>3, <2>1, <2>2 DEF UpdateInHand
<1>6. CASE UpdateAhead(u, o)
  <2> DEFINE l == OfferKey(o)
  <2>1. /\ l \in Keys /\ u \in Nat \ {0} /\ Item(l, u, o) = u /\ Ahead(l, u)
        /\ job[l].payload.updated
    BY <1>6, KeyForms, IdsPositive DEF Item, UpdateAhead
  <2>2. ASSUME ~PassedBy(l, u)' PROVE UpdateAhead(u, o)'
    BY <1>2, <2>1, <2>2 DEF UpdateAhead, Ahead, Reconciling
  <2>3. ASSUME NEW v \in Workers, v # w, Current(v)', Evaluated(v)', worker'[v].key = l,
               worker'[v].last = 0 \/ u <= worker'[v].last
        PROVE  FALSE
    BY <1>1, <1>3, <2>1, <2>3 DEF Ahead, PassedBy
  <2>4. CASE Current(w) /\ Evaluated(w)' /\ k = l /\ (n.last = 0 \/ u <= n.last)
    <3>1. p = job[k].payload /\ worker[w].cursor = job[k].cursor
      BY <1>1, <2>4 DEF ClaimInv, ClaimHolds
    <3>2. ~Reconciling(k, p)
      BY <1>1, <2>4 DEF Evaluated, Reconciling
    <3>3. worker[w].cursor < u
      BY <2>1, <2>4, <3>1, <3>2 DEF Ahead
    <3>4. u \in Items(k, p) /\ \A batch : u \in batch => <<u, o>> \in Hits(k, p, batch)
      BY <1>4, <2>1, <2>4, <3>2, RelevantIsItem
    <3>5. u \in S
      BY <1>1, <3>3, <3>4 DEF After
    <3>6. u <= n.last
      BY <1>1, <2>4, <3>5
    <3>7. <<u, o>> \in worker'[w].hits
      BY <1>1, <3>4, <3>5, <3>6
    <3> QED  BY <1>1, <1>3, <2>1, <2>4, <3>1, <3>7 DEF UpdateInHand
  <2>5. CASE ~(Current(w) /\ Evaluated(w)' /\ k = l /\ (n.last = 0 \/ u <= n.last))
    <3>1. ~PassedBy(l, u)'
      BY <1>1, <1>3, <2>3, <2>5 DEF PassedBy
    <3> QED  BY <2>2, <3>1
  <2> QED  BY <2>4, <2>5
<1> QED  BY <1>4, <1>5, <1>6 DEF UpdatesCovered

\* What the theorem rests on.
UpdateInv == ClaimInv /\ EveryMatchCovered /\ PagesKnown /\ UpdatesCovered

LEMMA NextUpdates == UpdateInv /\ PagesFit /\ [Next]_vars => UpdateInv'
<1> SUFFICES ASSUME ClaimInv, EveryMatchCovered, PagesKnown, UpdatesCovered, PagesFit, [Next]_vars
             PROVE  UpdateInv'
  BY DEF UpdateInv
<1>1. ClaimInv' /\ EveryMatchCovered'
  BY NextCovers
<1>2. PagesKnown'
  BY NextKnown DEF ClaimInv
<1>3. ASSUME StepStands PROVE UpdatesCovered'
  BY <1>3, UpdatesStep
<1>4. ASSUME Produce \/ Downstream \/ TimePasses PROVE UpdatesCovered'
  BY <1>3, <1>4, ProduceKeepsCover, DownstreamKeepsCover, TimeKeepsCover DEF Advances
<1>5. ASSUME NEW w \in Workers, WorkerStep(w) PROVE UpdatesCovered'
  <2>1. CASE FinishMatch(w)
    BY <2>1, FinishMatchUpdates
  <2>2. CASE Evaluate(w)
    BY <2>2, EvaluateUpdates
  <2>3. CASE ~FinishMatch(w) /\ ~Evaluate(w)
    BY <1>3, <1>5, <2>3, SelectKeepsCover, ClaimKeepsCover, FinishReconcileKeepsCover,
       GiveUpKeepsCover DEF WorkerStep, Advances
  <2> QED  BY <2>1, <2>2, <2>3
<1>6. ASSUME Trouble PROVE UpdatesCovered'
  BY <1>3, <1>6, GiveUpKeepsCover DEF Trouble, Advances
<1>7. ASSUME UNCHANGED vars PROVE UpdatesCovered'
  <2>1. TypeInv'
    BY <1>1 DEF ClaimInv
  <2>2. /\ user' = user /\ offer' = offer /\ worker' = worker /\ matched' = matched
        /\ job' = job
    BY <1>7 DEF vars
  <2>3. Advances
    BY <2>1, <2>2, Unchanged, TablesStep
  <2> QED  BY <1>3, <2>3 DEF Advances
<1>8. UpdatesCovered'
  BY <1>4, <1>5, <1>6, <1>7 DEF Next
<1> QED  BY <1>1, <1>2, <1>8 DEF UpdateInv

\* A change that was collected is on its way to the page of everybody it fits until the
\* page is requeued, whatever replaces or interrupts the job that brings it, as long as
\* the offers on pages go on fitting accounts that stay enabled.
THEOREM ChangesReachPages == Spec /\ []PagesFit => []UpdateReachesNotion
<1>1. Init => UpdateInv
  <2> SUFFICES ASSUME Init PROVE UpdateInv
    OBVIOUS
  <2>1. ClaimInv /\ EveryMatchCovered
    BY InitCovers
  <2>2. PagesKnown /\ UpdatesCovered
    BY DEF Init, PagesKnown, UpdatesCovered, Outdated, IdleWorker
  <2> QED  BY <2>1, <2>2 DEF UpdateInv
<1>2. UpdateInv => UpdateReachesNotion
  <2> SUFFICES ASSUME UpdateInv, NEW u \in Users, NEW o \in Offers, Relevant(u, o), dest[u],
                      Settled(OfferKey(o)), sync[u][o] = "stale"
               PROVE  FALSE
    BY DEF UpdateReachesNotion
  <2>1. UpdateInHand(u, o) \/ UpdateAhead(u, o)
    BY DEF UpdateInv, UpdatesCovered, Outdated
  <2> QED  BY <2>1 DEF UpdateInHand, UpdateAhead, Ahead, Current, Owns, Settled
<1> QED  BY <1>1, <1>2, NextUpdates, PTL DEF Spec

----------------------------------------------------------------------------
(* One generation at a time. *)

\* Claims are undisturbed where no error precedes them and no worker outlives its
\* lease: the two things the code leaves to its retries.
ClaimsUndisturbed == PreClaimErrors = FALSE /\ LeaseOutlived = FALSE

\* A worker has the live lease of its row until it leaves, replaced or not.
HasLease ==
    \A w \in Workers :
      Running(w) => LET j == job[worker[w].key]
                    IN  j.token = worker[w].token /\ j.lease = "live"

\* So a row that an administrator retries, or that was given up, is in nobody's hands.
FailedIsFree == \A k \in Keys : job[k].status = "failed" => job[k].lease # "live"

LeaseInv == HasLease /\ FailedIsFree /\ OneGenerationRuns

\* Row r has the lease of row j, and is no sooner retried.
KeepsLease(j, r) ==
    /\ r.lease = j.lease /\ r.token = j.token
    /\ r.deferred => j.deferred

\* The operators on a row that is not the caller's own: producers leave the lease
\* to the generation that runs.
LEMMA RowsKeepLease ==
    ASSUME NEW j \in JobRow
    PROVE  /\ \A p \in Payload, s \in BOOLEAN :
                KeepsLease(j, EnqueueMatch(j, p, s)) /\ EnqueueMatch(j, p, s).status = "pending"
           /\ KeepsLease(j, ExhaustRow(j))
           /\ RetryRow(j).status = "pending" /\ ~RetryRow(j).deferred
           /\ \A t : /\ ClaimRow(j, t).lease = "live" /\ ClaimRow(j, t).token = t
                     /\ ClaimRow(j, t).status = "processing"
                     /\ ClaimRow(j, t).deferred = j.deferred
<1> USE DEF JobRow
<1>1. ASSUME NEW p \in Payload, NEW s \in BOOLEAN
      PROVE  /\ KeepsLease(j, EnqueueMatch(j, p, s))
             /\ EnqueueMatch(j, p, s).status = "pending"
  BY DEF EnqueueMatch, KeepsLease
<1>2. KeepsLease(j, ExhaustRow(j))
  BY DEF ExhaustRow, KeepsLease
<1>3. RetryRow(j).status = "pending" /\ ~RetryRow(j).deferred
  BY DEF RetryRow
<1>4. ASSUME NEW t
      PROVE  /\ ClaimRow(j, t).lease = "live" /\ ClaimRow(j, t).token = t
             /\ ClaimRow(j, t).status = "processing"
             /\ ClaimRow(j, t).deferred = j.deferred
  BY DEF ClaimRow
<1> QED  BY <1>1, <1>2, <1>3, <1>4

\* A worker that commits its batch gives its lease back, and defers nothing.
LEMMA FinishFreesRow ==
    ASSUME NEW j \in JobRow, NEW t, j.token = t, NEW p, NEW last,
           NEW emptied \in {Completed(j), OffersPhase(j, p)}
    PROVE  /\ FinishRow(j, t, last, emptied).lease = "none"
           /\ FinishRow(j, t, last, emptied).deferred => j.deferred
<1> USE DEF JobRow
<1>1. /\ Progress(j).lease = "none" /\ ~Progress(j).deferred
      /\ Completed(j).lease = "none" /\ ~Completed(j).deferred
      /\ OffersPhase(j, p).lease = "none" /\ ~OffersPhase(j, p).deferred
      /\ [Progress(j) EXCEPT !.cursor = last].lease = "none"
      /\ ~[Progress(j) EXCEPT !.cursor = last].deferred
  BY DEF Progress, Completed, OffersPhase
<1>2. Release(j).lease = "none" /\ Release(j).deferred = j.deferred
  BY DEF Release
<1>3. FinishRow(j, t, last, emptied) \in {[Progress(j) EXCEPT !.cursor = last], emptied, Release(j)}
  BY DEF FinishRow
<1> QED  BY <1>1, <1>2, <1>3

\* So does one that fails, and only the owner of the current generation defers the row.
LEMMA FailFreesRow ==
    ASSUME NEW j \in JobRow, NEW t, j.token = t
    PROVE  /\ FailRow(j, t).lease = "none"
           /\ FailRow(j, t).deferred /\ ~j.deferred => Owns(j, t)
<1> USE DEF JobRow
<1>1. /\ Release(j).lease = "none" /\ Release(j).deferred = j.deferred
      /\ Charge(Release(j)).lease = "none"
  BY DEF Release, Charge
<1>2. CASE Owns(j, t)
  <2>1. FailRow(j, t) = Charge(Release(j))
    BY <1>2 DEF FailRow
  <2> QED  BY <1>1, <1>2, <2>1
<1>3. CASE ~Owns(j, t)
  <2>1. FailRow(j, t) = Release(j)
    BY <1>3 DEF FailRow
  <2> QED  BY <1>1, <2>1
<1> QED  BY <1>2, <1>3

\* No worker begins to run, and a row changes its lease only when nobody runs it.
LEMMA LeasesStay ==
    ASSUME TypeInv, LeaseInv,
           \A v \in Workers : Running(v)' => /\ Running(v)
                                             /\ worker'[v].key = worker[v].key
                                             /\ worker'[v].token = worker[v].token,
           \A k \in Keys : \/ job'[k].lease = job[k].lease /\ job'[k].token = job[k].token
                           \/ \A v \in Workers : Running(v)' => worker'[v].key # k,
           \A k \in Keys : job'[k].status = "failed" => job'[k].lease # "live"
    PROVE  LeaseInv'
<1>1. \A v \in Workers : Running(v) => worker[v].key \in Keys
  BY DEF TypeInv, TokensDiffer
<1>2. HasLease'
  BY <1>1 DEF LeaseInv, HasLease
<1>3. FailedIsFree'
  BY DEF FailedIsFree
<1>4. OneGenerationRuns'
  BY DEF LeaseInv, OneGenerationRuns
<1> QED  BY <1>2, <1>3, <1>4 DEF LeaseInv

\* What one step makes of the leases, and of the rows to be retried later.
LEMMA NextLeases ==
    ASSUME ClaimsUndisturbed, TypeInv, LeaseInv, [Next]_vars
    PROVE  /\ LeaseInv'
           /\ \A k \in Keys : job'[k].deferred /\ ~job[k].deferred =>
                \E w \in Workers : worker[w].key = k /\ Current(w)
<1> DEFINE Goal == /\ LeaseInv'
                   /\ \A k \in Keys : job'[k].deferred /\ ~job[k].deferred =>
                        \E w \in Workers : worker[w].key = k /\ Current(w)
<1>1. /\ \A k \in Keys : job[k] \in JobRow
      /\ job \in [Keys -> JobRow]
      /\ \A v \in Workers : Running(v) => worker[v].key \in Keys
      /\ FailedIsFree /\ HasLease /\ OneGenerationRuns
  BY DEF TypeInv, TypeOK, TokensDiffer, LeaseInv
<1>2. ASSUME worker' = worker, \A k \in Keys : KeepsLease(job[k], job'[k]),
             \A k \in Keys : job'[k].status # "failed" \/ job'[k] = job[k]
      PROVE  Goal
  <2>1. LeaseInv'
    BY <1>1, <1>2, LeasesStay DEF KeepsLease, Running, FailedIsFree
  <2> QED  BY <1>2, <2>1 DEF KeepsLease
<1>3. ASSUME job' = job,
             \A v \in Workers : Running(v)' => /\ Running(v)
                                               /\ worker'[v].key = worker[v].key
                                               /\ worker'[v].token = worker[v].token
      PROVE  Goal
  BY <1>1, <1>3, LeasesStay DEF FailedIsFree
<1>4. CASE UNCHANGED vars
  BY <1>3, <1>4 DEF vars, Running
<1>5. CASE Produce
  <2>1. worker' = worker
    BY <1>5 DEF Produce, CollectNew, CollectChange, Activate, Deactivate, Reactivate,
                NotionReady, NotionDisconnect, AdminRetry, PurgeJob, tables
  <2>2. ASSUME NEW k \in Keys, NEW p \in Payload, NEW s \in BOOLEAN,
               job' = [job EXCEPT ![k] = EnqueueMatch(@, p, s)]
        PROVE  Goal
    <3>1. job'[k] = EnqueueMatch(job[k], p, s) /\ \A l \in Keys \ {k} : job'[l] = job[l]
      BY <1>1, <2>2
    <3>2. KeepsLease(job[k], job'[k]) /\ job'[k].status = "pending"
      BY <1>1, <3>1, RowsKeepLease
    <3>3. \A l \in Keys : KeepsLease(job[l], job'[l])
      BY <3>1, <3>2 DEF KeepsLease
    <3> QED  BY <1>2, <2>1, <3>1, <3>2, <3>3
  <2>3. CASE job' = job
    BY <1>3, <2>1, <2>3 DEF Running
  <2>4. ASSUME NEW k \in Keys, AdminRetry(k) PROVE Goal
    <3>1. /\ job'[k] = RetryRow(job[k]) /\ job[k].status = "failed"
          /\ \A l \in Keys \ {k} : job'[l] = job[l]
      BY <1>1, <2>4 DEF AdminRetry
    <3>2. \A v \in Workers : Running(v) => worker[v].key # k
      BY <1>1, <3>1 DEF FailedIsFree, HasLease
    <3>3. job'[k].status = "pending" /\ ~job'[k].deferred
      BY <1>1, <3>1, RowsKeepLease
    <3>4. LeaseInv'
      BY <1>1, <2>1, <3>1, <3>2, <3>3, LeasesStay DEF Running, FailedIsFree
    <3> QED  BY <3>1, <3>3, <3>4
  <2>5. ASSUME NEW k \in Keys, PurgeJob(k) PROVE Goal
    <3>1. /\ job'[k] = AbsentJob /\ \A l \in Keys \ {k} : job'[l] = job[l]
          /\ \A v \in Workers : worker[v].key # k
      BY <1>1, <2>5 DEF PurgeJob
    <3>2. job'[k].status = "absent" /\ ~job'[k].deferred
      BY <3>1 DEF AbsentJob
    <3>3. LeaseInv'
      BY <1>1, <2>1, <3>1, <3>2, LeasesStay DEF Running, FailedIsFree
    <3> QED  BY <3>1, <3>2, <3>3
  <2>6. ASSUME NEW o \in Offers, NEW kind \in Kinds, NEW state \in {"open", "closed"},
               CollectNew(o, kind) \/ CollectChange(o, state, kind)
        PROVE  Goal
    <3>1. PICK updated \in BOOLEAN :
            job' = [job EXCEPT ![OfferKey(o)] = EnqueueMatch(@, OfferPayload(updated), updated)]
      BY <2>6 DEF CollectNew, CollectChange
    <3>2. OfferKey(o) \in Keys /\ OfferPayload(updated) \in Payload
      BY KeyForms, PayloadForms
    <3> QED  BY <2>2, <3>1, <3>2
  <2>7. ASSUME NEW u \in Users, NEW scope \in SUBSET Kinds,
               \/ Activate(u, scope) \/ Deactivate(u) \/ Reactivate(u)
               \/ NotionReady(u) \/ NotionDisconnect(u)
        PROVE  Goal
    <3>1. \/ job' = job
          \/ \E p \in {ActivationPayload, BaselinePayload} :
               job' = [job EXCEPT ![UserKey(u)] = EnqueueMatch(@, p, FALSE)]
      BY <2>7 DEF Activate, Deactivate, Reactivate, ActivatePreference, NotionReady,
                  NotionDisconnect
    <3>2. UserKey(u) \in Keys /\ {ActivationPayload, BaselinePayload} \subseteq Payload
      BY KeyForms, PayloadForms
    <3> QED  BY <2>2, <2>3, <3>1, <3>2
  <2> QED  BY <1>5, <2>4, <2>5, <2>6, <2>7, MatchQueueAssumption DEF Produce
<1>6. CASE Downstream
  BY <1>3, <1>6 DEF Downstream, Mail, SyncPage, Running
<1>7. ASSUME NEW k \in Keys, LeaseExpires(k) PROVE Goal
  <2>1. \A v \in Workers : Running(v) => worker[v].key # k
    BY <1>1, <1>7 DEF LeaseExpires, ClaimsUndisturbed, HasLease
  <2>2. /\ job'[k].lease = "expired" /\ job'[k].deferred = job[k].deferred
        /\ \A l \in Keys \ {k} : job'[l] = job[l]
        /\ worker' = worker
    BY <1>1, <1>7 DEF LeaseExpires, JobRow
  <2>3. LeaseInv'
    BY <1>1, <2>1, <2>2, LeasesStay DEF Running, FailedIsFree
  <2> QED  BY <2>2, <2>3
<1>8. ASSUME NEW k \in Keys, RetryDue(k) PROVE Goal
  <2>1. /\ job'[k].lease = job[k].lease /\ job'[k].token = job[k].token
        /\ job'[k].status = job[k].status /\ ~job'[k].deferred
        /\ \A l \in Keys \ {k} : job'[l] = job[l]
        /\ worker' = worker
    BY <1>1, <1>8 DEF RetryDue, JobRow
  <2>2. LeaseInv'
    BY <1>1, <2>1, LeasesStay DEF Running, FailedIsFree
  <2> QED  BY <2>1, <2>2
<1>9. ASSUME NEW w \in Workers, NEW k \in Keys, Select(w, k) PROVE Goal
  <2>1. /\ worker'[w].pc = "selected" /\ job' = job
        /\ \A v \in Workers \ {w} : worker'[v] = worker[v]
    BY <1>9, SelectType DEF Select
  <2> QED  BY <1>3, <2>1 DEF Running
<1>10. ASSUME NEW w \in Workers, SkipJob(w) \/ ExhaustJob(w) \/ Crash(w) PROVE Goal
  <2> DEFINE k == worker[w].key
  <2>1. worker'[w] = IdleWorker /\ \A v \in Workers \ {w} : worker'[v] = worker[v]
    BY <1>10, GiveUpType
  <2>2. \A v \in Workers : Running(v)' => Running(v) /\ worker'[v] = worker[v]
    BY <2>1 DEF Running, IdleWorker
  <2>3. CASE job' = job
    BY <1>3, <2>2, <2>3
  <2>4. CASE ExhaustJob(w)
    <3>1. /\ k \in Keys /\ job'[k] = ExhaustRow(job[k]) /\ job[k].lease # "live"
          /\ \A l \in Keys \ {k} : job'[l] = job[l]
      BY <1>1, <2>4 DEF ExhaustJob, Claimable, TypeInv, SelectedKeys
    <3>2. KeepsLease(job[k], job'[k])
      BY <1>1, <3>1, RowsKeepLease
    <3>3. LeaseInv'
      BY <1>1, <2>2, <3>1, <3>2, LeasesStay DEF KeepsLease, FailedIsFree
    <3> QED  BY <3>1, <3>2, <3>3 DEF KeepsLease
  <2> QED  BY <1>10, <2>3, <2>4 DEF SkipJob, Crash
<1>11. ASSUME NEW w \in Workers, FailBeforeClaim(w) PROVE Goal
  BY <1>11 DEF FailBeforeClaim, ClaimsUndisturbed
<1>12. ASSUME NEW w \in Workers, Claim(w) PROVE Goal
  <2> DEFINE k == worker[w].key
  <2>1. /\ worker'[w].pc = "claimed" /\ worker'[w].key = k /\ worker'[w].token = FreshToken
        /\ k \in Keys /\ job'[k] = ClaimRow(job[k], FreshToken)
        /\ \A v \in Workers \ {w} : worker'[v] = worker[v]
        /\ \A l \in Keys \ {k} : job'[l] = job[l]
    BY <1>12, ClaimType
  <2>2. \A v \in Workers : Running(v) => worker[v].key # k
    BY <1>1, <1>12 DEF Claim, Claimable, HasLease
  <2>3. /\ job'[k].lease = "live" /\ job'[k].token = FreshToken
        /\ job'[k].status = "processing" /\ job'[k].deferred = job[k].deferred
    BY <1>1, <2>1, RowsKeepLease
  <2>4. HasLease'
    BY <1>1, <2>1, <2>2, <2>3 DEF HasLease, Running
  <2>5. FailedIsFree'
    BY <1>1, <2>1, <2>3 DEF FailedIsFree
  <2>6. OneGenerationRuns'
    BY <1>1, <2>1, <2>2 DEF OneGenerationRuns, Running
  <2> QED  BY <2>1, <2>3, <2>4, <2>5, <2>6 DEF LeaseInv
<1>13. ASSUME NEW w \in Workers, Evaluate(w) PROVE Goal
  <2>1. /\ worker[w].pc = "claimed" /\ worker'[w].key = worker[w].key
        /\ worker'[w].token = worker[w].token
        /\ \A v \in Workers \ {w} : worker'[v] = worker[v]
    BY <1>13, EvaluateType
  <2>2. job' = job
    BY <1>13, Zenon DEF Evaluate
  <2> QED  BY <1>3, <2>1, <2>2 DEF Running
<1>14. ASSUME NEW w \in Workers, FinishReconcile(w) \/ FinishMatch(w) \/ FailBatch(w) PROVE Goal
  <2> DEFINE k == worker[w].key
             t == worker[w].token
  <2>1. Running(w) /\ k \in Keys /\ job[k].token = t
    BY <1>1, <1>14 DEF FinishReconcile, FinishMatch, FailBatch, Running, HasLease
  <2>2. worker'[w] = IdleWorker /\ \A v \in Workers \ {w} : worker'[v] = worker[v]
    BY <1>14, GiveUpType, FinishReconcileType, FinishMatchType
  <2>3. \A v \in Workers : Running(v)' => Running(v) /\ worker'[v] = worker[v] /\ v # w
    BY <2>2 DEF Running, IdleWorker
  <2>4. \A l \in Keys \ {k} : job'[l] = job[l]
    BY <1>1, <1>14 DEF FinishReconcile, FinishMatch, FailBatch
  <2>5. /\ job'[k].lease = "none"
        /\ job'[k].deferred /\ ~job[k].deferred => Owns(job[k], t)
    <3>1. CASE FinishReconcile(w)
      <4>1. job'[k] = FinishRow(job[k], t, worker[w].last, OffersPhase(job[k], worker[w].payload))
        BY <3>1, FinishReconcileType
      <4> DEFINE p == worker[w].payload
                 emptied == OffersPhase(job[k], p)
      <4>2. emptied \in {Completed(job[k]), OffersPhase(job[k], p)}
        OBVIOUS
      <4> HIDE DEF p, emptied
      <4>3. job[k] \in JobRow /\ job[k].token = t
        BY <1>1, <2>1
      <4>4. /\ FinishRow(job[k], t, worker[w].last, emptied).lease = "none"
            /\ FinishRow(job[k], t, worker[w].last, emptied).deferred => job[k].deferred
        BY <4>2, <4>3, FinishFreesRow
      <4> QED  BY <4>1, <4>4 DEF emptied, p
    <3>2. CASE FinishMatch(w)
      <4>1. job'[k] = FinishRow(job[k], t, worker[w].last, Completed(job[k]))
        BY <3>2, FinishMatchType
      <4>2. Completed(job[k]) \in {Completed(job[k]), OffersPhase(job[k], NoPayload)}
        OBVIOUS
      <4> QED  BY <1>1, <2>1, <4>1, <4>2, FinishFreesRow
    <3>3. CASE FailBatch(w)
      <4>1. job'[k] = FailRow(job[k], t)
        BY <1>1, <2>1, <3>3 DEF FailBatch
      <4> QED  BY <1>1, <2>1, <4>1, FailFreesRow
    <3> QED  BY <1>14, <3>1, <3>2, <3>3
  \* Nobody else runs the row.
  <2>6. \A v \in Workers : Running(v)' => worker'[v].key # k
    BY <1>1, <2>1, <2>3 DEF OneGenerationRuns
  <2>7. LeaseInv'
    BY <1>1, <2>3, <2>4, <2>5, <2>6, LeasesStay DEF FailedIsFree
  <2> QED  BY <2>1, <2>4, <2>5, <2>7 DEF Current
<1> QED
  BY <1>4, <1>5, <1>6, <1>7, <1>8, <1>9, <1>10, <1>11, <1>12, <1>13, <1>14
     DEF Next, WorkerStep, Trouble, TimePasses

\* From the start nobody holds a lease.
LEMMA InitLeases == Init => LeaseInv
BY DEF Init, LeaseInv, HasLease, FailedIsFree, OneGenerationRuns, Running, IdleWorker, AbsentJob

\* As long as claims are undisturbed, two generations of a job never run at once: a
\* replacement waits for the lease of the generation it replaces.
THEOREM RunsOneGeneration ==
    ASSUME ClaimsUndisturbed
    PROVE  Spec => []OneGenerationRuns
<1>1. TypeInv /\ LeaseInv /\ [Next]_vars => (TypeInv /\ LeaseInv)'
  BY NextType, NextLeases
<1>2. LeaseInv => OneGenerationRuns
  BY DEF LeaseInv
<1> QED  BY InitType, InitLeases, <1>1, <1>2, PTL DEF Spec

\* As long as claims are undisturbed, an error puts off no row but that of the worker
\* that owns its current generation: a replacement starts with a clean record.
THEOREM OwnerIsCharged ==
    ASSUME ClaimsUndisturbed
    PROVE  Spec => BackoffChargedToOwner
<1>1. TypeInv /\ LeaseInv /\ [Next]_vars => (TypeInv /\ LeaseInv)'
  BY NextType, NextLeases
<1>2. TypeInv /\ LeaseInv /\ [Next]_vars =>
        [\A k \in Keys : job'[k].deferred /\ ~job[k].deferred =>
           \E w \in Workers : worker[w].key = k /\ Current(w)]_vars
  BY NextLeases
<1> QED  BY InitType, InitLeases, <1>1, <1>2, PTL DEF Spec, BackoffChargedToOwner
=============================================================================
