-------------------------- MODULE AlertDeliveryProofs --------------------------
(****************************************************************************)
(* Alert mail, for any number of offers, workers, edits and faults: a       *)
(* disabled account has no work left, the delivery rows are an outbox,      *)
(* reconciliation resumes what was left unsent, and what was sent is not    *)
(* sent again.                                                              *)
(*                                                                          *)
(* What a step makes of a row is one of four things: the row keeps its      *)
(* claim, loses it, is claimed, or is settled by its claimant.  Only Take   *)
(* claims and only Finalise records a message as sent, so the invariant     *)
(* says no more than what these two meet: a worker has claims while it is   *)
(* busy, and a claim that is still the row's has not gone stale.            *)
(*                                                                          *)
(* Reconciliation is proved from where its cursor stands: an alert still to *)
(* be moved has a row beyond it, unless the code leaves it out (Covered),   *)
(* and no alert behind it waits for one beyond it to take over (InOrder).   *)
(*                                                                          *)
(* The end of the module is about which offers alerts are of: the           *)
(* selections of Listing agree, for any offers, preferences, filters, dates *)
(* and seasons.  What matching records can be alerted, what is alerted is   *)
(* on the dashboard, a card of the dashboard has something to show, and     *)
(* every offer selected is on one page.                                     *)
(****************************************************************************)
EXTENDS AlertDelivery, Listing, FiniteSetTheorems, WellFoundedInduction, TLAPS

Statuses == {"absent", "pending", "processing", "sent", "failed", "cancelled"}

\* Without the bound on attempts, which no claim depends on.
AnyRow == [status : Statuses, attempts : Int, by : Workers \cup {Nobody},
           stale : BOOLEAN, deferred : BOOLEAN]

Shapes == row \in [Alerts -> AnyRow] /\ worker \in [Workers -> WorkerRow]

ClaimsSound ==
    \A w \in Workers :
      /\ worker[w].pc = "idle" <=> worker[w].claims = {}
      /\ worker[w].pc = "answered" => worker[w].answer \in {"ok", "error"}
      /\ \A a \in worker[w].claims : Owns(w, a) => ~row[a].stale

Inv == Shapes /\ ClaimsSound

----------------------------------------------------------------------------
(* Rows. *)

LEMMA SettleSettles ==
    ASSUME NEW r \in AnyRow, NEW status \in Statuses
    PROVE  /\ Settle(r, status) \in AnyRow
           /\ Settle(r, status).status = status
           /\ Settle(r, status).attempts = r.attempts
BY DEF Settle, AnyRow

LEMMA NewRowIsTyped ==
    ASSUME NEW status \in Statuses, NEW n \in Int
    PROVE  NewRow(status, n) \in AnyRow /\ NewRow(status, n).status = status
BY DEF NewRow, AbsentRow, AnyRow

LEMMA RevivedWaits == \A n : Revived(n) \in {"failed", "pending"} \cap Statuses
BY DEF Revived, Statuses

(* _defer_group touches rows that wait, and leaves them waiting or failed. *)
LEMMA DeferredWaits ==
    ASSUME Shapes, NEW S, NEW a \in Alerts
    PROVE  /\ Deferred(S)[a] \in AnyRow
           /\ \/ Deferred(S)[a] = row[a]
              \/ row[a].status = "pending" /\ Deferred(S)[a].status \in {"pending", "failed"}
<1>1. row[a] \in AnyRow
  BY DEF Shapes
<1>2. CASE a \in S /\ row[a].status = "pending"
  <2>1. Deferred(S)[a] = [row[a] EXCEPT !.attempts = row[a].attempts + 1, !.deferred = TRUE,
                            !.status = IF row[a].attempts >= MaxAttempts - 1 THEN "failed" ELSE "pending"]
    BY <1>2 DEF Deferred
  <2> DEFINE n == row[a].attempts + 1
             status == IF row[a].attempts >= MaxAttempts - 1 THEN "failed" ELSE "pending"
  <2>2. n \in Int
    BY <1>1 DEF AnyRow
  <2>3. status \in {"pending", "failed"} /\ status \in Statuses
    BY DEF Statuses
  <2>4. Deferred(S)[a] = [row[a] EXCEPT !.attempts = n, !.deferred = TRUE, !.status = status]
    BY <2>1
  <2> HIDE DEF n, status
  <2>5. Deferred(S)[a] \in AnyRow /\ Deferred(S)[a].status = status
    BY <1>1, <2>2, <2>3, <2>4 DEF AnyRow
  <2> QED
    BY <1>2, <2>3, <2>5
<1>3. CASE ~(a \in S /\ row[a].status = "pending")
  <2>1. Deferred(S)[a] = row[a]
    BY <1>3 DEF Deferred
  <2> QED
    BY <1>1, <2>1
<1> QED
  BY <1>2, <1>3

(* reconcile_delivery claims nothing and records nothing as sent. *)
LEMMA ReconciledWaits ==
    ASSUME Shapes, NEW batch, NEW a \in Alerts
    PROVE  /\ Reconciled(batch, a) \in AnyRow
           /\ \/ Reconciled(batch, a) = row[a]
              \/ Reconciled(batch, a).status \in {"pending", "failed", "cancelled"}
<1> DEFINE o == a[1]
           r == row[a]
           twin == <<o, Other(a[2])>>
           open(b) == b \in batch /\ row[b].status \in Unfinished
           handover == a[2] = mode /\ open(twin) /\ ~Blocked(o)
           revives == handover /\ (open(a) => id[twin] < id[a])
           c1 == open(a) /\ (Blocked(o) \/ a[2] # mode)
           c2 == handover /\ r.status = "absent"
           c3 == revives /\ r.status = "cancelled"
           c4 == ~revives /\ a[2] = mode /\ open(a) /\ ~Blocked(o) /\ r.status = "cancelled"
<1>1. r \in AnyRow /\ twin \in Alerts /\ row[twin] \in AnyRow
  <2>1. Other(a[2]) \in Modes
    <3>1. \E n \in Modes : n # a[2]
      BY DEF Modes
    <3> QED
      BY <3>1 DEF Other
  <2> QED
    BY <2>1 DEF Shapes, Alerts
<1>2. CASE c1
  <2>1. ~c2 /\ ~c3 /\ ~c4
    BY <1>2 DEF Unfinished
  <2>2. Reconciled(batch, a) = Settle(r, "cancelled")
    BY <1>2, <2>1 DEF Reconciled
  <2> QED
    BY <1>1, <2>2, SettleSettles DEF Statuses
<1>3. CASE c2
  <2>1. ~c1 /\ ~c3 /\ ~c4
    BY <1>3
  <2>2. Reconciled(batch, a) =
          NewRow(IF row[twin].status = "failed" THEN "failed" ELSE "pending", row[twin].attempts)
    BY <1>3, <2>1 DEF Reconciled
  <2>3. row[twin].attempts \in Int
    BY <1>1 DEF AnyRow
  <2> QED
    BY <2>2, <2>3, NewRowIsTyped DEF Statuses
<1>4. CASE c3
  <2>1. ~c1 /\ ~c2 /\ ~c4
    BY <1>4
  <2>2. Reconciled(batch, a) = Settle(r, Revived(r.attempts))
    BY <1>4, <2>1 DEF Reconciled
  <2> QED
    BY <1>1, <2>2, SettleSettles, RevivedWaits
<1>5. CASE c4
  <2>1. ~c1 /\ ~c2 /\ ~c3
    BY <1>5
  <2>2. Reconciled(batch, a) = [Settle(r, Revived(r.attempts)) EXCEPT !.deferred = FALSE]
    BY <1>5, <2>1 DEF Reconciled
  <2>3. /\ Settle(r, Revived(r.attempts)) \in AnyRow
        /\ Settle(r, Revived(r.attempts)).status \in {"failed", "pending"}
    BY <1>1, SettleSettles, RevivedWaits
  <2> QED
    BY <2>2, <2>3 DEF AnyRow
<1>6. CASE ~c1 /\ ~c2 /\ ~c3 /\ ~c4
  <2>1. Reconciled(batch, a) = r
    BY <1>6 DEF Reconciled
  <2> QED
    BY <1>1, <2>1
<1> QED
  BY <1>2, <1>3, <1>4, <1>5, <1>6

(* What the answer of the mail server makes of a row. *)
LEMMA AnsweredSettles ==
    ASSUME NEW r \in AnyRow, NEW answer
    PROVE  /\ Answered(r, answer) \in AnyRow
           /\ Answered(r, answer).status \in {"sent", "cancelled", "pending", "failed"}
           /\ Answered(r, answer).status = "sent" <=> active /\ answer # "error"
           /\ ~active <=> Answered(r, answer).status = "cancelled"
<1>1. CASE ~active
  BY <1>1, SettleSettles DEF Answered, Statuses
<1>2. CASE active /\ answer = "error"
  <2>1. Answered(r, answer) = [Settle(r, Revived(r.attempts)) EXCEPT !.deferred = TRUE]
    BY <1>2 DEF Answered
  <2>2. /\ Settle(r, Revived(r.attempts)) \in AnyRow
        /\ Settle(r, Revived(r.attempts)).status \in {"failed", "pending"}
    BY SettleSettles, RevivedWaits
  <2> QED
    BY <1>2, <2>1, <2>2 DEF AnyRow
<1>3. CASE active /\ answer # "error"
  <2>1. Answered(r, answer) =
          [Settle(r, "sent") EXCEPT !.attempts = Settle(r, "sent").attempts - 1, !.deferred = FALSE]
    BY <1>3 DEF Answered
  <2>2. Settle(r, "sent") \in AnyRow /\ Settle(r, "sent").status = "sent"
    BY SettleSettles DEF Statuses
  <2> DEFINE n == Settle(r, "sent").attempts - 1
  <2>3. n \in Int
    BY <2>2 DEF AnyRow
  <2>4. Answered(r, answer) = [Settle(r, "sent") EXCEPT !.attempts = n, !.deferred = FALSE]
    BY <2>1
  <2> HIDE DEF n
  <2>5. Answered(r, answer) \in AnyRow /\ Answered(r, answer).status = "sent"
    BY <2>2, <2>3, <2>4 DEF AnyRow
  <2> QED
    BY <1>3, <2>5
<1> QED
  BY <1>1, <1>2, <1>3

----------------------------------------------------------------------------
(* Steps that claim nothing and record nothing as sent. *)

Kept(a) ==
    /\ row'[a].status = row[a].status /\ row'[a].by = row[a].by
    /\ row'[a].stale = row[a].stale

Lapses(a) ==
    /\ row[a].status = "processing" /\ row'[a].status = "processing"
    /\ row'[a].stale /\ row'[a].by = row[a].by
    /\ \A w \in Workers : ~(row[a].by = w /\ a \in worker[w].claims)

Withdrawn(a) == row'[a].status \notin {"processing", "sent"}

QuietRow(a) == row'[a] \in AnyRow /\ (Kept(a) \/ Lapses(a) \/ Withdrawn(a))

\* The workers go on with what they have.
SameWork ==
    /\ worker' \in [Workers -> WorkerRow]
    /\ \A w \in Workers : /\ worker'[w].pc = worker[w].pc
                          /\ worker'[w].claims = worker[w].claims
                          /\ worker'[w].answer = worker[w].answer

Quiet == /\ row' \in [Alerts -> AnyRow] /\ SameWork
         /\ \A a \in Alerts : QuietRow(a)

(* A change of some rows, each of which keeps, loses or has no claim. *)
LEMMA RowsAreQuiet ==
    ASSUME Shapes, UNCHANGED worker, NEW f, row' = [a \in Alerts |-> f[a]],
           \A a \in Alerts : f[a] \in AnyRow /\ (f[a] = row[a] \/ f[a].status \notin {"processing", "sent"})
    PROVE  Quiet
<1>1. SameWork
  BY DEF SameWork, Shapes
<1>2. \A a \in Alerts : QuietRow(a)
  BY DEF QuietRow, Kept, Withdrawn
<1> QED
  BY <1>1, <1>2 DEF Quiet

LEMMA SameRowsAreQuiet ==
    ASSUME Shapes, UNCHANGED <<row, worker>>
    PROVE  Quiet
BY DEF Shapes, Quiet, SameWork, QuietRow, Kept

\* The job is claimed, fails, is retried or replaced.
JobStep == NotionReady \/ RetryReconciliation \/ ClaimReconciliation \/ ReconcileFails

LEMMA JobStepsMoveNothing ==
    ASSUME JobStep
    PROVE  UNCHANGED <<active, mode, fitting, matched, row, id, receipt, worker>>
BY DEF JobStep, NotionReady, RetryReconciliation, ClaimReconciliation, ReconcileFails, prefs, rows

(* What the environment, the administrator and matching do. *)
LEMMA EnvironmentIsQuiet ==
    ASSUME Shapes, Environment
    PROVE  Quiet
<1>1. ASSUME NEW o \in Offers, QueueAlert(o) PROVE Quiet
  <2> DEFINE f == [row EXCEPT ![<<o, mode>>] = NewRow("pending", 0)]
  <2>1. f = [a \in Alerts |-> f[a]]
    BY DEF Shapes
  <2>2. NewRow("pending", 0) \in AnyRow /\ NewRow("pending", 0).status = "pending"
    BY NewRowIsTyped DEF Statuses
  <2>3. \A a \in Alerts : f[a] = row[a] \/ f[a] = NewRow("pending", 0)
    BY DEF Shapes
  <2>4. \A a \in Alerts : f[a] \in AnyRow /\ (f[a] = row[a] \/ f[a].status \notin {"processing", "sent"})
    BY <2>2, <2>3 DEF Shapes
  <2>5. row' = f /\ UNCHANGED worker
    BY <1>1 DEF QueueAlert
  <2> HIDE DEF f
  <2> QED
    BY <2>1, <2>4, <2>5, RowsAreQuiet
<1>2. ASSUME NEW o \in Offers, ChangeOffer(o) PROVE Quiet
  BY <1>2, SameRowsAreQuiet DEF ChangeOffer, rows
<1>3. ASSUME NEW m \in Modes, NEW fits \in SUBSET Offers, Activate(m, fits) PROVE Quiet
  BY <1>3, SameRowsAreQuiet DEF Activate, rows
<1>4. CASE Deactivate
  <2> DEFINE f == [a \in Alerts |-> IF row[a].status \in {"pending", "processing", "failed"}
                                      THEN Settle(row[a], "cancelled") ELSE row[a]]
  <2>1. ASSUME NEW a \in Alerts
        PROVE  f[a] \in AnyRow /\ (f[a] = row[a] \/ f[a].status \notin {"processing", "sent"})
    BY SettleSettles DEF Shapes, Statuses
  <2>2. row' = [a \in Alerts |-> f[a]] /\ UNCHANGED worker
    BY <1>4 DEF Deactivate
  <2> HIDE DEF f
  <2> QED
    BY <2>1, <2>2, RowsAreQuiet
<1>5. CASE Reactivate
  BY <1>5, SameRowsAreQuiet DEF Reactivate, rows
<1>6. ASSUME NEW a \in Alerts, AdminRetry(a) \/ PurgeSent(a) PROVE Quiet
  <2> DEFINE new == IF AdminRetry(a) THEN NewRow("pending", 0) ELSE AbsentRow
             f == [row EXCEPT ![a] = new]
  <2>1. new \in AnyRow /\ new.status \in {"pending", "absent"}
    <3>1. AbsentRow \in AnyRow /\ AbsentRow.status = "absent"
      BY DEF AbsentRow, AnyRow, Statuses
    <3>2. NewRow("pending", 0) \in AnyRow /\ NewRow("pending", 0).status = "pending"
      BY NewRowIsTyped DEF Statuses
    <3> QED
      BY <3>1, <3>2
  <2>2. row' = f /\ UNCHANGED worker
    BY <1>6 DEF AdminRetry, PurgeSent
  <2> HIDE DEF new
  <2>3. f = [b \in Alerts |-> f[b]] /\ \A b \in Alerts : f[b] = row[b] \/ f[b] = new
    BY DEF Shapes
  <2>4. \A b \in Alerts : f[b] \in AnyRow /\ (f[b] = row[b] \/ f[b].status \notin {"processing", "sent"})
    BY <2>1, <2>3 DEF Shapes
  <2> HIDE DEF f
  <2> QED
    BY <2>2, <2>3, <2>4, RowsAreQuiet
<1>7. CASE NotionReady \/ RetryReconciliation
  BY <1>7, JobStepsMoveNothing, SameRowsAreQuiet DEF JobStep
<1> QED
  BY <1>1, <1>2, <1>3, <1>4, <1>5, <1>6, <1>7 DEF Environment

LEMMA TimeIsQuiet ==
    ASSUME Shapes, TimePasses
    PROVE  Quiet
<1>1. CASE DigestHour
  BY <1>1, SameRowsAreQuiet DEF DigestHour, rows
<1>2. CASE NextDay
  <2>1. worker' = [w \in Workers |-> [worker[w] EXCEPT !.dated = FALSE]] /\ row' = row
    BY <1>2 DEF NextDay, rows
  <2>2. \A w \in Workers : worker[w] \in WorkerRow
    BY DEF Shapes
  <2>3. SameWork
    BY <2>1, <2>2 DEF SameWork, WorkerRow
  <2> QED
    BY <2>1, <2>3 DEF Quiet, QuietRow, Kept, Shapes
<1>3. ASSUME NEW a \in Alerts, ClaimStale(a) PROVE Quiet
  <2>1. /\ row' = [row EXCEPT ![a] = [row[a] EXCEPT !.stale = TRUE]] /\ UNCHANGED worker
        /\ row[a].status = "processing"
        /\ \A w \in Workers : ~(row[a].by = w /\ a \in worker[w].claims)
    BY <1>3 DEF ClaimStale
  <2>2. \A b \in Alerts : row[b] \in AnyRow
    BY DEF Shapes
  <2>3. row'[a] = [row[a] EXCEPT !.stale = TRUE] /\ \A b \in Alerts \ {a} : row'[b] = row[b]
    BY <2>1 DEF Shapes
  <2>4. row'[a] \in AnyRow /\ Lapses(a)
    <3>1. row'[a] \in AnyRow
      BY <2>2, <2>3 DEF AnyRow
    <3>2. row'[a].status = row[a].status /\ row'[a].by = row[a].by /\ row'[a].stale = TRUE
      BY <2>2, <2>3 DEF AnyRow
    <3> QED
      BY <2>1, <3>1, <3>2 DEF Lapses
  <2>5. row' \in [Alerts -> AnyRow]
    BY <2>1, <2>2, <2>3, <2>4 DEF Shapes
  <2> QED
    BY <2>1, <2>2, <2>3, <2>4, <2>5 DEF Quiet, QuietRow, Kept, SameWork, Shapes
<1>4. ASSUME NEW a \in Alerts, RetryDue(a) PROVE Quiet
  <2>1. row' = [row EXCEPT ![a] = [row[a] EXCEPT !.deferred = FALSE]] /\ UNCHANGED worker
    BY <1>4 DEF RetryDue
  <2>2. \A b \in Alerts : row[b] \in AnyRow
    BY DEF Shapes
  <2>3. row'[a] = [row[a] EXCEPT !.deferred = FALSE] /\ \A b \in Alerts \ {a} : row'[b] = row[b]
    BY <2>1 DEF Shapes
  <2>4. row'[a] \in AnyRow /\ Kept(a)
    BY <2>2, <2>3 DEF AnyRow, Kept
  <2>5. row' \in [Alerts -> AnyRow]
    BY <2>1, <2>2, <2>3, <2>4 DEF Shapes
  <2> QED
    BY <2>1, <2>2, <2>3, <2>4, <2>5 DEF Quiet, QuietRow, Kept, SameWork, Shapes
<1> QED
  BY <1>1, <1>2, <1>3, <1>4 DEF TimePasses

LEMMA QueueIsQuiet ==
    ASSUME Shapes,
           ReconcileBatch \/ (\E m \in Modes : FailExhausted(m))
             \/ \E w \in Workers, m \in Modes : FailTake(w, m)
    PROVE  Quiet
<1>1. CASE ReconcileBatch
  <2> DEFINE batch == First({a \in Created : row[a].status # "absent" /\ id[a] > rec.from})
             f == [a \in Alerts |-> Reconciled(batch, a)]
  <2>1. UNCHANGED worker /\ (UNCHANGED row \/ row' = [a \in Alerts |-> f[a]])
    BY <1>1 DEF ReconcileBatch
  <2>2. \A a \in Alerts : f[a] \in AnyRow /\ (f[a] = row[a] \/ f[a].status \notin {"processing", "sent"})
    BY ReconciledWaits
  <2> HIDE DEF f
  <2> QED
    BY <2>1, <2>2, RowsAreQuiet, SameRowsAreQuiet
<1>2. ASSUME NEW m \in Modes, FailExhausted(m) PROVE Quiet
  <2>1. PICK lost \in SUBSET Alerts :
          /\ row' = [a \in Alerts |-> IF a \in lost THEN Settle(row[a], "failed") ELSE row[a]]
          /\ UNCHANGED worker
    BY <1>2 DEF FailExhausted
  <2> DEFINE f == [a \in Alerts |-> IF a \in lost THEN Settle(row[a], "failed") ELSE row[a]]
  <2>2. \A a \in Alerts : f[a] \in AnyRow /\ (f[a] = row[a] \/ f[a].status \notin {"processing", "sent"})
    BY SettleSettles DEF Shapes, Statuses
  <2>3. row' = [a \in Alerts |-> f[a]] /\ UNCHANGED worker
    BY <2>1
  <2> HIDE DEF f
  <2> QED
    BY <2>2, <2>3, RowsAreQuiet
<1>3. ASSUME NEW w \in Workers, NEW m \in Modes, FailTake(w, m) PROVE Quiet
  <2>1. UNCHANGED worker /\ row' = Deferred(Batch(m))
    BY <1>3 DEF FailTake
  <2>2. Deferred(Batch(m)) = [a \in Alerts |-> Deferred(Batch(m))[a]]
    BY DEF Deferred
  <2>3. \A a \in Alerts :
          LET f == Deferred(Batch(m)) IN
          f[a] \in AnyRow /\ (f[a] = row[a] \/ f[a].status \notin {"processing", "sent"})
    <3>1. \A a \in Alerts :
            /\ Deferred(Batch(m))[a] \in AnyRow
            /\ \/ Deferred(Batch(m))[a] = row[a]
               \/ Deferred(Batch(m))[a].status \in {"pending", "failed"}
      BY DeferredWaits
    <3> QED
      BY <3>1
  <2> QED
    BY <2>1, <2>2, <2>3, RowsAreQuiet
<1> QED
  BY <1>1, <1>2, <1>3

----------------------------------------------------------------------------
(* The steps of a worker. *)

\* Rows that were free are claimed for one message.
Takes(w, C) ==
    /\ worker[w].pc = "idle" /\ C # {} /\ C \subseteq Alerts
    /\ worker' \in [Workers -> WorkerRow]
    /\ \A v \in Workers \ {w} : worker'[v] = worker[v]
    /\ worker'[w].pc = "sending" /\ worker'[w].claims = C
    /\ row' \in [Alerts -> AnyRow]
    /\ \A a \in C : /\ Available(a)
                    /\ row'[a].status = "processing" /\ row'[a].by = w /\ ~row'[a].stale
    /\ \A a \in Alerts \ C : \/ row'[a] = row[a]
                             \/ Available(a) /\ row'[a].status = "cancelled"

LEMMA TakeClaims ==
    ASSUME Shapes, NEW w \in Workers, NEW m \in Modes, Take(w, m)
    PROVE  Quiet \/ \E C \in SUBSET Alerts : Takes(w, C)
<1> DEFINE batch == Batch(m)
           C == {a \in batch : Eligible(a)}
<1>1. batch \subseteq Alerts /\ \A a \in batch : Available(a)
  BY DEF Batch, First
<1>2. row' = [a \in Alerts |-> Claimed(w, batch)[a]]
  BY DEF Take, Claimed
<1>3. ASSUME NEW a \in Alerts \ batch PROVE row'[a] = row[a] /\ row'[a] \in AnyRow
  <2>1. row'[a] = row[a]
    BY <1>2, <1>3 DEF Claimed
  <2> QED
    BY <2>1 DEF Shapes
<1>4. ASSUME NEW a \in batch \ C PROVE row'[a] \in AnyRow /\ row'[a].status = "cancelled"
  <2>1. row'[a] = Settle(row[a], "cancelled")
    BY <1>1, <1>2, <1>4 DEF Claimed
  <2> QED
    BY <1>1, <2>1, SettleSettles DEF Shapes, Statuses
<1>5. ASSUME NEW a \in C
      PROVE  row'[a] \in AnyRow /\ row'[a].status = "processing" /\ row'[a].by = w /\ ~row'[a].stale
  <2>1. row'[a] = [row[a] EXCEPT !.status = "processing", !.by = w, !.stale = FALSE,
                                 !.attempts = row[a].attempts + 1]
    BY <1>1, <1>2, <1>5 DEF Claimed
  <2>2. row[a] \in AnyRow
    BY <1>1 DEF Shapes
  <2> DEFINE n == row[a].attempts + 1
  <2>3. n \in Int
    BY <2>2 DEF AnyRow
  <2>4. row'[a] = [row[a] EXCEPT !.status = "processing", !.by = w, !.stale = FALSE, !.attempts = n]
    BY <2>1
  <2> HIDE DEF n
  <2>5. row'[a] \in AnyRow
    BY <2>2, <2>3, <2>4 DEF AnyRow, Statuses
  <2>6. row'[a].status = "processing" /\ row'[a].by = w /\ row'[a].stale = FALSE
    BY <2>2, <2>4 DEF AnyRow
  <2> QED
    BY <2>5, <2>6
<1> HIDE DEF batch
<1>6. row' \in [Alerts -> AnyRow]
  BY <1>2, <1>3, <1>4, <1>5
<1>7. CASE C = {}
  <2>1. UNCHANGED worker
    BY <1>7 DEF Take, batch
  <2>2. \A a \in Alerts : QuietRow(a)
    BY <1>3, <1>4, <1>7 DEF QuietRow, Kept, Withdrawn
  <2> QED
    BY <1>6, <2>1, <2>2 DEF Quiet, SameWork, Shapes
<1>8. CASE C # {}
  <2> DEFINE busy == [pc |-> "sending", mode |-> m, taken |-> batch, claims |-> C,
                      answer |-> "none", dated |-> TRUE]
  <2>1. worker' = [worker EXCEPT ![w] = busy] /\ worker[w].pc = "idle"
    BY <1>8 DEF Take, batch
  <2>2. busy \in WorkerRow
    BY <1>1 DEF WorkerRow
  <2>3. /\ worker' \in [Workers -> WorkerRow] /\ worker'[w] = busy
        /\ \A v \in Workers \ {w} : worker'[v] = worker[v]
    BY <2>1, <2>2 DEF Shapes
  <2>4. C \subseteq Alerts
    BY <1>1
  <2>5. \A a \in Alerts \ C : \/ row'[a] = row[a]
                              \/ Available(a) /\ row'[a].status = "cancelled"
    BY <1>1, <1>3, <1>4
  <2>6. Takes(w, C)
    BY <1>1, <1>5, <1>6, <1>8, <2>1, <2>3, <2>4, <2>5 DEF Takes
  <2> QED
    BY <2>4, <2>6
<1> QED
  BY <1>7, <1>8

\* The mail server has answered.
Answers(w, answer) ==
    /\ worker[w].pc = "sending" /\ UNCHANGED row
    /\ worker' \in [Workers -> WorkerRow]
    /\ \A v \in Workers \ {w} : worker'[v] = worker[v]
    /\ worker'[w].pc = "answered" /\ worker'[w].answer = answer
    /\ worker'[w].claims = worker[w].claims

LEMMA SendAnswers ==
    ASSUME Shapes, NEW w \in Workers, NEW answer \in {"ok", "error"}, Send(w, answer)
    PROVE  Answers(w, answer)
<1>1. /\ worker' = [worker EXCEPT ![w] = [worker[w] EXCEPT !.pc = "answered", !.answer = answer]]
      /\ worker[w].pc = "sending" /\ UNCHANGED row
  BY DEF Send, rows
<1>2. worker[w] \in WorkerRow
  BY DEF Shapes
<1>3. /\ worker'[w] = [worker[w] EXCEPT !.pc = "answered", !.answer = answer]
      /\ \A v \in Workers \ {w} : worker'[v] = worker[v]
  BY <1>1 DEF Shapes
<1>4. /\ worker'[w] \in WorkerRow
      /\ worker'[w].pc = "answered" /\ worker'[w].answer = answer
      /\ worker'[w].claims = worker[w].claims
  BY <1>2, <1>3 DEF WorkerRow
<1>5. worker' \in [Workers -> WorkerRow]
  BY <1>1, <1>3, <1>4 DEF Shapes
<1> QED
  BY <1>1, <1>3, <1>4, <1>5 DEF Answers

\* The worker is done with its claims; those in "own" it settles.
Finishes(w, own) ==
    /\ worker[w].pc # "idle"
    /\ worker' \in [Workers -> WorkerRow]
    /\ \A v \in Workers \ {w} : worker'[v] = worker[v]
    /\ worker'[w].pc = "idle" /\ worker'[w].claims = {}
    /\ row' \in [Alerts -> AnyRow]
    /\ own \subseteq {a \in worker[w].claims : Owns(w, a)}
    /\ own # {} => worker[w].pc = "answered"
    /\ \A a \in own : /\ row'[a].status # "processing"
                      /\ row'[a].status = "sent" <=> active /\ worker[w].answer # "error"
                      /\ ~active => row'[a].status = "cancelled"
    /\ \A a \in Alerts \ own :
         \/ row'[a] = row[a]
         \/ row[a].status = "pending" /\ row'[a].status \in {"pending", "failed"}

LEMMA LeaveIdles ==
    ASSUME Shapes, NEW w \in Workers, Leave(w)
    PROVE  /\ worker' \in [Workers -> WorkerRow]
           /\ \A v \in Workers \ {w} : worker'[v] = worker[v]
           /\ worker'[w].pc = "idle" /\ worker'[w].claims = {}
<1>1. IdleWorker \in WorkerRow /\ IdleWorker.pc = "idle" /\ IdleWorker.claims = {}
  BY DEF IdleWorker, WorkerRow, Modes
<1> QED
  BY <1>1 DEF Leave, Shapes

LEMMA WorkEnds ==
    ASSUME Shapes, NEW w \in Workers, Finalise(w) \/ FailFinalise(w) \/ Crash(w)
    PROVE  \E own \in SUBSET Alerts : Finishes(w, own)
<1>0. Leave(w) /\ worker[w].pc # "idle"
  BY DEF Finalise, FailFinalise, Crash
<1>1. CASE Finalise(w)
  <2> DEFINE own == {a \in worker[w].claims : Owns(w, a)}
  <2>1. /\ row' = [a \in Alerts |-> IF a \in own THEN Answered(row[a], worker[w].answer) ELSE row[a]]
        /\ worker[w].pc = "answered"
    BY <1>1 DEF Finalise
  <2>2. own \subseteq Alerts
    BY DEF Shapes, WorkerRow
  <2>3. ASSUME NEW a \in own
        PROVE  /\ row'[a] \in AnyRow
               /\ row'[a].status # "processing"
               /\ row'[a].status = "sent" <=> active /\ worker[w].answer # "error"
               /\ ~active => row'[a].status = "cancelled"
    <3>1. row'[a] = Answered(row[a], worker[w].answer) /\ row[a] \in AnyRow
      BY <2>1, <2>2 DEF Shapes
    <3> QED
      BY <3>1, AnsweredSettles
  <2>4. \A a \in Alerts \ own : row'[a] = row[a]
    BY <2>1
  <2>5. row' \in [Alerts -> AnyRow]
    BY <2>1, <2>3, <2>4 DEF Shapes
  <2>6. Finishes(w, own)
    BY <1>0, <2>1, <2>3, <2>4, <2>5, LeaveIdles DEF Finishes
  <2> QED
    BY <2>2, <2>6
<1>2. CASE FailFinalise(w)
  <2>1. row' = Deferred(worker[w].taken)
    BY <1>2 DEF FailFinalise
  <2>2. \A a \in Alerts : /\ row'[a] \in AnyRow
                          /\ \/ row'[a] = row[a]
                             \/ row[a].status = "pending" /\ row'[a].status \in {"pending", "failed"}
    BY <2>1, DeferredWaits
  <2>3. row' \in [Alerts -> AnyRow]
    BY <2>1, <2>2 DEF Deferred
  <2>4. Finishes(w, {})
    BY <1>0, <2>2, <2>3, LeaveIdles DEF Finishes
  <2> QED
    BY <2>4
<1>3. CASE Crash(w)
  <2>1. UNCHANGED row
    BY <1>3 DEF Crash, rows
  <2>2. Finishes(w, {})
    BY <1>0, <2>1, LeaveIdles DEF Finishes, Shapes
  <2> QED
    BY <2>2
<1> QED
  BY <1>1, <1>2, <1>3

(* Every step is one of these. *)
LEMMA Steps ==
    ASSUME Shapes, [Next]_vars
    PROVE  \/ Quiet
           \/ \E w \in Workers :
                \/ \E C \in SUBSET Alerts : Takes(w, C)
                \/ \E answer \in {"ok", "error"} : Answers(w, answer)
                \/ \E own \in SUBSET Alerts : Finishes(w, own)
<1>1. CASE Environment \/ TimePasses
  BY <1>1, EnvironmentIsQuiet, TimeIsQuiet
<1>2. CASE ReconcileBatch \/ \E m \in Modes : FailExhausted(m)
  BY <1>2, QueueIsQuiet
<1>3. ASSUME NEW w \in Workers, \E m \in Modes : FailTake(w, m) PROVE Quiet
  BY <1>3, QueueIsQuiet
<1>4. ASSUME NEW w \in Workers, NEW m \in Modes, Take(w, m)
      PROVE  Quiet \/ \E C \in SUBSET Alerts : Takes(w, C)
  BY <1>4, TakeClaims
<1>5. ASSUME NEW w \in Workers, NEW answer \in {"ok", "error"}, Send(w, answer)
      PROVE  Answers(w, answer)
  BY <1>5, SendAnswers
<1>6. ASSUME NEW w \in Workers, Finalise(w) \/ FailFinalise(w) \/ Crash(w)
      PROVE  \E own \in SUBSET Alerts : Finishes(w, own)
  BY <1>6, WorkEnds
<1>7. CASE ClaimReconciliation \/ ReconcileFails
  BY <1>7, JobStepsMoveNothing, SameRowsAreQuiet DEF JobStep
<1>8. CASE UNCHANGED vars
  BY <1>8, SameRowsAreQuiet DEF vars, rows
<1> QED
  BY <1>1, <1>2, <1>3, <1>4, <1>5, <1>6, <1>7, <1>8 DEF Next, Trouble, WorkerStep

----------------------------------------------------------------------------
(* The invariant. *)

LEMMA InitHolds == Init => Inv
<1> SUFFICES ASSUME Init PROVE Inv
  OBVIOUS
<1>1. AbsentRow \in AnyRow
  BY DEF AbsentRow, AnyRow, Statuses
<1>2. /\ IdleWorker \in WorkerRow
      /\ IdleWorker.pc = "idle" /\ IdleWorker.claims = {}
  BY DEF IdleWorker, WorkerRow, Modes
<1> QED
  BY <1>1, <1>2 DEF Init, Inv, Shapes, ClaimsSound

LEMMA QuietKeeps ==
    ASSUME Inv, Quiet
    PROVE  Inv'
<1>1. Shapes'
  BY DEF Quiet, SameWork, Shapes
<1>2. ASSUME NEW w \in Workers, NEW a \in worker'[w].claims, Owns(w, a)'
      PROVE  ~row'[a].stale
  <2>1. a \in worker[w].claims /\ a \in Alerts
    BY <1>2 DEF Inv, Shapes, WorkerRow, Quiet, SameWork
  <2>2. QuietRow(a) /\ row'[a].status = "processing" /\ row'[a].by = w
    BY <1>2, <2>1 DEF Quiet, Owns
  <2>3. Kept(a)
    BY <2>1, <2>2 DEF QuietRow, Lapses, Withdrawn
  <2>4. Owns(w, a) /\ row'[a].stale = row[a].stale
    BY <2>2, <2>3 DEF Kept, Owns
  <2> QED
    BY <2>1, <2>4 DEF Inv, ClaimsSound
<1>3. ClaimsSound'
  BY <1>2 DEF ClaimsSound, Inv, Quiet, SameWork
<1> QED
  BY <1>1, <1>3 DEF Inv

LEMMA TakesKeeps ==
    ASSUME Inv, NEW w \in Workers, NEW C \in SUBSET Alerts, Takes(w, C)
    PROVE  Inv'
<1>1. Shapes'
  BY DEF Takes, Shapes
<1>2. ASSUME NEW v \in Workers
      PROVE  /\ worker'[v].pc = "idle" <=> worker'[v].claims = {}
             /\ worker'[v].pc = "answered" => worker'[v].answer \in {"ok", "error"}
             /\ \A a \in worker'[v].claims : Owns(v, a)' => ~row'[a].stale
  <2>1. CASE v = w
    BY <2>1 DEF Takes
  <2>2. CASE v # w
    <3>1. worker'[v] = worker[v] /\ worker[v].claims \subseteq Alerts
      BY <2>2 DEF Takes, Inv, Shapes, WorkerRow
    <3>2. ASSUME NEW a \in worker[v].claims, Owns(v, a)' PROVE row'[a] = row[a]
      BY <2>2, <3>1, <3>2 DEF Takes, Owns
    <3> QED
      BY <3>1, <3>2 DEF Inv, ClaimsSound, Owns
  <2> QED
    BY <2>1, <2>2
<1> QED
  BY <1>1, <1>2 DEF Inv, ClaimsSound

LEMMA AnswersKeeps ==
    ASSUME Inv, NEW w \in Workers, NEW answer \in {"ok", "error"}, Answers(w, answer)
    PROVE  Inv'
<1>1. Shapes'
  BY DEF Answers, Inv, Shapes
<1>2. ASSUME NEW v \in Workers
      PROVE  /\ worker'[v].pc = "idle" <=> worker'[v].claims = {}
             /\ worker'[v].pc = "answered" => worker'[v].answer \in {"ok", "error"}
             /\ \A a \in worker'[v].claims : Owns(v, a)' => ~row'[a].stale
  <2>1. worker'[v].claims = worker[v].claims /\ UNCHANGED row
    BY DEF Answers
  <2>2. \A a \in worker'[v].claims : Owns(v, a)' => ~row'[a].stale
    BY <2>1 DEF Inv, ClaimsSound, Owns
  <2> QED
    BY <2>1, <2>2 DEF Answers, Inv, ClaimsSound
<1> QED
  BY <1>1, <1>2 DEF Inv, ClaimsSound

LEMMA EndsKeeps ==
    ASSUME Inv, NEW w \in Workers, NEW own \in SUBSET Alerts, Finishes(w, own)
    PROVE  Inv'
<1>1. Shapes'
  BY DEF Finishes, Shapes
<1>2. ASSUME NEW v \in Workers
      PROVE  /\ worker'[v].pc = "idle" <=> worker'[v].claims = {}
             /\ worker'[v].pc = "answered" => worker'[v].answer \in {"ok", "error"}
             /\ \A a \in worker'[v].claims : Owns(v, a)' => ~row'[a].stale
  <2>1. CASE v = w
    BY <2>1 DEF Finishes
  <2>2. CASE v # w
    <3>1. worker'[v] = worker[v] /\ worker[v].claims \subseteq Alerts
      BY <2>2 DEF Finishes, Inv, Shapes, WorkerRow
    <3>2. ASSUME NEW a \in worker[v].claims, Owns(v, a)' PROVE row'[a] = row[a]
      BY <3>1, <3>2 DEF Finishes, Owns
    <3> QED
      BY <3>1, <3>2 DEF Inv, ClaimsSound, Owns
  <2> QED
    BY <2>1, <2>2
<1> QED
  BY <1>1, <1>2 DEF Inv, ClaimsSound

LEMMA InvStep ==
    ASSUME Inv, [Next]_vars
    PROVE  Inv'
<1>1. Shapes
  BY DEF Inv
<1> QED
  BY <1>1, Steps, QuietKeeps, TakesKeeps, AnswersKeeps, EndsKeeps

(* Rows and workers keep their types, a worker has claims exactly while it is busy,
   and a claim that is still the row's has not gone stale. *)
THEOREM Invariant == Spec => []Inv
<1>1. Inv /\ [Next]_vars => Inv'
  BY InvStep
<1> QED
  BY InitHolds, <1>1, PTL DEF Spec

----------------------------------------------------------------------------
(* Disabled accounts. *)

Quiescent == {"absent", "sent", "cancelled"}

LEMMA DisabledStep ==
    ASSUME Inv, DisabledHasNoWork, [Next]_vars
    PROVE  DisabledHasNoWork'
<1>0. Shapes /\ \A a \in Alerts : row[a] \in AnyRow
  BY DEF Inv, Shapes
<1>1. CASE Deactivate
  <2> SUFFICES ASSUME NEW a \in Alerts PROVE row'[a].status \in Quiescent
    BY DEF DisabledHasNoWork, Quiescent
  <2>1. CASE row[a].status \in {"pending", "processing", "failed"}
    <3>1. row'[a] = Settle(row[a], "cancelled")
      BY <1>1, <2>1 DEF Deactivate
    <3> QED
      BY <1>0, <3>1, SettleSettles DEF Quiescent, Statuses
  <2>2. CASE row[a].status \notin {"pending", "processing", "failed"}
    <3>1. row'[a] = row[a]
      BY <1>1, <2>2 DEF Deactivate
    <3> QED
      BY <1>0, <2>2, <3>1 DEF AnyRow, Statuses, Quiescent
  <2> QED
    BY <2>1, <2>2
<1>2. CASE ~active /\ ~Reactivate /\ ~Deactivate
  <2> SUFFICES ASSUME NEW a \in Alerts PROVE row'[a].status \in Quiescent
    BY DEF DisabledHasNoWork, Quiescent
  <2>1. \A b \in Alerts : row[b].status \in Quiescent
    BY <1>2 DEF DisabledHasNoWork, Quiescent
  <2>2. CASE UNCHANGED row
    BY <2>1, <2>2
  <2>3. ASSUME NEW b \in Alerts, PurgeSent(b) PROVE row'[a].status \in Quiescent
    <3>1. row' = [row EXCEPT ![b] = AbsentRow] /\ AbsentRow.status = "absent"
      BY <2>3 DEF PurgeSent, AbsentRow
    <3> QED
      BY <1>0, <2>1, <3>1 DEF Shapes, Quiescent
  <2>4. \A b \in Alerts : ~AdminRetry(b) /\ ~ClaimStale(b)
    BY <2>1 DEF AdminRetry, ClaimStale, Quiescent
  <2>5. ASSUME NEW b \in Alerts, RetryDue(b) PROVE row'[a].status \in Quiescent
    <3>1. row' = [row EXCEPT ![b] = [row[b] EXCEPT !.deferred = FALSE]]
      BY <2>5 DEF RetryDue
    <3>2. [row[b] EXCEPT !.deferred = FALSE].status = row[b].status
      BY <1>0 DEF AnyRow
    <3> QED
      BY <1>0, <2>1, <3>1, <3>2 DEF Shapes
  <2>6. \A S : \A b \in First(S) : b \in S
    BY DEF First
  <2>7. \A m \in Modes : Batch(m) = {}
    BY <2>1, <2>6 DEF Batch, Available, Quiescent
  <2>8. \A w \in Workers, m \in Modes : ~Take(w, m) /\ ~FailTake(w, m)
    BY <2>7 DEF Take, FailTake
  <2>9. ASSUME NEW w \in Workers, Finalise(w) \/ FailFinalise(w) \/ Crash(w)
        PROVE  row'[a].status \in Quiescent
    <3>1. PICK own \in SUBSET Alerts : Finishes(w, own)
      BY <1>0, <2>9, WorkEnds
    <3>2. own = {}
      BY <2>1, <3>1 DEF Finishes, Owns, Quiescent
    <3> QED
      BY <2>1, <3>1, <3>2 DEF Finishes, Quiescent
  <2>10. \A m \in Modes : ~FailExhausted(m)
    BY <2>1 DEF FailExhausted, Quiescent
  <2>11. CASE ReconcileBatch
    BY <1>2, <2>2, <2>11 DEF ReconcileBatch
  <2>12. ASSUME NEW w \in Workers, NEW answer, Send(w, answer) PROVE UNCHANGED row
    BY <2>12 DEF Send, rows
  <2>13. /\ \A o \in Offers : ~QueueAlert(o)
         /\ \A m \in Modes, fits \in SUBSET Offers : ~Activate(m, fits)
    BY <1>2 DEF QueueAlert, Activate
  <2>14. ASSUME NEW o \in Offers, ChangeOffer(o) PROVE UNCHANGED row
    BY <2>14 DEF ChangeOffer, rows
  <2>15. CASE DigestHour \/ NextDay \/ UNCHANGED vars
    BY <2>2, <2>15 DEF DigestHour, NextDay, rows, vars
  <2>16. CASE JobStep
    BY <2>2, <2>16, JobStepsMoveNothing
  <2> QED
    BY <1>2, <2>2, <2>3, <2>4, <2>5, <2>8, <2>9, <2>10, <2>11, <2>12, <2>13, <2>14, <2>15, <2>16
    DEF Next, Environment, TimePasses, Trouble, WorkerStep, JobStep
<1>3. CASE active /\ ~Deactivate
  <2>1. active'
    BY <1>3, JobStepsMoveNothing DEF JobStep, Next, Environment, TimePasses, Trouble, WorkerStep, vars, prefs, QueueAlert,
      ChangeOffer, Activate, Reactivate, AdminRetry, PurgeSent, DigestHour, NextDay, ClaimStale,
      RetryDue, ReconcileBatch, FailExhausted, FailTake, Take, Send, Finalise, FailFinalise, Crash
  <2> QED
    BY <2>1 DEF DisabledHasNoWork
<1>4. CASE Reactivate
  BY <1>4 DEF Reactivate, DisabledHasNoWork
<1> QED
  BY <1>1, <1>2, <1>3, <1>4

(* A disabled account has no alert waiting, under way or failed, whatever was in
   flight when it was disabled. *)
THEOREM DisabledIsQuiescent == Spec => []DisabledHasNoWork
<1>1. Init => DisabledHasNoWork
  BY DEF Init, DisabledHasNoWork
<1>2. Inv /\ DisabledHasNoWork /\ [Next]_vars => DisabledHasNoWork'
  BY DisabledStep
<1> QED
  BY Invariant, <1>1, <1>2, PTL DEF Spec

----------------------------------------------------------------------------
(* Refinement. *)

LEMMA QuietRefines ==
    ASSUME Inv, Quiet
    PROVE  Queue!Next
<1> DEFINE S == {a \in Alerts : Claimant'[a] # Claimant[a] \/ (a \in Sent /\ a \notin Sent')}
<1>1. InHand' = InHand /\ Accepted' = Accepted
  BY DEF Quiet, SameWork, InHand, Accepted
<1>2. ASSUME NEW a \in Alerts
      PROVE  /\ Claimant'[a] \in {Claimant[a], Nobody}
             /\ a \in Sent' => a \in Sent /\ Claimant'[a] = Claimant[a]
             /\ a \in Sent /\ a \notin Sent' => Claimant'[a] = Nobody
  <2>1. QuietRow(a)
    BY DEF Quiet
  <2>2. CASE Kept(a)
    BY <2>2 DEF Kept, Claimant, Sent
  <2>3. CASE Lapses(a)
    BY <2>3 DEF Lapses, Claimant, Sent
  <2>4. CASE Withdrawn(a)
    BY <2>4 DEF Withdrawn, Claimant, Sent
  <2> QED
    BY <2>1, <2>2, <2>3, <2>4 DEF QuietRow
<1>3. Claimant' = [a \in Alerts |-> IF a \in S THEN Nobody ELSE Claimant[a]]
  <2>1. Claimant' = [a \in Alerts |-> Claimant'[a]]
    BY DEF Claimant
  <2>2. ASSUME NEW a \in Alerts
        PROVE  Claimant'[a] = IF a \in S THEN Nobody ELSE Claimant[a]
    BY <1>2
  <2> QED
    BY <2>1, <2>2
<1>4. Sent' = Sent \ S
  <2>1. Sent \subseteq Alerts /\ Sent' \subseteq Alerts
    BY DEF Sent
  <2>2. ASSUME NEW a \in Alerts PROVE a \in Sent' <=> a \in Sent /\ a \notin S
    BY <1>2
  <2> QED
    BY <2>1, <2>2
<1>5. S \in SUBSET Alerts
  OBVIOUS
<1>6. Queue!Withdraw(S)
  BY <1>1, <1>3, <1>4 DEF Queue!Withdraw
<1> QED
  BY <1>5, <1>6 DEF Queue!Next

LEMMA TakesRefines ==
    ASSUME Inv, NEW w \in Workers, NEW C \in SUBSET Alerts, Takes(w, C)
    PROVE  Queue!Next
<1>1. \A a \in Alerts : Available(a) => Claimant[a] = Nobody /\ a \notin Sent
  BY DEF Available, Claimant, Sent
<1>2. InHand[w] = {} /\ C # {} /\ C \cap Sent = {} /\ \A a \in C : Claimant[a] = Nobody
  BY <1>1 DEF Takes, InHand, Inv, ClaimsSound
<1>3. Claimant' = [a \in Alerts |-> IF a \in C THEN w ELSE Claimant[a]]
  <2>1. ASSUME NEW a \in C PROVE Claimant'[a] = w
    BY <2>1 DEF Takes, Claimant
  <2>2. ASSUME NEW a \in Alerts \ C PROVE Claimant'[a] = Claimant[a]
    BY <1>1, <2>2 DEF Takes, Claimant
  <2>3. Claimant' = [a \in Alerts |-> Claimant'[a]]
    BY DEF Claimant
  <2> QED
    BY <2>1, <2>2, <2>3
<1>4. Sent' = Sent
  <2>1. ASSUME NEW a \in Alerts PROVE a \in Sent' <=> a \in Sent
    BY <1>1 DEF Takes, Sent
  <2> QED
    BY <2>1 DEF Sent
<1>5. InHand' = [InHand EXCEPT ![w] = C] /\ Accepted' = Accepted
  BY DEF Takes, InHand, Accepted
<1>6. Queue!Claim(w, C)
  BY <1>2, <1>3, <1>4, <1>5 DEF Queue!Claim
<1> QED
  BY <1>6 DEF Queue!Next

LEMMA AnswersRefines ==
    ASSUME Inv, NEW w \in Workers, NEW answer \in {"ok", "error"}, Answers(w, answer)
    PROVE  [Queue!Next]_(Queue!vars)
<1>1. Claimant' = Claimant /\ Sent' = Sent
  BY DEF Answers, Claimant, Sent
<1>2. InHand' = InHand /\ InHand[w] # {}
  BY DEF Answers, InHand, Inv, ClaimsSound
<1>3. CASE answer = "ok"
  <2>1. Accepted' = Accepted \cup {w} /\ w \notin Accepted
    BY <1>3 DEF Answers, Accepted
  <2>2. Queue!Answer(w)
    BY <1>1, <1>2, <2>1 DEF Queue!Answer
  <2> QED
    BY <2>2 DEF Queue!Next
<1>4. CASE answer = "error"
  <2>1. Accepted' = Accepted
    BY <1>4 DEF Answers, Accepted
  <2> QED
    BY <1>1, <1>2, <2>1 DEF Queue!vars
<1> QED
  BY <1>3, <1>4

LEMMA EndsRefines ==
    ASSUME Inv, NEW w \in Workers, NEW own \in SUBSET Alerts, Finishes(w, own)
    PROVE  Queue!Next
<1> DEFINE D == {a \in own : row'[a].status = "sent"}
<1>1. InHand' = [InHand EXCEPT ![w] = {}] /\ Accepted' = Accepted \ {w}
  BY DEF Finishes, InHand, Accepted
<1>2. own \subseteq InHand[w] /\ \A a \in own : Claimant[a] = w /\ a \notin Sent
  <2>1. \A a \in own : a \in worker[w].claims /\ Owns(w, a)
    BY DEF Finishes
  <2> QED
    BY <2>1 DEF InHand, Inv, ClaimsSound, Owns, Claimant, Sent
<1>3. D # {} => w \in Accepted
  <2>1. ASSUME D # {} PROVE worker[w].pc = "answered" /\ worker[w].answer # "error"
    BY <2>1 DEF Finishes
  <2> QED
    BY <2>1 DEF Accepted, Inv, ClaimsSound
<1>4. Claimant' = [a \in Alerts |-> IF a \in own THEN Nobody ELSE Claimant[a]]
  <2>1. ASSUME NEW a \in own PROVE Claimant'[a] = Nobody
    BY <2>1 DEF Finishes, Claimant
  <2>2. ASSUME NEW a \in Alerts \ own PROVE Claimant'[a] = Claimant[a]
    BY <2>2 DEF Finishes, Claimant
  <2>3. Claimant' = [a \in Alerts |-> Claimant'[a]]
    BY DEF Claimant
  <2> QED
    BY <2>1, <2>2, <2>3
<1>5. Sent' = Sent \cup D
  <2>1. ASSUME NEW a \in own PROVE a \in Sent' <=> a \in D
    BY <2>1 DEF Sent
  <2>2. ASSUME NEW a \in Alerts \ own PROVE a \in Sent' <=> a \in Sent
    BY <2>2 DEF Finishes, Sent
  <2>3. Sent \subseteq Alerts /\ Sent' \subseteq Alerts /\ D \subseteq own
    BY DEF Sent
  <2> QED
    BY <1>2, <2>1, <2>2, <2>3
<1>6. own \in SUBSET InHand[w] /\ D \in SUBSET own /\ D \subseteq own \cap Queue!Held(w)
  BY <1>2 DEF Queue!Held
<1> HIDE DEF D
<1>7. Queue!Finish(w, own, D)
  BY <1>1, <1>3, <1>4, <1>5, <1>6 DEF Queue!Finish
<1> QED
  BY <1>6, <1>7 DEF Queue!Next

(* An alert is recorded as sent only by the worker that holds its claim, after its
   message was accepted. *)
THEOREM ImplementsOutbox == Spec => OutboxSpec
<1>1. Init => Queue!Init
  BY DEF Init, Queue!Init, Claimant, InHand, Accepted, Sent, AbsentRow, IdleWorker
<1>2. Inv /\ [Next]_vars => [Queue!Next]_(Queue!vars)
  <2> SUFFICES ASSUME Inv, [Next]_vars PROVE [Queue!Next]_(Queue!vars)
    OBVIOUS
  <2>1. Shapes
    BY DEF Inv
  <2> QED
    BY <2>1, Steps, QuietRefines, TakesRefines, AnswersRefines, EndsRefines
<1> QED
  BY Invariant, <1>1, <1>2, PTL DEF Spec, OutboxSpec, Queue!Spec
----------------------------------------------------------------------------
(* Reconciliation resumes what was left unsent, in batches of any size.     *)
(*                                                                          *)
(* Until the job has ended, an offer whose alert it has still to move has a *)
(* row beyond the cursor (Covered), unless an activation or a destination   *)
(* left it out; so nothing is left when no row is.  The rows a batch takes  *)
(* are all those from the cursor of its claim up to its last, and that is   *)
(* the cursor of the job, or the job was replaced and starts over (InStep). *)
(* One row of an offer in the batch is enough for the alert to be moved,    *)
(* whichever of its two rows that is and whatever becomes of the other.     *)

Present(a) == row[a].status # "absent"
Waits(a) == row[a].status \in {"pending", "processing", "failed"}

Job == [status : {"none", "pending", "processing", "failed"}, cursor : Nat,
        running : BOOLEAN, from : Nat]

InStep == rec.running => IF Replaced THEN rec.cursor = 0 ELSE rec.from = rec.cursor

Placed ==
    /\ mode \in Modes /\ matched \subseteq Offers
    /\ id \in [Alerts -> Nat] /\ rec \in Job /\ InStep
    /\ \A a \in Alerts : Present(a) => id[a] # 0

Recorded == \A o \in matched : Delivered(o) \/ \E m \in Modes : Present(<<o, m>>)

Covered ==
    active => \A o \in (matched \cap fitting) \ skipped :
                Delivered(o) \/ Waits(<<o, mode>>) \/ Ahead(o)

\* The code remembers the offers it queued, not those that were closed meanwhile: a
\* reconciliation is not started over by an offer that reopens.
OffersStay == "offers" \notin Producers

Resumption == Placed /\ Recorded /\ (OffersStay => Covered)

(* The rows, and so every set of them, are finite in number. *)
LEMMA RowsAreFinite ==
    ASSUME NEW S \in SUBSET Alerts
    PROVE  IsFiniteSet(S) /\ Cardinality(S) \in Nat
<1>1. IsFiniteSet(Modes)
  <2>1. IsFiniteSet({"immediate"} \cup {"daily_digest"})
    BY FS_Singleton, FS_AddElement
  <2> QED
    BY <2>1 DEF Modes
<1>2. IsFiniteSet(Alerts)
  BY <1>1, AlertDeliveryAssumption, FS_Product DEF Alerts
<1>3. IsFiniteSet(S)
  BY <1>2, FS_Subset
<1> QED
  BY <1>3, FS_CardinalityType

(* Every set of naturals that is not empty has a least element. *)
LEMMA LeastElement ==
    ASSUME NEW S \in SUBSET Nat, S # {}
    PROVE  \E x \in S : \A y \in S : x <= y
<1>1. PICK x \in S : \A y \in S : ~ (<<y, x>> \in OpToRel(<, Nat))
  BY NatLessThanWellFounded, WFMin, Zenon
<1>2. \A y \in S : ~(y < x)
  BY <1>1 DEF OpToRel
<1> QED
  BY <1>2

(* A batch is empty only when nothing is left, and leaves out no row before its last. *)
LEMMA BatchesHaveNoGaps ==
    ASSUME NEW S \in SUBSET Alerts, id \in [Alerts -> Nat]
    PROVE  /\ S # {} => First(S) # {}
           /\ \A last \in First(S), a \in S : id[a] <= id[last] => a \in First(S)
<1> DEFINE before(a) == {b \in S : id[b] < id[a]}
<1>1. ASSUME S # {} PROVE First(S) # {}
  <2> DEFINE ids == {id[a] : a \in S}
  <2>1. ids \in SUBSET Nat /\ ids # {}
    BY <1>1
  <2>2. PICK x \in ids : \A y \in ids : x <= y
    BY <2>1, LeastElement
  <2>3. PICK a \in S : id[a] = x
    BY <2>2
  <2>4. \A b \in S : ~(id[b] < id[a])
    <3>1. \A b \in S : id[b] \in Nat /\ x <= id[b]
      BY <2>2
    <3> QED
      BY <2>3, <3>1
  <2>5. Cardinality(before(a)) < BatchSize
    <3>1. before(a) = {}
      BY <2>4
    <3> QED
      BY <3>1, FS_EmptySet, AlertDeliveryAssumption
  <2> QED
    BY <2>3, <2>5 DEF First
<1>2. ASSUME NEW last \in First(S), NEW a \in S, id[a] <= id[last] PROVE a \in First(S)
  <2>1. last \in S /\ Cardinality(before(last)) < BatchSize
    BY DEF First
  <2>2. before(a) \subseteq before(last) /\ before(last) \subseteq Alerts
    BY <1>2, <2>1
  <2>3. /\ IsFiniteSet(before(last)) /\ Cardinality(before(last)) \in Nat
        /\ Cardinality(before(a)) \in Nat
    BY <2>2, RowsAreFinite
  <2>4. Cardinality(before(a)) <= Cardinality(before(last))
    BY <2>2, <2>3, FS_Subset
  <2>5. Cardinality(before(a)) < BatchSize
    BY <2>1, <2>3, <2>4, AlertDeliveryAssumption
  <2> QED
    BY <2>5 DEF First
<1> QED
  BY <1>1, <1>2

\* No row appears or starts to wait, and only rows that waited are sent.
StartsNothing ==
    /\ UNCHANGED <<mode, matched, rec, skipped, id>>
    /\ receipt' \subseteq receipt \cup {a[1] : a \in Sent}
    /\ \A a \in Alerts : /\ Present(a)' => Present(a)
                         /\ Waits(a)' => Waits(a)
                         /\ row'[a].status = "sent" => row[a].status = "sent" \/ Waits(a)

\* Rows are worked on: none disappears unless it was sent, and the alert of an offer
\* the subscriber is to hear of waits until it is sent.
WorkedOn(a) ==
    /\ row[a].status = "sent" => row'[a].status = "sent" \/ a[1] \in receipt'
    /\ Present(a) => Present(a)' \/ a[1] \in receipt'
    /\ Eligible(a) /\ Waits(a) => Waits(a)' \/ row'[a].status = "sent"

Works ==
    /\ StartsNothing
    /\ UNCHANGED <<active, fitting>>
    /\ receipt \subseteq receipt'
    /\ \A a \in Alerts : WorkedOn(a)

LEMMA AlertOf ==
    ASSUME NEW o \in Offers, NEW m \in Modes
    PROVE  <<o, m>> \in Alerts /\ <<o, m>>[1] = o /\ <<o, m>>[2] = m
BY DEF Alerts

LEMMA WorksKeeps ==
    ASSUME Resumption, Works
    PROVE  Resumption'
<1>1. Placed'
  BY DEF Resumption, Placed, InStep, Replaced, Works, StartsNothing
<1>2. ASSUME NEW o \in Offers, Delivered(o) PROVE Delivered(o)'
  BY <1>2, AlertOf DEF Delivered, Works, WorkedOn
<1>3. ASSUME NEW o \in Offers, NEW m \in Modes, Present(<<o, m>>)
      PROVE  Present(<<o, m>>)' \/ Delivered(o)'
  BY <1>3, AlertOf DEF Delivered, Works, WorkedOn
<1>4. Recorded'
  <2> SUFFICES ASSUME NEW o \in matched PROVE Delivered(o)' \/ \E m \in Modes : Present(<<o, m>>)'
    BY DEF Recorded, Works, StartsNothing
  <2> QED
    BY <1>2, <1>3 DEF Resumption, Placed, Recorded
<1>5. ASSUME OffersStay PROVE Covered'
  <2> SUFFICES ASSUME active, NEW o \in (matched \cap fitting) \ skipped
               PROVE  Delivered(o)' \/ Waits(<<o, mode>>)' \/ Ahead(o)'
    BY DEF Covered, Works, StartsNothing
  <2>1. o \in Offers /\ mode \in Modes /\ UNCHANGED <<rec, id>>
    BY DEF Resumption, Placed, Works, StartsNothing
  <2>2. CASE Delivered(o)
    BY <1>2, <2>1, <2>2
  <2>3. CASE Waits(<<o, mode>>)
    <3>1. Eligible(<<o, mode>>) /\ WorkedOn(<<o, mode>>)
      BY <2>1, AlertOf DEF Eligible, Works
    <3> QED
      BY <2>1, <2>3, <3>1 DEF WorkedOn, Delivered, Works
  <2>4. CASE Ahead(o)
    <3>1. PICK m \in Modes : Present(<<o, m>>) /\ id[<<o, m>>] > rec.cursor
      BY <2>4 DEF Ahead, Present
    <3> QED
      BY <1>3, <2>1, <2>4, <3>1 DEF Ahead, Present
  <2> QED
    BY <1>5, <2>2, <2>3, <2>4 DEF Resumption, Covered
<1> QED
  BY <1>1, <1>4, <1>5 DEF Resumption

(* Rows that waited wait still, were sent, or are not to be sent. *)
LEMMA RowsAreWorkedOn ==
    ASSUME UNCHANGED <<active, mode, fitting, matched, rec, skipped, id, receipt>>,
           \A a \in Alerts :
             \/ row'[a].status = row[a].status
             \/ /\ Waits(a)
                /\ row'[a].status \in {"pending", "processing", "failed", "sent", "cancelled"}
                /\ row'[a].status = "cancelled" => ~Eligible(a)
    PROVE  Works
<1>1. \A a \in Alerts : WorkedOn(a)
  BY DEF WorkedOn, Present, Waits
<1>2. StartsNothing
  BY DEF StartsNothing, Present, Waits
<1> QED
  BY <1>1, <1>2 DEF Works

LEMMA OthersWork ==
    ASSUME Shapes,
           TimePasses \/ (\E a \in Alerts : AdminRetry(a) \/ PurgeSent(a))
             \/ (\E m \in Modes : FailExhausted(m)) \/ UNCHANGED vars
    PROVE  Works
<1>1. CASE DigestHour \/ NextDay \/ UNCHANGED vars
  BY <1>1, RowsAreWorkedOn DEF DigestHour, NextDay, vars, prefs, rows, job
<1>2. ASSUME NEW a \in Alerts, ClaimStale(a) \/ RetryDue(a) PROVE Works
  <2>1. \A r \in AnyRow : /\ [r EXCEPT !.stale = TRUE].status = r.status
                          /\ [r EXCEPT !.deferred = FALSE].status = r.status
    BY DEF AnyRow
  <2>2. \/ row' = [row EXCEPT ![a] = [row[a] EXCEPT !.stale = TRUE]]
        \/ row' = [row EXCEPT ![a] = [row[a] EXCEPT !.deferred = FALSE]]
    BY <1>2 DEF ClaimStale, RetryDue
  <2>3. \A b \in Alerts : row'[b].status = row[b].status
    BY <2>1, <2>2 DEF Shapes
  <2>4. UNCHANGED <<active, mode, fitting, matched, rec, skipped, id, receipt>>
    BY <1>2 DEF ClaimStale, RetryDue, prefs, job
  <2> QED
    BY <2>3, <2>4, RowsAreWorkedOn
<1>3. ASSUME NEW a \in Alerts, AdminRetry(a) PROVE Works
  <2>1. NewRow("pending", 0).status = "pending"
    BY NewRowIsTyped DEF Statuses
  <2>2. row' = [row EXCEPT ![a] = NewRow("pending", 0)] /\ Waits(a)
    BY <1>3 DEF AdminRetry, Waits
  <2>3. \A b \in Alerts : row'[b] = row[b] \/ (b = a /\ row'[b] = NewRow("pending", 0))
    BY <2>2 DEF Shapes
  <2>4. UNCHANGED <<active, mode, fitting, matched, rec, skipped, id, receipt>>
    BY <1>3 DEF AdminRetry, prefs, job
  <2> QED
    BY <2>1, <2>2, <2>3, <2>4, RowsAreWorkedOn
<1>4. ASSUME NEW a \in Alerts, PurgeSent(a) PROVE Works
  <2>1. /\ row' = [row EXCEPT ![a] = AbsentRow] /\ receipt' = receipt \cup {a[1]}
        /\ row[a].status = "sent"
        /\ UNCHANGED <<active, mode, fitting, matched, rec, skipped, id>>
    BY <1>4 DEF PurgeSent, prefs, job
  <2>2. \A b \in Alerts : row'[b] = row[b] \/ (b = a /\ row'[b] = AbsentRow)
    BY <2>1 DEF Shapes
  <2>3. \A b \in Alerts : WorkedOn(b)
    BY <2>1, <2>2 DEF WorkedOn, Present, Waits, AbsentRow
  <2>4. StartsNothing
    BY <2>1, <2>2 DEF StartsNothing, Present, Waits, AbsentRow, Sent
  <2> QED
    BY <2>1, <2>3, <2>4 DEF Works
<1>5. ASSUME NEW m \in Modes, FailExhausted(m) PROVE Works
  <2>1. PICK lost \in SUBSET Alerts :
          /\ row' = [a \in Alerts |-> IF a \in lost THEN Settle(row[a], "failed") ELSE row[a]]
          /\ \A a \in lost : row[a].status = "processing"
          /\ UNCHANGED <<active, mode, fitting, matched, rec, skipped, id, receipt>>
    BY <1>5 DEF FailExhausted, prefs, job
  <2>2. ASSUME NEW a \in Alerts
        PROVE  row'[a] = row[a] \/ (Waits(a) /\ row'[a].status = "failed")
    BY <2>1, SettleSettles DEF Shapes, Statuses, Waits
  <2> QED
    BY <2>1, <2>2, RowsAreWorkedOn
<1> QED
  BY <1>1, <1>2, <1>3, <1>4, <1>5 DEF TimePasses

LEMMA TakeWorks ==
    ASSUME Shapes, NEW w \in Workers, NEW m \in Modes, Take(w, m)
    PROVE  Works
<1>0. UNCHANGED <<active, mode, fitting, matched, rec, skipped, id, receipt>>
  BY DEF Take, prefs, rows, job
<1>1. Batch(m) \subseteq Alerts /\ \A a \in Batch(m) : Waits(a)
  BY DEF Batch, First, Available, Waits
<1>2. row' = [a \in Alerts |-> Claimed(w, Batch(m))[a]]
  BY DEF Take, Claimed
<1>3. ASSUME NEW a \in Alerts
      PROVE  \/ row'[a] = row[a]
             \/ /\ Waits(a) /\ row'[a].status \in {"processing", "cancelled"}
                /\ row'[a].status = "cancelled" => ~Eligible(a)
  <2>1. CASE a \notin Batch(m)
    BY <1>2, <2>1 DEF Claimed
  <2>2. CASE a \in Batch(m) /\ ~Eligible(a)
    <3>1. row'[a] = Settle(row[a], "cancelled")
      BY <1>2, <2>2 DEF Claimed
    <3> QED
      BY <1>1, <2>2, <3>1, SettleSettles DEF Shapes, Statuses
  <2>3. CASE a \in Batch(m) /\ Eligible(a)
    <3>1. row'[a] = [row[a] EXCEPT !.status = "processing", !.by = w, !.stale = FALSE,
                                   !.attempts = row[a].attempts + 1]
      BY <1>2, <2>3 DEF Claimed
    <3>2. row'[a].status = "processing"
      BY <3>1 DEF Shapes, AnyRow
    <3> QED
      BY <1>1, <2>3, <3>2
  <2> QED
    BY <2>1, <2>2, <2>3
<1> QED
  BY <1>0, <1>3, RowsAreWorkedOn

LEMMA WorkersWork ==
    ASSUME Shapes, NEW w \in Workers,
           WorkerStep(w) \/ (\E m \in Modes : FailTake(w, m)) \/ FailFinalise(w) \/ Crash(w)
    PROVE  Works
<1>0. UNCHANGED <<active, mode, fitting, matched, rec, skipped, id, receipt>>
  BY DEF WorkerStep, Take, Send, Finalise, FailTake, FailFinalise, Crash, prefs, rows, job
<1>1. ASSUME NEW m \in Modes, Take(w, m) PROVE Works
  BY <1>1, TakeWorks
<1>2. ASSUME (\E answer \in {"ok", "error"} : Send(w, answer)) \/ Crash(w) PROVE Works
  <2>1. UNCHANGED row
    BY <1>2 DEF Send, Crash, rows
  <2> QED
    BY <1>0, <2>1, RowsAreWorkedOn
<1>3. ASSUME Finalise(w) PROVE Works
  <2> DEFINE own == {a \in worker[w].claims : Owns(w, a)}
  <2>1. row' = [a \in Alerts |-> IF a \in own THEN Answered(row[a], worker[w].answer) ELSE row[a]]
    BY <1>3 DEF Finalise
  <2>2. ASSUME NEW a \in Alerts
        PROVE  \/ row'[a] = row[a]
               \/ /\ Waits(a) /\ row'[a].status \in {"sent", "cancelled", "pending", "failed"}
                  /\ row'[a].status = "cancelled" => ~Eligible(a)
    <3>1. row[a] \in AnyRow
      BY DEF Shapes
    <3>2. a \in own => Waits(a)
      BY DEF Owns, Waits
    <3> QED
      BY <2>1, <3>1, <3>2, AnsweredSettles DEF Eligible
  <2> QED
    BY <1>0, <2>2, RowsAreWorkedOn
<1>4. ASSUME NEW S, row' = Deferred(S) PROVE Works
  <2>1. \A a \in Alerts : row'[a] = row[a] \/ (Waits(a) /\ row'[a].status \in {"pending", "failed"})
    BY <1>4, DeferredWaits DEF Waits
  <2> QED
    BY <1>0, <2>1, RowsAreWorkedOn
<1> QED
  BY <1>1, <1>2, <1>3, <1>4 DEF WorkerStep, FailTake, FailFinalise

(* A match has its alert from the start. *)
LEMMA QueueResumes ==
    ASSUME Shapes, Resumption, NEW o \in Offers, QueueAlert(o)
    PROVE  Resumption'
<1> DEFINE new == <<o, mode>>
           n == Cardinality(Created) + 1
<1>1. /\ matched' = matched \cup {o}
      /\ row' = [row EXCEPT ![new] = NewRow("pending", 0)]
      /\ id' = [id EXCEPT ![new] = n]
      /\ UNCHANGED <<active, mode, fitting, receipt, rec, skipped>>
      /\ o \notin matched
  BY DEF QueueAlert, job
<1>2. n \in Nat \ {0}
  <2>1. Created \in SUBSET Alerts
    BY DEF Created
  <2> QED
    BY <2>1, RowsAreFinite
<1> HIDE DEF n
<1>3. new \in Alerts
  BY AlertOf DEF Resumption, Placed
<1>4. /\ NewRow("pending", 0).status = "pending" /\ row'[new] = NewRow("pending", 0)
      /\ \A a \in Alerts \ {new} : row'[a] = row[a] /\ id'[a] = id[a]
  BY <1>1, <1>3, NewRowIsTyped DEF Shapes, Statuses, Resumption, Placed
<1>5. Placed'
  BY <1>1, <1>2, <1>3, <1>4 DEF Resumption, Placed, InStep, Replaced, Present
<1>6. ASSUME NEW p \in matched
      PROVE  \A m \in Modes : <<p, m>> \in Alerts \ {new}
  BY <1>1, <1>6 DEF Resumption, Placed, Alerts
<1>7. \A p \in matched : Delivered(p) => Delivered(p)'
  BY <1>1, <1>4, <1>6 DEF Delivered
<1>8. Waits(new)' /\ Present(new)'
  BY <1>1, <1>4 DEF Waits, Present
<1>9. Recorded'
  <2> SUFFICES ASSUME NEW p \in matched' PROVE Delivered(p)' \/ \E m \in Modes : Present(<<p, m>>)'
    BY DEF Recorded
  <2>1. CASE p = o
    BY <1>1, <1>8, <2>1 DEF Resumption, Placed
  <2>2. CASE p \in matched
    BY <1>4, <1>6, <1>7, <2>2 DEF Resumption, Recorded, Present
  <2> QED
    BY <1>1, <2>1, <2>2
<1>10. ASSUME OffersStay PROVE Covered'
  <2> SUFFICES ASSUME active, NEW p \in (matched' \cap fitting) \ skipped
               PROVE  Delivered(p)' \/ Waits(<<p, mode>>)' \/ Ahead(p)'
    BY <1>1 DEF Covered
  <2>1. CASE p = o
    BY <1>8, <2>1
  <2>2. CASE p \in matched
    <3>1. Delivered(p) \/ Waits(<<p, mode>>) \/ Ahead(p)
      BY <1>10, <2>2 DEF Resumption, Covered
    <3>2. Waits(<<p, mode>>) => Waits(<<p, mode>>)'
      BY <1>1, <1>4, <1>6, <2>2 DEF Waits, Resumption, Placed
    <3>3. Ahead(p) => Ahead(p)'
      BY <1>1, <1>4, <1>6, <2>2 DEF Ahead, Present
    <3> QED
      BY <1>7, <2>2, <3>1, <3>2, <3>3
  <2> QED
    BY <1>1, <2>1, <2>2
<1> QED
  BY <1>5, <1>9, <1>10 DEF Resumption

(* A job that starts over has every row beyond its cursor; what one that keeps its
   place does not come to any more is left out. *)
LEMMA StartResumes ==
    ASSUME Resumption, mode' \in Modes, Reconsider, UNCHANGED <<matched, row, id, receipt>>
    PROVE  Resumption'
<1>1. Recorded'
  BY DEF Resumption, Recorded, Present, Delivered
<1>2. CASE rec.status = "pending"
  <2>1. rec' = rec /\ skipped' = skipped \cup {o \in matched : ~Ahead(o)}
    BY <1>2 DEF Reconsider
  <2>2. Placed'
    BY <2>1 DEF Resumption, Placed, InStep, Replaced, Present
  <2>3. Covered'
    BY <2>1 DEF Covered, Ahead
  <2> QED
    BY <1>1, <2>2, <2>3 DEF Resumption
<1>3. CASE rec.status # "pending"
  <2>1. rec' = [rec EXCEPT !.status = "pending", !.cursor = 0]
    BY <1>3 DEF Reconsider
  <2>2. rec' \in Job /\ rec'.status = "pending" /\ rec'.cursor = 0
    BY <2>1 DEF Resumption, Placed, Job
  <2>3. Placed'
    BY <2>2 DEF Resumption, Placed, InStep, Replaced, Present
  <2>4. ASSUME NEW o \in matched, ~Delivered(o) PROVE Ahead(o)'
    <3>1. PICK m \in Modes : Present(<<o, m>>)
      BY <2>4 DEF Resumption, Recorded
    <3>2. <<o, m>> \in Alerts
      BY AlertOf DEF Resumption, Placed
    <3>3. id[<<o, m>>] \in Nat /\ id[<<o, m>>] # 0
      BY <3>1, <3>2 DEF Resumption, Placed
    <3> QED
      BY <2>2, <3>1, <3>3 DEF Ahead, Present
  <2>5. Covered'
    BY <2>4 DEF Covered, Delivered
  <2> QED
    BY <1>1, <2>3, <2>5 DEF Resumption
<1> QED
  BY <1>2, <1>3

(* A job that is replaced leaves out what it had still to come to. *)
LEMMA JobResumes ==
    ASSUME Resumption, JobStep
    PROVE  Resumption'
<1>0. UNCHANGED <<active, mode, fitting, matched, row, id, receipt>>
  BY JobStepsMoveNothing
<1>1. Recorded'
  BY <1>0 DEF Resumption, Recorded, Present, Delivered
<1>2. rec \in Job /\ InStep
  BY DEF Resumption, Placed
<1>3. /\ rec' \in Job /\ InStep'
      /\ \/ /\ rec'.cursor = rec.cursor /\ skipped' = skipped
            /\ rec.status # "none" => rec'.status # "none"
         \/ skipped' = skipped \cup {o \in matched : Ahead(o)}
  <2>1. CASE NotionReady
    <3>1. /\ rec' = [rec EXCEPT !.status = "none", !.cursor = 0]
          /\ skipped' = skipped \cup {o \in matched : Ahead(o)}
      BY <2>1 DEF NotionReady
    <3> QED
      BY <1>2, <3>1 DEF Job, InStep, Replaced
  <2>2. CASE RetryReconciliation
    <3>1. rec' = [rec EXCEPT !.status = "pending"] /\ skipped' = skipped /\ rec.status = "failed"
      BY <2>2 DEF RetryReconciliation
    <3> QED
      BY <1>2, <3>1 DEF Job, InStep, Replaced
  <2>3. CASE ClaimReconciliation
    <3>1. /\ rec' = [rec EXCEPT !.status = "processing", !.running = TRUE, !.from = rec.cursor]
          /\ skipped' = skipped
      BY <2>3 DEF ClaimReconciliation
    <3> QED
      BY <1>2, <3>1 DEF Job, InStep, Replaced
  <2>4. CASE ReconcileFails
    <3>1. PICK status \in {rec.status} \cup (IF Replaced THEN {} ELSE {"pending", "failed"}) :
            rec' = [Released EXCEPT !.status = status]
      BY <2>4 DEF ReconcileFails
    <3>2. Released \in Job /\ Released.cursor = rec.cursor /\ ~Released.running
      BY <1>2 DEF Released, Job
    <3>3. status \in {"none", "pending", "processing", "failed"}
      BY <1>2, <3>1 DEF Job
    <3>4. rec.status # "none" => status # "none"
      BY <3>1
    <3>5. rec' \in Job /\ rec'.cursor = rec.cursor /\ ~rec'.running /\ rec'.status = status
      BY <3>1, <3>2, <3>3 DEF Job
    <3>6. skipped' = skipped
      BY <2>4 DEF ReconcileFails
    <3> QED
      BY <3>4, <3>5, <3>6 DEF InStep
  <2> QED
    BY <2>1, <2>2, <2>3, <2>4 DEF JobStep
<1>4. Placed'
  BY <1>0, <1>3 DEF Resumption, Placed, Present
<1>5. ASSUME OffersStay PROVE Covered'
  <2> SUFFICES ASSUME active, NEW o \in (matched \cap fitting) \ skipped'
               PROVE  Delivered(o)' \/ Waits(<<o, mode>>)' \/ Ahead(o)'
    BY <1>0 DEF Covered
  <2>1. o \notin skipped
    BY <1>3
  <2>2. Delivered(o) \/ Waits(<<o, mode>>) \/ Ahead(o)
    BY <1>5, <2>1 DEF Resumption, Covered
  <2>3. Ahead(o) => Ahead(o)'
    BY <1>0, <1>3 DEF Ahead
  <2> QED
    BY <1>0, <2>2, <2>3 DEF Delivered, Waits
<1> QED
  BY <1>1, <1>4, <1>5 DEF Resumption

LEMMA DeactivateResumes ==
    ASSUME Shapes, Resumption, Deactivate
    PROVE  Resumption'
<1>1. /\ ~active'
      /\ row' = [a \in Alerts |-> IF row[a].status \in {"pending", "processing", "failed"}
                                    THEN Settle(row[a], "cancelled") ELSE row[a]]
      /\ UNCHANGED <<mode, fitting, matched, id, receipt, rec>>
  BY DEF Deactivate, job
<1>2. \A a \in Alerts : \/ row'[a] = row[a]
                        \/ Waits(a) /\ row'[a].status = "cancelled"
  BY <1>1, SettleSettles DEF Shapes, Statuses, Waits
<1>3. \A a \in Alerts : /\ Present(a)' <=> Present(a)
                        /\ row[a].status = "sent" => row'[a].status = "sent"
  BY <1>2 DEF Present, Waits
<1>4. Placed'
  BY <1>1, <1>3 DEF Resumption, Placed, InStep, Replaced
<1>5. Recorded'
  BY <1>1, <1>3, AlertOf DEF Resumption, Placed, Recorded, Delivered
<1> QED
  BY <1>1, <1>4, <1>5 DEF Resumption, Covered

(* One row of an offer in the batch is enough for its alert to be moved. *)
LEMMA BatchMoves ==
    ASSUME Shapes, Resumption, NEW batch \in SUBSET Alerts, NEW o \in Offers, ~Blocked(o),
           Waits(<<o, mode>>) \/ \E m \in Modes : <<o, m>> \in batch /\ Present(<<o, m>>)
    PROVE  Reconciled(batch, <<o, mode>>).status \in {"pending", "processing", "failed"}
<1> DEFINE a == <<o, mode>>
           r == row[a]
           twin == <<o, Other(mode)>>
           open(b) == b \in batch /\ row[b].status \in Unfinished
           handover == open(twin) /\ ~Blocked(o)
           revives == handover /\ (open(a) => id[twin] < id[a])
<1>1. mode \in Modes /\ Other(mode) \in Modes /\ \A m \in Modes : m = mode \/ m = Other(mode)
  <2>1. mode \in Modes
    BY DEF Resumption, Placed
  <2>2. \E n \in Modes : n # mode
    BY DEF Modes
  <2>3. Other(mode) \in Modes /\ Other(mode) # mode
    BY <2>2 DEF Other
  <2> QED
    BY <2>1, <2>3 DEF Modes
<1>2. /\ a \in Alerts /\ twin \in Alerts /\ a[1] = o /\ a[2] = mode
      /\ row[a] \in AnyRow /\ row[twin] \in AnyRow
  BY <1>1, AlertOf DEF Shapes
<1>3. row[a].status # "sent" /\ row[twin].status # "sent"
  BY <1>1 DEF Blocked, Delivered
<1>4. Waits(a) \/ open(a) \/ open(twin)
  BY <1>1, <1>2, <1>3 DEF Present, Waits, Unfinished, AnyRow, Statuses
<1>5. Reconciled(batch, a) =
        CASE open(a) /\ (Blocked(o) \/ mode # mode) -> Settle(r, "cancelled")
          [] handover /\ r.status = "absent" ->
               NewRow(IF row[twin].status = "failed" THEN "failed" ELSE "pending", row[twin].attempts)
          [] revives /\ r.status = "cancelled" -> Settle(r, Revived(r.attempts))
          [] ~revives /\ open(a) /\ ~Blocked(o) /\ r.status = "cancelled" ->
               [Settle(r, Revived(r.attempts)) EXCEPT !.deferred = FALSE]
          [] OTHER -> r
  BY <1>2 DEF Reconciled
<1> HIDE DEF a, twin, open, handover, revives
<1>6. CASE Waits(a)
  <2>1. Reconciled(batch, a) = r
    BY <1>5, <1>6 DEF Waits
  <2> QED
    BY <1>6, <2>1 DEF Waits, a
<1>7. CASE r.status = "absent"
  <2>1. handover
    BY <1>4, <1>7 DEF open, handover, Unfinished, Waits
  <2>2. Reconciled(batch, a) =
          NewRow(IF row[twin].status = "failed" THEN "failed" ELSE "pending", row[twin].attempts)
    BY <1>5, <1>7, <2>1
  <2>3. row[twin].attempts \in Int
    BY <1>2 DEF AnyRow
  <2> QED
    BY <2>2, <2>3, NewRowIsTyped DEF Statuses, a
<1>8. CASE r.status = "cancelled"
  <2>1. /\ Settle(r, Revived(r.attempts)) \in AnyRow
        /\ Settle(r, Revived(r.attempts)).status \in {"failed", "pending"}
    BY <1>2, SettleSettles, RevivedWaits
  <2>2. revives \/ open(a)
    BY <1>4, <1>8 DEF revives, handover, Waits
  <2>3. \/ Reconciled(batch, a) = Settle(r, Revived(r.attempts))
        \/ Reconciled(batch, a) = [Settle(r, Revived(r.attempts)) EXCEPT !.deferred = FALSE]
    BY <1>5, <1>8, <2>2
  <2> QED
    BY <2>1, <2>3 DEF AnyRow, a
<1> QED
  BY <1>2, <1>3, <1>6, <1>7, <1>8 DEF AnyRow, Statuses, Waits, a, twin

(* A batch leaves no row out, and no number to a row that is present already. *)
LEMMA BatchKeepsRows ==
    ASSUME Shapes, Resumption, NEW batch,
           UNCHANGED <<row, id>>
             \/ /\ row' = [a \in Alerts |-> Reconciled(batch, a)]
                /\ id' = Numbered({a \in Alerts : /\ row[a].status = "absent"
                                                  /\ Reconciled(batch, a).status # "absent"})
    PROVE  /\ id' \in [Alerts -> Nat]
           /\ \A a \in Alerts : /\ Present(a)' => id'[a] # 0
                                /\ Present(a) => Present(a)' /\ id'[a] = id[a]
                                /\ row[a].status = "sent" => row'[a].status = "sent"
<1>1. CASE UNCHANGED <<row, id>>
  BY <1>1 DEF Resumption, Placed, Present
<1>2. CASE ~UNCHANGED <<row, id>>
  <2> DEFINE fresh == {a \in Alerts : /\ row[a].status = "absent"
                                      /\ Reconciled(batch, a).status # "absent"}
  <2>1. row' = [a \in Alerts |-> Reconciled(batch, a)] /\ id' = Numbered(fresh)
    BY <1>2
  <2>2. ASSUME NEW a \in fresh PROVE id'[a] \in Nat \ {0}
    <3> DEFINE earlier == {b \in fresh : id[<<b[1], Other(b[2])>>] < id[<<a[1], Other(a[2])>>]}
    <3>1. Created \in SUBSET Alerts /\ earlier \in SUBSET Alerts
      BY DEF Created
    <3>2. Cardinality(Created) \in Nat /\ Cardinality(earlier) \in Nat
      BY <3>1, RowsAreFinite
    <3>3. id'[a] = Cardinality(Created) + 1 + Cardinality(earlier)
      BY <2>1 DEF Numbered
    <3> QED
      BY <3>2, <3>3
  <2>3. ASSUME NEW a \in Alerts \ fresh PROVE id'[a] = id[a]
    BY <2>1 DEF Numbered
  <2>4. ASSUME NEW a \in Alerts
        PROVE  /\ Present(a) => Present(a)'
               /\ row[a].status = "sent" => row'[a].status = "sent"
    <3>1. row'[a] = Reconciled(batch, a)
      BY <2>1
    <3>2. \/ Reconciled(batch, a) = row[a]
          \/ Reconciled(batch, a).status \in {"pending", "failed", "cancelled"}
      BY ReconciledWaits
    <3>3. row[a].status = "sent" => Reconciled(batch, a) = row[a]
      BY DEF Reconciled, Unfinished
    <3> QED
      BY <3>1, <3>2, <3>3 DEF Present
  <2>5. id' = [a \in Alerts |-> id'[a]]
    BY <2>1 DEF Numbered
  <2>6. id' \in [Alerts -> Nat]
    BY <2>2, <2>3, <2>5 DEF Resumption, Placed
  <2>7. ASSUME NEW a \in Alerts, Present(a)' PROVE id'[a] # 0
    <3>1. a \in fresh \/ Present(a)
      BY <2>1, <2>7 DEF Present
    <3> QED
      BY <2>2, <2>3, <3>1 DEF Resumption, Placed
  <2>8. ASSUME NEW a \in Alerts, Present(a) PROVE id'[a] = id[a]
    BY <2>3, <2>8 DEF Present
  <2> QED
    BY <2>4, <2>6, <2>7, <2>8
<1> QED
  BY <1>1, <1>2

LEMMA ReconcileResumes ==
    ASSUME Shapes, Resumption, ReconcileBatch
    PROVE  Resumption'
<1> DEFINE S == {a \in Created : row[a].status # "absent" /\ id[a] > rec.from}
           batch == First(S)
<1>1. S \in SUBSET Alerts /\ batch \in SUBSET Alerts /\ batch \subseteq S
  BY DEF Created, First
<1>2. /\ rec.running
      /\ UNCHANGED <<active, mode, fitting, matched, receipt, skipped>>
      /\ ~active => UNCHANGED <<row, id>>
      /\ active => /\ row' = [a \in Alerts |-> Reconciled(batch, a)]
                   /\ id' = Numbered({a \in Alerts : /\ row[a].status = "absent"
                                                     /\ Reconciled(batch, a).status # "absent"})
  <2>1. \A a \in Alerts : [b \in Alerts |-> Reconciled(batch, b)][a] = Reconciled(batch, a)
    OBVIOUS
  <2> QED
    BY <2>1 DEF ReconcileBatch, prefs
<1>3. /\ Replaced => rec' = Released
      /\ ~Replaced /\ batch = {} => rec' = [Released EXCEPT !.status = "none", !.cursor = 0]
      /\ ~Replaced /\ batch # {} =>
           \E last \in batch : rec' = [Released EXCEPT !.status = "pending", !.cursor = id[last]]
  BY DEF ReconcileBatch
<1> HIDE DEF S, batch
<1>4. /\ id' \in [Alerts -> Nat]
      /\ \A a \in Alerts : /\ Present(a)' => id'[a] # 0
                           /\ Present(a) => Present(a)' /\ id'[a] = id[a]
                           /\ row[a].status = "sent" => row'[a].status = "sent"
  BY <1>2, BatchKeepsRows
<1>5. rec' \in Job /\ ~rec'.running
  <2>1. \A last \in batch : id[last] \in Nat
    BY <1>1 DEF Resumption, Placed
  <2>2. Released \in Job /\ ~Released.running
    BY DEF Resumption, Placed, Released, Job
  <2>3. ASSUME NEW status \in {"none", "pending"}, NEW n \in Nat,
               rec' = [Released EXCEPT !.status = status, !.cursor = n]
        PROVE  rec' \in Job /\ ~rec'.running
    BY <2>2, <2>3 DEF Job
  <2>4. CASE ~Replaced /\ batch = {}
    <3>1. rec' = [Released EXCEPT !.status = "none", !.cursor = 0]
      BY <1>3, <2>4, Zenon
    <3> QED
      BY <2>3, <3>1
  <2> QED
    BY <1>3, <2>1, <2>2, <2>3, <2>4
<1>6. Placed'
  BY <1>2, <1>4, <1>5 DEF Resumption, Placed, InStep
<1>7. ASSUME NEW o \in matched, Delivered(o) PROVE Delivered(o)'
  <2>1. \A m \in Modes : <<o, m>> \in Alerts
    BY AlertOf DEF Resumption, Placed
  <2> QED
    BY <1>2, <1>4, <1>7, <2>1 DEF Delivered
<1>8. Recorded'
  <2> SUFFICES ASSUME NEW o \in matched PROVE Delivered(o)' \/ \E m \in Modes : Present(<<o, m>>)'
    BY <1>2 DEF Recorded
  <2>1. \A m \in Modes : <<o, m>> \in Alerts
    BY AlertOf DEF Resumption, Placed
  <2> QED
    BY <1>4, <1>7, <2>1 DEF Resumption, Recorded
<1>9. ASSUME OffersStay PROVE Covered'
  <2> SUFFICES ASSUME active, NEW o \in (matched \cap fitting) \ skipped, ~Delivered(o)
               PROVE  Waits(<<o, mode>>)' \/ Ahead(o)'
    BY <1>2, <1>7 DEF Covered
  <2>1. o \in Offers /\ ~Blocked(o) /\ \A m \in Modes : <<o, m>> \in Alerts
    BY AlertOf DEF Resumption, Placed, Blocked
  <2>2. CASE Waits(<<o, mode>>) \/ \E m \in Modes : <<o, m>> \in batch /\ Present(<<o, m>>)
    <3>1. Reconciled(batch, <<o, mode>>).status \in {"pending", "processing", "failed"}
      BY <1>1, <2>1, <2>2, BatchMoves
    <3>2. row'[<<o, mode>>] = Reconciled(batch, <<o, mode>>)
      BY <1>2, <2>1 DEF Resumption, Placed
    <3> QED
      BY <1>2, <3>1, <3>2 DEF Waits
  <2>3. CASE ~(Waits(<<o, mode>>) \/ \E m \in Modes : <<o, m>> \in batch /\ Present(<<o, m>>))
    <3>1. PICK m \in Modes : Present(<<o, m>>) /\ id[<<o, m>>] > rec.cursor
      BY <1>9, <2>3 DEF Resumption, Covered, Ahead, Present
    <3>2. rec.status # "none"
      BY <1>9, <2>3 DEF Resumption, Covered, Ahead
    <3>3. Present(<<o, m>>)' /\ id'[<<o, m>>] = id[<<o, m>>]
      BY <1>4, <2>1, <3>1
    <3>4. CASE Replaced
      <4>1. rec'.status = rec.status /\ rec'.cursor = rec.cursor
        BY <1>3, <3>4 DEF Released, Resumption, Placed, Job
      <4> QED
        BY <3>1, <3>2, <3>3, <4>1 DEF Ahead, Present
    <3>5. CASE ~Replaced
      <4>1. rec.from = rec.cursor
        BY <1>2, <3>5 DEF Resumption, Placed, InStep
      <4>2. <<o, m>> \in S /\ <<o, m>> \notin batch
        BY <2>1, <2>3, <3>1, <4>1 DEF S, Present, Created, Resumption, Placed
      <4>3. batch # {} /\ \A last \in batch : ~(id[<<o, m>>] <= id[last])
        BY <1>1, <4>2, BatchesHaveNoGaps DEF batch, Resumption, Placed
      <4>4. PICK last \in batch : rec' = [Released EXCEPT !.status = "pending", !.cursor = id[last]]
        BY <1>3, <3>5, <4>3
      <4>5. rec'.status = "pending" /\ rec'.cursor = id[last]
        BY <4>4 DEF Released, Resumption, Placed, Job
      <4>6. id[<<o, m>>] > id[last]
        BY <1>1, <2>1, <4>3 DEF Resumption, Placed
      <4> QED
        BY <3>3, <4>5, <4>6 DEF Ahead, Present
    <3> QED
      BY <3>4, <3>5
  <2> QED
    BY <2>2, <2>3
<1> QED
  BY <1>6, <1>8, <1>9 DEF Resumption

(* The invariant of reconciliation. *)
LEMMA ResumptionHolds == Spec => []Resumption
<1>1. Init => Resumption
  BY DEF Init, Resumption, Placed, Job, InStep, Recorded, Covered, Present, AbsentRow
<1>2. ASSUME Inv, Resumption, [Next]_vars PROVE Resumption'
  <2>1. Shapes
    BY <1>2 DEF Inv
  <2>2. ASSUME NEW o \in Offers, QueueAlert(o) \/ ChangeOffer(o) PROVE Resumption'
    <3>1. CASE QueueAlert(o)
      BY <1>2, <2>1, <3>1, QueueResumes
    <3>2. CASE ChangeOffer(o)
      <4>1. ~OffersStay /\ UNCHANGED <<mode, matched, row, id, receipt, rec>>
        BY <3>2 DEF ChangeOffer, MayEdit, OffersStay, rows, job
      <4> QED
        BY <1>2, <4>1 DEF Resumption, Placed, InStep, Replaced, Recorded, Present, Delivered, OffersStay
    <3> QED
      BY <2>2, <3>1, <3>2
  <2>3. ASSUME (\E m \in Modes, fits \in SUBSET Offers : Activate(m, fits)) \/ Reactivate
        PROVE  Resumption'
    <3>1. mode' \in Modes
      BY <1>2, <2>3 DEF Activate, Reactivate, Resumption, Placed
    <3>2. Reconsider /\ UNCHANGED <<matched, row, id, receipt>>
      BY <2>3 DEF Activate, Reactivate, rows
    <3> QED
      BY <1>2, <3>1, <3>2, StartResumes
  <2>4. CASE Deactivate
    BY <1>2, <2>1, <2>4, DeactivateResumes
  <2>5. CASE ReconcileBatch
    BY <1>2, <2>1, <2>5, ReconcileResumes
  <2>6. CASE \/ TimePasses \/ (\E a \in Alerts : AdminRetry(a) \/ PurgeSent(a))
             \/ (\E m \in Modes : FailExhausted(m)) \/ UNCHANGED vars
    BY <1>2, <2>1, <2>6, OthersWork, WorksKeeps
  <2>7. CASE Trouble \/ \E w \in Workers : WorkerStep(w)
    <3>1. PICK w \in Workers : \/ WorkerStep(w) \/ (\E m \in Modes : FailTake(w, m))
                               \/ FailFinalise(w) \/ Crash(w)
      BY <2>7 DEF Trouble
    <3> QED
      BY <1>2, <2>1, <3>1, WorkersWork, WorksKeeps
  <2>8. CASE JobStep
    BY <1>2, <2>8, JobResumes
  <2> QED
    BY <1>2, <2>2, <2>3, <2>4, <2>5, <2>6, <2>7, <2>8 DEF Next, Environment, JobStep
<1> QED
  BY Invariant, <1>1, <1>2, PTL DEF Spec

(* "resumes matching unsent work": once the reconciliation has ended, the alert of each
   offer that was queued and fits was sent, is on its way, or has failed, unless the
   code left it out, whatever the size of the batches, whatever was sent, cancelled or
   retried between two of them, and whichever failed, lapsed or was replaced. *)
THEOREM ResumesUnsentWork ==
    ASSUME OffersStay
    PROVE  Spec => []Resumed
<1>1. Resumption => Resumed
  BY DEF Resumption, Placed, Covered, Ahead, Waits, Resumed
<1> QED
  BY ResumptionHolds, <1>1, PTL

----------------------------------------------------------------------------
(* An offer that was sent has no work left, when a batch takes all the rows *)
(* of the subscriber.                                                       *)
(*                                                                          *)
(* At most one of the two rows of an offer waits (OneAlert).  A batch may   *)
(* set the other one going when it comes to it, so an alert that waits and  *)
(* is not looked at must have no row further on (Aligned): not beyond the   *)
(* cursor of the job, nor beyond that of a batch that runs, which differ    *)
(* when the job was replaced (InOrder).                                     *)

\* The code takes a hundred rows.
OneBatch == BatchSize >= Cardinality(Alerts)

OneAlert == \A a \in Alerts : Waits(a) => ~Delivered(a[1]) /\ ~Waits(<<a[1], Other(a[2])>>)

Aligned(n) ==
    \A a \in Alerts : LET twin == <<a[1], Other(a[2])>> IN
      Waits(a) /\ id[a] <= n /\ Present(twin) => id[twin] <= n

InOrder ==
    /\ rec.status # "none" => Aligned(rec.cursor)
    /\ rec.running => Aligned(rec.from)

Unheard == \A a \in Alerts : a[1] \notin matched => ~Present(a) /\ a[1] \notin receipt

Done == OneAlert /\ InOrder /\ Unheard

LEMMA Twins ==
    ASSUME NEW a \in Alerts
    PROVE  /\ a[1] \in Offers /\ a[2] \in Modes /\ Other(a[2]) \in Modes
           /\ <<a[1], Other(a[2])>> \in Alerts /\ Other(a[2]) # a[2]
           /\ \A m \in Modes : <<a[1], m>> \in {a, <<a[1], Other(a[2])>>}
<1>1. PICK o \in Offers, m \in Modes : a = <<o, m>>
  BY DEF Alerts
<1>2. \E n \in Modes : n # m
  BY DEF Modes
<1>3. Other(m) \in Modes /\ Other(m) # m
  BY <1>2 DEF Other
<1>4. \A n \in Modes : n = m \/ n = Other(m)
  BY <1>3 DEF Modes
<1> QED
  BY <1>1, <1>3, <1>4 DEF Alerts

LEMMA NothingStartsDone ==
    ASSUME Shapes, Done, StartsNothing
    PROVE  Done'
<1>1. ASSUME NEW a \in Alerts, Delivered(a[1])', Waits(a)'
      PROVE  Delivered(a[1]) \/ Waits(<<a[1], Other(a[2])>>)
  <2> DEFINE twin == <<a[1], Other(a[2])>>
  <2>1. twin \in Alerts
    BY Twins
  <2>2. \A b \in {a, twin} : row'[b].status = "sent" => row[b].status = "sent" \/ Waits(b)
    BY <2>1 DEF StartsNothing
  <2>3. \A b \in {a, twin} : row[b].status = "sent" => Delivered(a[1])
    <3>1. a = <<a[1], a[2]>> /\ a[2] \in Modes /\ Other(a[2]) \in Modes
      BY Twins DEF Alerts
    <3> QED
      BY <3>1 DEF Delivered
  <2>4. CASE a[1] \in receipt'
    <3>1. a[1] \in receipt \/ \E b \in Sent : b[1] = a[1]
      BY <2>4 DEF StartsNothing
    <3>2. ASSUME NEW b \in Sent, b[1] = a[1] PROVE Delivered(a[1])
      <4>1. b = <<a[1], b[2]>> /\ b[2] \in Modes /\ row[b].status = "sent"
        BY <3>2 DEF Sent, Alerts
      <4> QED
        BY <4>1 DEF Delivered
    <3> QED
      BY <3>1, <3>2 DEF Delivered
  <2>5. CASE \E m \in Modes : row'[<<a[1], m>>].status = "sent"
    <3>1. row'[twin].status = "sent"
      BY <1>1, <2>5, Twins DEF Waits
    <3> QED
      BY <2>2, <2>3, <3>1
  <2> QED
    BY <1>1, <2>4, <2>5 DEF Delivered
<1>2. OneAlert'
  <2> SUFFICES ASSUME NEW a \in Alerts, Waits(a)'
               PROVE  ~Delivered(a[1])' /\ ~Waits(<<a[1], Other(a[2])>>)'
    BY DEF OneAlert
  <2>1. Waits(a) /\ <<a[1], Other(a[2])>> \in Alerts
    BY Twins DEF StartsNothing
  <2> QED
    BY <1>1, <2>1 DEF StartsNothing, Done, OneAlert
<1>3. InOrder'
  <2>1. \A n : Aligned(n) => Aligned(n)'
    <3> SUFFICES ASSUME NEW n, Aligned(n) PROVE Aligned(n)'
      OBVIOUS
    <3>1. \A a \in Alerts : <<a[1], Other(a[2])>> \in Alerts
      BY Twins
    <3> QED
      BY <3>1 DEF Aligned, StartsNothing
  <2>2. UNCHANGED rec
    BY DEF StartsNothing
  <2> QED
    BY <2>1, <2>2 DEF Done, InOrder
<1> QED
  BY <1>2, <1>3 DEF Done, Unheard, StartsNothing, Sent, Present

(* An offer is new when its alert is queued. *)
LEMMA QueueDone ==
    ASSUME Shapes, Resumption, Done, NEW o \in Offers, QueueAlert(o)
    PROVE  Done'
<1> DEFINE new == <<o, mode>>
<1>1. /\ matched' = matched \cup {o}
      /\ row' = [row EXCEPT ![new] = NewRow("pending", 0)]
      /\ UNCHANGED <<mode, receipt, rec>>
      /\ o \notin matched
      /\ \A a \in Alerts \ {new} : id'[a] = id[a]
  BY DEF QueueAlert, Resumption, Placed, job
<1>2. new \in Alerts /\ new[1] = o /\ new[2] = mode
  BY AlertOf DEF Resumption, Placed
<1> HIDE DEF new
<1>3. /\ NewRow("pending", 0).status = "pending" /\ row'[new] = NewRow("pending", 0)
      /\ \A a \in Alerts \ {new} : row'[a] = row[a]
  BY <1>1, <1>2, NewRowIsTyped DEF Shapes, Statuses
<1>4. o \notin receipt /\ \A a \in Alerts : a[1] = o => ~Present(a)
  BY <1>1, <1>2 DEF Done, Unheard
<1>5. ~Delivered(o)'
  <2>1. ASSUME NEW m \in Modes PROVE row'[<<o, m>>].status # "sent"
    <3>1. <<o, m>> \in Alerts /\ <<o, m>>[1] = o
      BY AlertOf
    <3> QED
      BY <1>3, <1>4, <3>1 DEF Present
  <2> QED
    BY <1>1, <1>4, <2>1 DEF Delivered
<1>6. ASSUME NEW a \in Alerts, a[1] # o
      PROVE  Delivered(a[1])' <=> Delivered(a[1])
  <2>1. \A m \in Modes : <<a[1], m>> \in Alerts \ {new}
    BY <1>2, <1>6, Twins DEF Alerts
  <2> QED
    BY <1>1, <1>3, <2>1 DEF Delivered
<1>7. OneAlert'
  <2> SUFFICES ASSUME NEW a \in Alerts, Waits(a)'
               PROVE  ~Delivered(a[1])' /\ ~Waits(<<a[1], Other(a[2])>>)'
    BY DEF OneAlert
  <2> DEFINE twin == <<a[1], Other(a[2])>>
  <2>1. twin \in Alerts /\ twin # a /\ twin[1] = a[1]
    BY Twins DEF Alerts
  <2> HIDE DEF twin
  <2>2. CASE a[1] = o
    <3>1. a = new
      BY <1>3, <1>4, <2>2 DEF Waits, Present
    <3>2. row'[twin] = row[twin] /\ ~Present(twin)
      BY <1>3, <1>4, <2>1, <2>2, <3>1
    <3> QED
      BY <1>5, <2>2, <3>2 DEF Waits, Present, twin
  <2>3. CASE a[1] # o
    <3>1. row'[a] = row[a] /\ row'[twin] = row[twin]
      BY <1>2, <1>3, <2>1, <2>3
    <3>2. ~Delivered(a[1]) /\ ~Waits(twin)
      BY <3>1 DEF Done, OneAlert, Waits, twin
    <3> QED
      BY <1>6, <2>3, <3>1, <3>2 DEF Waits, twin
  <2> QED
    BY <2>2, <2>3
<1>8. InOrder'
  <2>1. ASSUME NEW n, Aligned(n) PROVE Aligned(n)'
    <3> SUFFICES ASSUME NEW a \in Alerts, Waits(a)', id'[a] <= n, Present(<<a[1], Other(a[2])>>)'
                 PROVE  id'[<<a[1], Other(a[2])>>] <= n
      BY DEF Aligned
    <3> DEFINE twin == <<a[1], Other(a[2])>>
    <3>1. twin \in Alerts /\ twin # a /\ twin[1] = a[1]
      BY Twins DEF Alerts
    <3>2. a # new
      BY <1>2, <1>3, <1>4, <3>1 DEF Present
    <3>3. row'[a] = row[a] /\ id'[a] = id[a]
      BY <1>1, <1>3, <3>2
    <3>4. twin # new
      BY <1>2, <1>4, <3>1, <3>3 DEF Waits, Present
    <3>5. row'[twin] = row[twin] /\ id'[twin] = id[twin]
      BY <1>1, <1>3, <3>1, <3>4
    <3> QED
      BY <2>1, <3>3, <3>5 DEF Aligned, Waits, Present
  <2> QED
    BY <1>1, <2>1 DEF Done, InOrder
<1>9. Unheard'
  BY <1>1, <1>2, <1>3 DEF Done, Unheard, Present
<1> QED
  BY <1>7, <1>8, <1>9 DEF Done

(* A row behind a cursor at the start is no row yet. *)
LEMMA StartAligned ==
    ASSUME Placed, NEW n, n = 0
    PROVE  Aligned(n)
<1>1. ASSUME NEW a \in Alerts, id[a] <= 0 PROVE ~Waits(a)
  <2>1. id[a] \in Nat
    BY DEF Placed
  <2>2. id[a] = 0
    BY <1>1, <2>1
  <2> QED
    BY <2>2 DEF Placed, Present, Waits
<1> QED
  BY <1>1 DEF Aligned

LEMMA StartDone ==
    ASSUME Resumption, Done, Reconsider, UNCHANGED <<matched, row, id, receipt>>
    PROVE  Done'
<1>1. OneAlert' /\ Unheard'
  BY DEF Done, OneAlert, Unheard, Waits, Present, Delivered
<1>2. \A n : Aligned(n) => Aligned(n)'
  BY DEF Aligned, Waits, Present
<1>3. \/ rec' = rec
      \/ rec'.cursor = 0 /\ rec'.running = rec.running /\ rec'.from = rec.from
  BY DEF Reconsider, Resumption, Placed, Job
<1>4. rec'.cursor = 0 => Aligned(rec'.cursor)
  BY StartAligned DEF Resumption
<1>5. InOrder'
  BY <1>2, <1>3, <1>4 DEF Done, InOrder
<1> QED
  BY <1>1, <1>5 DEF Done

(* A batch looks on from the cursor of its claim. *)
LEMMA JobDone ==
    ASSUME Resumption, Done, JobStep
    PROVE  Done'
<1>0. UNCHANGED <<matched, row, id, receipt>> /\ rec \in Job
  BY JobStepsMoveNothing DEF Resumption, Placed
<1>1. OneAlert' /\ Unheard'
  BY <1>0 DEF Done, OneAlert, Unheard, Waits, Present, Delivered
<1>2. \A n : Aligned(n) => Aligned(n)'
  BY <1>0 DEF Aligned, Waits, Present
<1>3. InOrder'
  <2>1. CASE NotionReady
    <3>1. rec'.status = "none" /\ rec'.running = rec.running /\ rec'.from = rec.from
      BY <1>0, <2>1 DEF NotionReady, Job
    <3> QED
      BY <1>2, <3>1 DEF Done, InOrder
  <2>2. CASE RetryReconciliation
    <3>1. /\ rec'.cursor = rec.cursor /\ rec'.running = rec.running /\ rec'.from = rec.from
          /\ rec.status # "none"
      BY <1>0, <2>2 DEF RetryReconciliation, Job
    <3> QED
      BY <1>2, <3>1 DEF Done, InOrder
  <2>3. CASE ClaimReconciliation
    <3>1. rec'.cursor = rec.cursor /\ rec'.from = rec.cursor /\ rec.status # "none"
      BY <1>0, <2>3 DEF ClaimReconciliation, Job
    <3> QED
      BY <1>2, <3>1 DEF Done, InOrder
  <2>4. CASE ReconcileFails
    <3>1. PICK status \in {rec.status} \cup (IF Replaced THEN {} ELSE {"pending", "failed"}) :
            rec' = [Released EXCEPT !.status = status]
      BY <2>4 DEF ReconcileFails
    <3>2. rec.status = "none" => status = "none"
      BY <3>1 DEF Replaced
    <3>3. rec'.status = status /\ rec'.cursor = rec.cursor /\ ~rec'.running
      BY <1>0, <3>1 DEF Released, Job
    <3> QED
      BY <1>2, <3>2, <3>3 DEF Done, InOrder
  <2> QED
    BY <2>1, <2>2, <2>3, <2>4 DEF JobStep
<1> QED
  BY <1>1, <1>3 DEF Done

(* A batch of all the rows beyond its cursor sets no alert going whose twin waits. *)
LEMMA ReconcileDone ==
    ASSUME Shapes, Resumption, Done, OneBatch, ReconcileBatch
    PROVE  Done'
<1> DEFINE S == {a \in Created : row[a].status # "absent" /\ id[a] > rec.from}
           batch == First(S)
           twin(a) == <<a[1], Other(a[2])>>
<1>1. S \in SUBSET Alerts /\ batch \in SUBSET Alerts /\ batch \subseteq S
  BY DEF Created, First
<1>2. /\ rec.running
      /\ UNCHANGED <<active, mode, fitting, matched, receipt>>
      /\ ~active => UNCHANGED <<row, id>>
      /\ active => /\ row' = [a \in Alerts |-> Reconciled(batch, a)]
                   /\ id' = Numbered({a \in Alerts : /\ row[a].status = "absent"
                                                     /\ Reconciled(batch, a).status # "absent"})
  <2>1. \A a \in Alerts : [b \in Alerts |-> Reconciled(batch, b)][a] = Reconciled(batch, a)
    OBVIOUS
  <2> QED
    BY <2>1 DEF ReconcileBatch, prefs
<1>3. batch = S
  <2> SUFFICES ASSUME NEW a \in S PROVE a \in batch
    BY <1>1
  <2> DEFINE before == {b \in S : id[b] < id[a]}
  <2>1. before \in SUBSET Alerts /\ a \in Alerts /\ a \notin before
    BY <1>1 DEF Resumption, Placed
  <2>2. /\ IsFiniteSet(Alerts) /\ Cardinality(Alerts) \in Nat /\ Cardinality(before) \in Nat
    BY <2>1, RowsAreFinite
  <2>3. Cardinality(before) <= Cardinality(Alerts) /\ Cardinality(before) # Cardinality(Alerts)
    BY <2>1, <2>2, FS_Subset
  <2>4. Cardinality(before) < BatchSize
    BY <2>2, <2>3, AlertDeliveryAssumption DEF OneBatch
  <2> QED
    BY <2>4 DEF First
<1>4. /\ Replaced => rec' = Released
      /\ ~Replaced /\ batch = {} => rec' = [Released EXCEPT !.status = "none", !.cursor = 0]
      /\ ~Replaced /\ batch # {} =>
           \E last \in batch : /\ \A a \in batch : id[a] <= id[last]
                               /\ rec' = [Released EXCEPT !.status = "pending", !.cursor = id[last]]
  BY DEF ReconcileBatch
<1> HIDE DEF batch
<1>5. /\ id' \in [Alerts -> Nat] /\ Placed'
      /\ \A a \in Alerts : Present(a) => id'[a] = id[a]
  <2>1. Resumption'
    BY ReconcileResumes
  <2> QED
    BY <1>2, <2>1, BatchKeepsRows DEF Resumption, Placed
<1>6. \A a \in Alerts : /\ twin(a) \in Alerts /\ twin(twin(a)) = a
                        /\ a \in S <=> Present(a) /\ id[a] > rec.from
  <2> SUFFICES ASSUME NEW a \in Alerts
               PROVE  /\ twin(a) \in Alerts /\ twin(twin(a)) = a
                      /\ a \in S <=> Present(a) /\ id[a] > rec.from
    OBVIOUS
  <2>1. twin(a) \in Alerts /\ twin(twin(a)) = a
    <3>1. PICK o \in Offers, m \in Modes : a = <<o, m>>
      BY DEF Alerts
    <3>2. Other(m) \in Modes /\ Other(m) # m
      BY <3>1, Twins
    <3>3. Other(Other(m)) \in Modes /\ Other(Other(m)) # Other(m)
      <4>1. <<o, Other(m)>> \in Alerts
        BY <3>1, <3>2 DEF Alerts
      <4> QED
        BY <4>1, Twins
    <3>4. Other(Other(m)) = m
      BY <3>2, <3>3 DEF Modes
    <3> QED
      BY <3>1, <3>2, <3>4 DEF Alerts
  <2> QED
    BY <2>1 DEF Created, Present, Resumption, Placed
<1>7. ASSUME NEW a \in Alerts, a \in batch, a[2] # mode, active, row[a].status \in Unfinished
      PROVE  ~Waits(a)'
  <2>1. row'[a] = Reconciled(batch, a)
    BY <1>2, <1>7
  <2>2. Reconciled(batch, a) = Settle(row[a], "cancelled")
    BY <1>7 DEF Reconciled
  <2> QED
    BY <2>1, <2>2, SettleSettles DEF Shapes, Statuses, Waits
<1>8. ASSUME NEW a \in Alerts, row'[a] # row[a]
      PROVE  /\ active /\ row'[a] = Reconciled(batch, a)
             /\ \/ a \in batch /\ row[a].status \in Unfinished
                \/ /\ twin(a) \in batch /\ row[twin(a)].status \in Unfinished
                   /\ a[2] = mode /\ ~Blocked(a[1])
  <2>1. active /\ row'[a] = Reconciled(batch, a)
    BY <1>2, <1>8
  <2> QED
    BY <1>8, <2>1 DEF Reconciled
<1>9. ASSUME NEW a \in Alerts PROVE row'[a].status = "sent" => row[a].status = "sent"
  <2>1. row'[a] = row[a] \/ row'[a] = Reconciled(batch, a)
    BY <1>2
  <2>2. \/ Reconciled(batch, a) = row[a]
        \/ Reconciled(batch, a).status \in {"pending", "failed", "cancelled"}
    BY ReconciledWaits
  <2> QED
    BY <2>1, <2>2
<1>10. ASSUME NEW a \in Alerts PROVE Delivered(a[1])' => Delivered(a[1])
  <2>1. \A m \in Modes : <<a[1], m>> \in Alerts
    BY Twins, AlertOf
  <2> QED
    BY <1>2, <1>9, <2>1 DEF Delivered
<1>11. ASSUME NEW a \in Alerts, Waits(a)' PROVE ~Delivered(a[1])
  <2>1. CASE row'[a] = row[a]
    BY <1>11, <2>1 DEF Done, OneAlert, Waits
  <2>2. CASE row'[a] # row[a]
    <3>1. row'[a] = Reconciled(batch, a)
      BY <1>2, <2>2
    <3>2. row[a] \in AnyRow /\ Settle(row[a], "cancelled").status = "cancelled"
      BY SettleSettles DEF Shapes, Statuses
    <3>3. ~Blocked(a[1])
      BY <1>11, <2>2, <3>1, <3>2 DEF Reconciled, Waits
    <3> QED
      BY <3>3 DEF Blocked
  <2> QED
    BY <2>1, <2>2
<1>12. ASSUME NEW a \in Alerts, Waits(a)', a[2] = mode PROVE ~Waits(twin(a))'
  <2> DEFINE b == twin(a)
  <2>1. b \in Alerts /\ b[2] # mode /\ twin(b) = a /\ b[1] = a[1]
    BY <1>6, <1>12, Twins DEF Alerts
  <2> SUFFICES ASSUME Waits(b)' PROVE FALSE
    OBVIOUS
  <2> HIDE DEF b
  <2>2. row'[b] = row[b]
    BY <1>7, <1>8, <2>1
  <2>3. Waits(b) /\ Present(b) /\ row[b].status \in Unfinished
    BY <2>2 DEF Waits, Present, Unfinished
  <2>4. ~Waits(a)
    BY <2>1, <2>3 DEF Done, OneAlert
  <2>5. row'[a] # row[a]
    BY <1>12, <2>4 DEF Waits
  <2>6. b \notin batch
    BY <1>7, <1>8, <1>12, <2>1, <2>3, <2>5
  <2>7. a \in batch /\ Present(a)
    BY <1>1, <1>6, <1>8, <1>12, <2>5, <2>6 DEF b
  <2>8. id[b] <= rec.from /\ id[a] > rec.from
    <3>1. id[b] \in Nat /\ rec.from \in Nat
      BY <2>1 DEF Resumption, Placed, Job
    <3> QED
      BY <1>3, <1>6, <2>1, <2>3, <2>6, <2>7, <3>1
  <2>9. id[a] <= rec.from
    BY <1>2, <2>1, <2>3, <2>7, <2>8 DEF Done, InOrder, Aligned
  <2> QED
    <3>1. id[a] \in Nat /\ rec.from \in Nat
      BY DEF Resumption, Placed, Job
    <3> QED
      BY <2>8, <2>9, <3>1
<1>13. OneAlert'
  <2> SUFFICES ASSUME NEW a \in Alerts, Waits(a)'
               PROVE  ~Delivered(a[1])' /\ ~Waits(twin(a))'
    BY DEF OneAlert
  <2>1. a[2] = mode \/ twin(a)[2] = mode
    BY Twins DEF Modes, Resumption, Placed
  <2> QED
    BY <1>6, <1>10, <1>11, <1>12, <2>1
<1>14. ASSUME NEW last \in batch, \A a \in batch : id[a] <= id[last],
              NEW a \in Alerts, Waits(a)', id'[a] <= id[last], Present(twin(a))'
       PROVE  id'[twin(a)] <= id[last]
  <2> DEFINE b == twin(a)
  <2>1. b \in Alerts /\ twin(b) = a
    BY <1>6
  <2> HIDE DEF b
  <2>2. last \in S /\ id[last] \in Nat /\ id[last] > rec.from /\ rec.from \in Nat
    BY <1>1, <1>6 DEF Resumption, Placed, Job
  <2>3. CASE Present(b)
    <3>1. id[b] \in Nat /\ id'[b] = id[b]
      BY <1>5, <2>1, <2>3 DEF Resumption, Placed
    <3>2. CASE b \in S
      BY <1>3, <1>14, <3>1, <3>2 DEF b, batch
    <3>3. CASE b \notin S
      <4>1. id[b] <= rec.from
        BY <1>6, <2>1, <2>2, <2>3, <3>1, <3>3
      <4> QED
        BY <2>2, <3>1, <4>1 DEF b
    <3> QED
      BY <3>2, <3>3
  <2>4. CASE ~Present(b)
    <3>1. row'[b] # row[b] /\ row[b].status = "absent"
      BY <1>14, <2>4 DEF Present, b
    <3>2. active /\ a \in batch /\ row[a].status \in Unfinished /\ b[2] = mode
      BY <1>8, <2>1, <3>1 DEF Unfinished
    <3>3. a[2] # mode
      BY <2>1, <3>2, Twins
    <3> QED
      BY <1>7, <1>14, <3>2, <3>3
  <2> QED
    BY <2>3, <2>4
<1>15. InOrder'
  <2>1. CASE Replaced
    <3>1. rec'.cursor = 0 /\ ~rec'.running
      BY <1>2, <1>4, <2>1 DEF Released, Resumption, Placed, Job, InStep
    <3>2. ASSUME NEW a \in Alerts, Present(a)' PROVE ~(id'[a] <= 0)
      BY <1>5, <3>2 DEF Placed
    <3>3. \A a \in Alerts : ~(Waits(a)' /\ id'[a] <= rec'.cursor)
      BY <3>1, <3>2 DEF Waits, Present
    <3> QED
      BY <3>1, <3>3 DEF InOrder, Aligned
  <2>2. CASE ~Replaced /\ batch = {}
    <3>1. rec' = [Released EXCEPT !.status = "none", !.cursor = 0]
      BY <1>4, <2>2, Zenon
    <3>2. rec'.status = "none" /\ ~rec'.running
      BY <3>1 DEF Released, Resumption, Placed, Job
    <3> QED
      BY <3>2 DEF InOrder
  <2>3. CASE ~Replaced /\ batch # {}
    <3>1. PICK last \in batch : /\ \A a \in batch : id[a] <= id[last]
                               /\ rec' = [Released EXCEPT !.status = "pending", !.cursor = id[last]]
      BY <1>4, <2>3
    <3>2. rec'.cursor = id[last] /\ ~rec'.running
      BY <3>1 DEF Released, Resumption, Placed, Job
    <3>3. Aligned(rec.cursor)'
      BY <1>14, <3>1, <3>2 DEF Aligned
    <3> QED
      BY <3>2, <3>3 DEF InOrder
  <2> QED
    BY <2>1, <2>2, <2>3
<1>16. Unheard'
  <2> SUFFICES ASSUME NEW a \in Alerts, a[1] \notin matched PROVE ~Present(a)' /\ a[1] \notin receipt
    BY <1>2 DEF Unheard
  <2>1. twin(a) \in Alerts /\ twin(a)[1] = a[1]
    BY Twins DEF Alerts
  <2>2. row[a].status = "absent" /\ row[twin(a)].status = "absent" /\ a[1] \notin receipt
    BY <2>1 DEF Done, Unheard, Present
  <2>3. row'[a] = row[a]
    BY <1>8, <2>2 DEF Unfinished
  <2> QED
    BY <2>2, <2>3 DEF Present
<1> QED
  BY <1>13, <1>15, <1>16 DEF Done

(* "without erasing sent history": while an alert is recorded as sent in one mode, or only
   its receipt is left, the offer has no alert waiting in the other, as long as all the
   rows of the subscriber fit in one batch. *)
THEOREM SentIsNotSentAgain ==
    ASSUME OneBatch
    PROVE  Spec => []DeliveredHasNoWork
<1>1. Init => Done
  BY Twins DEF Init, Done, OneAlert, InOrder, Unheard, Waits, Present, AbsentRow
<1>2. ASSUME Inv, Resumption, Done, [Next]_vars PROVE Done'
  <2>1. Shapes
    BY <1>2 DEF Inv
  <2>2. ASSUME NEW o \in Offers, QueueAlert(o) \/ ChangeOffer(o) PROVE Done'
    <3>1. CASE QueueAlert(o)
      BY <1>2, <2>1, <3>1, QueueDone
    <3>2. CASE ChangeOffer(o)
      <4>1. StartsNothing
        BY <3>2 DEF ChangeOffer, rows, job, StartsNothing, Present, Waits
      <4> QED
        BY <1>2, <2>1, <4>1, NothingStartsDone
    <3> QED
      BY <2>2, <3>1, <3>2
  <2>3. ASSUME (\E m \in Modes, fits \in SUBSET Offers : Activate(m, fits)) \/ Reactivate
        PROVE  Done'
    <3>1. Reconsider /\ UNCHANGED <<matched, row, id, receipt>>
      BY <2>3 DEF Activate, Reactivate, rows
    <3> QED
      BY <1>2, <3>1, StartDone
  <2>4. CASE Deactivate
    <3>1. /\ row' = [a \in Alerts |-> IF row[a].status \in {"pending", "processing", "failed"}
                                        THEN Settle(row[a], "cancelled") ELSE row[a]]
          /\ UNCHANGED <<mode, matched, id, receipt, rec, skipped>>
      BY <2>4 DEF Deactivate, job
    <3>2. \A a \in Alerts : \/ row'[a] = row[a]
                            \/ Waits(a) /\ row'[a].status = "cancelled"
      BY <2>1, <3>1, SettleSettles DEF Shapes, Statuses, Waits
    <3>3. StartsNothing
      BY <3>1, <3>2 DEF StartsNothing, Present, Waits
    <3> QED
      BY <1>2, <2>1, <3>3, NothingStartsDone
  <2>5. CASE ReconcileBatch
    BY <1>2, <2>1, <2>5, ReconcileDone
  <2>6. CASE \/ TimePasses \/ (\E a \in Alerts : AdminRetry(a) \/ PurgeSent(a))
             \/ (\E m \in Modes : FailExhausted(m)) \/ UNCHANGED vars
    BY <1>2, <2>1, <2>6, OthersWork, NothingStartsDone DEF Works
  <2>7. CASE Trouble \/ \E w \in Workers : WorkerStep(w)
    <3>1. PICK w \in Workers : \/ WorkerStep(w) \/ (\E m \in Modes : FailTake(w, m))
                               \/ FailFinalise(w) \/ Crash(w)
      BY <2>7 DEF Trouble
    <3> QED
      BY <1>2, <2>1, <3>1, WorkersWork, NothingStartsDone DEF Works
  <2>8. CASE JobStep
    BY <1>2, <2>8, JobDone
  <2> QED
    BY <1>2, <2>2, <2>3, <2>4, <2>5, <2>6, <2>7, <2>8 DEF Next, Environment, JobStep
<1>3. Done => DeliveredHasNoWork
  BY DEF Done, OneAlert, Waits, DeliveredHasNoWork
<1> QED
  BY Invariant, ResumptionHolds, <1>1, <1>2, <1>3, PTL DEF Spec

----------------------------------------------------------------------------
(* The selections of Listing. *)

(* Null is no date, region, type or term. *)
NullIsApart == None \notin Int \cup Regions \cup Types \cup Terms

(* Both languages say the same of one record. *)
LEMMA ScopeAgrees ==
    ASSUME NullIsApart, NEW pref \in Preference, NEW m \in Source \cup Offer
    PROVE  InScope(m, pref) <=> Suits(m, pref) /\ DatesAreOpen(m)
<1>1. /\ m.region \in Regions /\ m.type \in Types /\ m.term \in Terms \cup {None}
      /\ m.opening \in Int \cup {None} /\ m.closing \in Int \cup {None}
  BY DEF Source, Offer
<1>2. m.region # None /\ m.type # None
  BY <1>1 DEF NullIsApart
<1>3. pref.terms \subseteq Terms
  BY DEF Preference
<1>4. None \notin pref.terms
  BY <1>3 DEF NullIsApart
<1> QED
  BY <1>2, <1>4 DEF InScope, Suits, DatesAreOpen, Started, Ends, IsOneOf

LEMMA FiltersAgree ==
    ASSUME NEW m, NEW filter
    PROVE  Equals(m, filter) <=> SourceMatches(m, filter)
BY DEF Equals, SourceMatches

LEMMA OpenAgrees ==
    /\ \A s \in Source : SourceOpen(s) <=> Current(s) /\ DatesAreOpen(s)
    /\ \A offer \in Offer : SourceOpen(offer) <=> offer.open /\ DatesAreOpen(offer)
<1>1. ASSUME NEW s \in Source PROVE "season" \in DOMAIN s
  BY DEF Source
<1>2. ASSUME NEW offer \in Offer PROVE "season" \notin DOMAIN offer
  BY DEF Offer
<1> QED
  BY <1>1, <1>2 DEF SourceOpen, Current

(* The SQL that matches a user to the offers, and previews a preference, selects the
   offers that the Python asked before an alert or a page is queued, and again before
   it is sent, accepts. *)
THEOREM MatchingAgrees ==
    ASSUME NullIsApart, NEW pref \in Preference, NEW offers \in SUBSET Offer
    PROVE  MatchingQuery(offers, pref) =
             {offer \in offers : OfferIsOpen(offer) /\ OfferMatches(offer, pref)}
<1> SUFFICES ASSUME NEW offer \in offers
             PROVE  offer \in MatchingQuery(offers, pref)
                      <=> OfferIsOpen(offer) /\ OfferMatches(offer, pref)
  BY DEF MatchingQuery
<1>1. offer \in Offer /\ offer.sources \subseteq Source
  BY DEF Offer
<1>2. CASE offer.sources = {}
  BY <1>1, <1>2, ScopeAgrees DEF MatchingQuery, OfferIsOpen, OfferMatches
<1>3. CASE offer.sources # {}
  <2>1. (\E s \in offer.sources : s.season = Season /\ InScope(s, pref) /\ s.open)
          <=> \E s \in offer.sources : Suits(s, pref) /\ Current(s) /\ DatesAreOpen(s)
    BY <1>1, ScopeAgrees DEF Current
  <2> QED
    BY <1>3, <2>1 DEF MatchingQuery, OfferIsOpen, OfferMatches
<1> QED
  BY <1>2, <1>3

(* The dashboard lists an offer, on whichever page, exactly when its card has a source
   to show; of the current offers, when the offer is open besides. *)
THEOREM CardsHaveSources ==
    ASSUME NullIsApart, NEW pref \in Preference, NEW filter \in Filter,
           NEW history \in BOOLEAN, NEW offers \in SUBSET Offer
    PROVE  Browse(offers, pref, filter, history) =
             {offer \in offers : /\ history \/ offer.open
                                 /\ Shown(offer, pref, filter, history) # {}}
<1> SUFFICES ASSUME NEW offer \in offers
             PROVE  offer \in Browse(offers, pref, filter, history)
                      <=> (history \/ offer.open) /\ Shown(offer, pref, filter, history) # {}
  BY DEF Browse
<1>1. offer \in Offer /\ offer.sources \subseteq Source
  BY DEF Offer
<1>2. CASE offer.sources = {}
  <2>1. Shown(offer, pref, filter, history) # {}
          <=> (history \/ (SourceOpen(offer) /\ Suits(offer, pref))) /\ SourceMatches(offer, filter)
    BY <1>2 DEF Shown, RelevantSources
  <2>2. SourceOpen(offer) /\ Suits(offer, pref) <=> offer.open /\ InScope(offer, pref)
    BY <1>1, ScopeAgrees, OpenAgrees
  <2> QED
    BY <1>2, <2>1, <2>2, FiltersAgree DEF Browse
<1>3. CASE offer.sources # {}
  <2>1. Shown(offer, pref, filter, history) # {}
          <=> \E s \in offer.sources : /\ history \/ (SourceOpen(s) /\ Suits(s, pref))
                                       /\ SourceMatches(s, filter)
    BY <1>3 DEF Shown, RelevantSources
  <2>2. ASSUME NEW s \in offer.sources
        PROVE  Selected(s, pref, filter, history)
                 <=> (history \/ (SourceOpen(s) /\ Suits(s, pref))) /\ SourceMatches(s, filter)
    BY <1>1, ScopeAgrees, OpenAgrees, FiltersAgree DEF Selected, SourceScope, Current
  <2> QED
    BY <1>3, <2>1, <2>2 DEF Browse
<1> QED
  BY <1>2, <1>3

(* An offer that may be alerted, once matched, is on the dashboard with no filter set,
   and its card says it is open. *)
THEOREM AlertedIsListed ==
    ASSUME NullIsApart, NEW pref \in Preference, NEW offers \in SUBSET Offer,
           NEW offer \in offers, OfferIsOpen(offer), OfferMatches(offer, pref)
    PROVE  /\ offer \in Browse(offers, pref, NoFilter, FALSE)
           /\ CardIsOpen(offer, Shown(offer, pref, NoFilter, FALSE))
<1>1. offer \in Offer /\ offer.sources \subseteq Source /\ NoFilter \in Filter
  BY DEF Offer, NoFilter, Filter
<1>2. \A s : SourceMatches(s, NoFilter)
  BY DEF SourceMatches, NoFilter
<1>3. \E s \in Shown(offer, pref, NoFilter, FALSE) : SourceOpen(s)
  <2>1. CASE offer.sources = {}
    BY <1>1, <1>2, <2>1, OpenAgrees
    DEF Shown, RelevantSources, OfferIsOpen, OfferMatches
  <2>2. CASE offer.sources # {}
    BY <1>1, <1>2, <2>2, OpenAgrees
    DEF Shown, RelevantSources, OfferMatches
  <2> QED
    BY <2>1, <2>2
<1>4. offer.open
  BY DEF OfferIsOpen
<1>5. Browse(offers, pref, NoFilter, FALSE) =
        {listed \in offers : (FALSE \/ listed.open) /\ Shown(listed, pref, NoFilter, FALSE) # {}}
  BY <1>1, CardsHaveSources
<1> QED
  BY <1>3, <1>4, <1>5 DEF CardIsOpen

(* No choice of a filter is a dead end: each value the dashboard offers, but the one
   that is in force already, lists an offer when it is the only filter. *)
THEOREM OptionsLeadSomewhere ==
    ASSUME NullIsApart, NEW pref \in Preference, NEW filter \in Filter,
           NEW history \in BOOLEAN, NEW offers \in SUBSET Offer,
           NEW key \in {"region", "type", "term"},
           NEW value \in Options(offers, pref, filter, history, key) \ {filter[key]}
    PROVE  Browse(offers, pref, [NoFilter EXCEPT ![key] = value], history) # {}
<1> DEFINE only == [NoFilter EXCEPT ![key] = value]
<1>0. value # None /\ value # filter[key]
  BY DEF Options, NullIsApart
<1>1. ASSUME NEW m, m[key] = value PROVE Equals(m, only)
  BY <1>0, <1>1 DEF Equals, NoFilter
<1>2. PICK offer \in offers :
        /\ history \/ offer.open
        /\ \/ \E s \in offer.sources : SourceScope(s, pref, history) /\ s[key] = value
           \/ /\ offer.sources = {} /\ offer[key] = value
              /\ history \/ InScope(offer, pref)
  BY <1>0 DEF Options
<1>3. offer \in Browse(offers, pref, only, history)
  BY <1>1, <1>2 DEF Browse, Selected
<1> QED
  BY <1>3

(* The order by closing date is the order of the deadlines the cards display: always for
   the current offers, and in the history if no offer that is closed keeps a source
   that is open, as the collectors see to. *)
THEOREM SortedAsDisplayed ==
    ASSUME NullIsApart, NEW pref \in Preference, NEW filter \in Filter,
           NEW history \in BOOLEAN, NEW offers \in SUBSET Offer,
           NEW offer \in Browse(offers, pref, filter, history),
           offer.open \/ \A s \in offer.sources : ~Current(s)
    PROVE  SortDeadline(offer, pref, filter, history)
             = CardDeadline(offer, Shown(offer, pref, filter, history))
<1>1. offer \in Offer /\ offer.sources \subseteq Source
  BY DEF Offer, Browse
<1>2. CASE offer.sources = {}
  <2> DEFINE dates == {s.closing : s \in {t \in Shown(offer, pref, filter, history) :
                         SourceOpen(t) /\ t.closing # None /\ offer.open}}
  <2>1. Shown(offer, pref, filter, history) = {offer}
    <3>1. Shown(offer, pref, filter, history) \subseteq {offer}
      BY <1>2 DEF Shown, RelevantSources
    <3>2. Shown(offer, pref, filter, history) # {}
      BY CardsHaveSources
    <3> QED
      BY <3>1, <3>2
  <2>2. /\ offer.opening \in Int \cup {None} /\ offer.closing \in Int \cup {None}
        /\ SourceOpen(offer) <=> offer.open /\ DatesAreOpen(offer)
    BY <1>1, OpenAgrees DEF Offer
  <2>3. CASE offer.open /\ Started(offer) /\ Ends(offer)
    <3>1. dates = {offer.closing} /\ offer.closing \in Int
      BY <2>1, <2>2, <2>3 DEF DatesAreOpen, Started, Ends
    <3>2. Earliest(dates) = offer.closing
      BY <3>1 DEF Earliest
    <3> QED
      BY <1>2, <2>3, <3>2 DEF SortDeadline, CardDeadline
  <2>4. CASE ~(offer.open /\ Started(offer) /\ Ends(offer))
    <3>1. dates = {}
      BY <2>1, <2>2, <2>4 DEF DatesAreOpen, Started, Ends
    <3>2. Earliest(dates) = None
      BY <3>1 DEF Earliest
    <3> QED
      BY <1>2, <2>4, <3>2 DEF SortDeadline, CardDeadline
  <2> QED
    BY <2>3, <2>4
<1>3. CASE offer.sources # {}
  <2> DEFINE inSql == {t \in offer.sources : /\ Selected(t, pref, filter, history)
                                             /\ Current(t) /\ Started(t) /\ Ends(t)}
             onCard == {t \in Shown(offer, pref, filter, history) :
                          SourceOpen(t) /\ t.closing # None /\ offer.open}
  <2>1. ASSUME NEW t \in offer.sources PROVE t \in inSql <=> t \in onCard
    <3>1. SourceOpen(t) <=> Current(t) /\ DatesAreOpen(t)
      BY <1>1, OpenAgrees
    <3>2. t \in Shown(offer, pref, filter, history)
            <=> (history \/ (SourceOpen(t) /\ Suits(t, pref))) /\ SourceMatches(t, filter)
      BY <1>3 DEF Shown, RelevantSources
    <3>3. InScope(t, pref) <=> Suits(t, pref) /\ DatesAreOpen(t)
      BY <1>1, ScopeAgrees
    <3>4. Selected(t, pref, filter, history)
            <=> (history \/ (SourceOpen(t) /\ Suits(t, pref))) /\ SourceMatches(t, filter)
      BY <3>1, <3>3, FiltersAgree DEF Selected, SourceScope, Current
    <3>5. DatesAreOpen(t) /\ t.closing # None <=> Started(t) /\ Ends(t)
      BY DEF DatesAreOpen, Started, Ends
    <3> QED
      BY <3>1, <3>2, <3>4, <3>5
  <2>2. Shown(offer, pref, filter, history) \subseteq offer.sources
    BY <1>3 DEF Shown, RelevantSources
  <2>3. inSql = onCard
    BY <2>1, <2>2
  <2> HIDE DEF inSql, onCard
  <2>4. {s.closing : s \in inSql} = {s.closing : s \in onCard}
    BY <2>3
  <2> QED
    BY <1>3, <2>4 DEF SortDeadline, CardDeadline, inSql, onCard
<1> QED
  BY <1>2, <1>3

(* Every place of the order is on exactly one page; whatever page is asked for, the one
   shown has something on it if anything was selected, and its labels name what it
   shows. *)
THEOREM PagesPartition ==
    ASSUME NEW total \in Nat
    PROVE  /\ \A i \in 1..total :
                /\ \E page \in 1..Pages(total) : i \in OnPage(page, total)
                /\ \A page, other \in 1..Pages(total) :
                     i \in OnPage(page, total) /\ i \in OnPage(other, total) => page = other
           /\ \A asked \in Int : LET page == PageShown(asked, total) IN
                /\ page \in 1..Pages(total)
                /\ OnPage(page, total) =
                     {i \in 1..total : FirstLabel(page, total) <= i /\ i <= LastLabel(page, total)}
                /\ total # 0 => OnPage(page, total) # {}
<1>1. /\ Pages(total) \in Nat /\ Pages(total) >= 1
      /\ total <= Pages(total) * 20
      /\ total # 0 => (Pages(total) - 1) * 20 < total
  BY DEF Pages, PageSize
<1>2. ASSUME NEW i \in 1..total
      PROVE  /\ \E page \in 1..Pages(total) : i \in OnPage(page, total)
             /\ \A page, other \in 1..Pages(total) :
                  i \in OnPage(page, total) /\ i \in OnPage(other, total) => page = other
  <2> DEFINE page == (i - 1) \div 20 + 1
  <2>1. page \in Int /\ (page - 1) * 20 < i /\ i <= (page - 1) * 20 + 20
    OBVIOUS
  <2> HIDE DEF page
  <2>2. page \in 1..Pages(total)
    BY <1>1, <2>1
  <2>3. i \in OnPage(page, total)
    BY <2>1 DEF OnPage, PageSize
  <2>4. ASSUME NEW one \in 1..Pages(total), NEW other \in 1..Pages(total),
               i \in OnPage(one, total), i \in OnPage(other, total)
        PROVE  one = other
    BY <2>4 DEF OnPage, PageSize
  <2> QED
    BY <2>2, <2>3, <2>4
<1>3. ASSUME NEW asked \in Int
      PROVE  LET page == PageShown(asked, total) IN
             /\ page \in 1..Pages(total)
             /\ OnPage(page, total) =
                  {i \in 1..total : FirstLabel(page, total) <= i /\ i <= LastLabel(page, total)}
             /\ total # 0 => OnPage(page, total) # {}
  <2> DEFINE page == PageShown(asked, total)
  <2>1. page \in 1..Pages(total)
    BY <1>1 DEF PageShown
  <2> HIDE DEF page
  <2>2. ASSUME NEW i \in 1..total
        PROVE  (page - 1) * 20 < i /\ i <= (page - 1) * 20 + 20
                 <=> FirstLabel(page, total) <= i /\ i <= LastLabel(page, total)
    BY <2>1, <1>1 DEF FirstLabel, LastLabel, PageSize
  <2>3. total # 0 => OnPage(page, total) # {}
    <3> SUFFICES ASSUME total # 0 PROVE (page - 1) * 20 + 1 \in OnPage(page, total)
      OBVIOUS
    <3>1. (page - 1) * 20 < total
      BY <1>1, <2>1
    <3> QED
      BY <2>1, <3>1 DEF OnPage, PageSize
  <2> QED
    BY <2>1, <2>2, <2>3 DEF OnPage, PageSize, page
<1> QED
  BY <1>2, <1>3
===============================================================================
