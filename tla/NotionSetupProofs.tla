--------------------------- MODULE NotionSetupProofs ---------------------------
(****************************************************************************)
(* The Notion destination, for any number of workspaces, workers,           *)
(* connections, requests and faults: no second database is made while an    *)
(* account stays connected to a workspace, and none that was made is        *)
(* forgotten.                                                               *)
(*                                                                          *)
(* The argument is about the era, the time between two changes of           *)
(* workspace.  Creation of a database starts with a claim.  Once it has     *)
(* started in this era, either there is a destination or the connection and *)
(* its job say that there may be (Remembered): no claim follows.  The one   *)
(* way back is an answer that nothing was made; it comes from the worker    *)
(* that holds the claim, and whatever was made in this era would have been  *)
(* made by that worker (ClaimsSound).                                       *)
(****************************************************************************)
EXTENDS NotionSetup, TLAPS

CallingIn(w, e) == worker[w].pc = "calling" /\ worker[w].era = e

Made(e) == \E d \in DOMAIN databases : databases[d].era = e

\* A creation was started in this era, and was not refused.
Started == Made(era) \/ \E w \in Workers : CallingIn(w, era)

\* What the types leave open.
Bounded ==
    /\ conn.exists => conn.id # 0
    /\ \A k \in Ids : job[k].status = "pending" => job[k].attempts < MaxAttempts
    /\ \A w \in Workers :
         /\ worker[w].pc # "idle" => worker[w].key # 0
         /\ worker[w].pc = "answered" /\ worker[w].answer = "created"
              => worker[w].made \in DOMAIN databases

TypeInv == TypeOK /\ Bounded

\* Nothing is made, nor about to be, in an era to come.
ErasPast ==
    /\ \A d \in DOMAIN databases : databases[d].era <= era
    /\ \A w \in Workers : worker[w].pc = "calling" => worker[w].era <= era

\* Who is about to make a database is the first of its era.
Alone ==
    \A w \in Workers :
      worker[w].pc = "calling" =>
        /\ ~Made(worker[w].era)
        /\ \A v \in Workers \ {w} : ~CallingIn(v, worker[w].era)

\* The worker holds the claim of the connection, and its answer is, or may be, that
\* nothing was made.
MayRefuse(w) ==
    /\ \/ worker[w].pc = "calling"
       \/ worker[w].pc = "answered" /\ worker[w].answer = "rejected"
    /\ Connected(worker[w].key)
    /\ Owns(w)

ClaimsSound ==
    \A w \in Workers :
      MayRefuse(w) => ~Made(era) /\ \A v \in Workers \ {w} : ~CallingIn(v, era)

\* No claim can follow before the workspace changes.
Closed ==
    conn.exists /\ conn.source = 0 =>
      /\ conn.status \in {"creating", "uncertain"}
      /\ job[conn.id].status \notin {"pending", "failed"}

Remembered == Started => Closed

Inv == TypeInv /\ ErasPast /\ Alone /\ ClaimsSound /\ Remembered /\ CreatedOnce

----------------------------------------------------------------------------
(* Types. *)

LEMMA Constants ==
    /\ Anywhere \in Workspaces
    /\ NoConnection \in Connection /\ AbsentJob \in Job
    /\ IdleWorker \in WorkerRow /\ NoRecovery \in Recovery
<1>1. Anywhere \in Workspaces
  BY NotionSetupAssumption DEF Anywhere
<1>2. NoConnection \in Connection
  BY <1>1, NotionSetupAssumption DEF NoConnection, Connection
<1>3. AbsentJob \in Job
  BY <1>1, NotionSetupAssumption DEF AbsentJob, Job
<1>4. IdleWorker \in WorkerRow
  BY <1>1, NotionSetupAssumption DEF IdleWorker, WorkerRow
<1>5. NoRecovery \in Recovery
  BY NotionSetupAssumption DEF NoRecovery, Recovery
<1> QED
  BY <1>1, <1>2, <1>3, <1>4, <1>5

LEMMA EditCounts ==
    ASSUME TypeOK, Edit
    PROVE  edits' \in 0..MaxEdits /\ faults' \in 0..MaxFaults
BY NotionSetupAssumption DEF TypeOK, Edit

LEMMA FaultCounts ==
    ASSUME TypeOK, Fault
    PROVE  edits' \in 0..MaxEdits /\ faults' \in 0..MaxFaults
BY NotionSetupAssumption DEF TypeOK, Fault

LEMMA RestIdles ==
    ASSUME TypeInv, NEW w \in Workers, Rest(w)
    PROVE  /\ worker' \in [Workers -> WorkerRow]
           /\ worker'[w] = IdleWorker /\ worker'[w].pc = "idle"
           /\ \A v \in Workers \ {w} : worker'[v] = worker[v]
<1>1. IdleWorker.pc = "idle"
  BY DEF IdleWorker
<1> QED
  BY <1>1, Constants DEF Rest, TypeInv, TypeOK

LEMMA AnsweredAnswers ==
    ASSUME TypeInv, NEW w \in Workers,
           NEW answer \in {"created", "rejected", "unknown"}, NEW made \in Nat,
           Answered(w, answer, made)
    PROVE  /\ worker' \in [Workers -> WorkerRow]
           /\ worker'[w].pc = "answered" /\ worker'[w].answer = answer
           /\ worker'[w].made = made /\ worker'[w].key = worker[w].key
           /\ \A v \in Workers \ {w} : worker'[v] = worker[v]
<1>1. worker[w] \in WorkerRow /\ worker \in [Workers -> WorkerRow]
  BY DEF TypeInv, TypeOK
<1> DEFINE new == [worker[w] EXCEPT !.pc = "answered", !.answer = answer, !.made = made]
<1>2. new \in WorkerRow
  BY <1>1 DEF WorkerRow
<1>3. /\ new.pc = "answered" /\ new.answer = answer
      /\ new.made = made /\ new.key = worker[w].key
  BY <1>1 DEF WorkerRow
<1>4. worker' = [worker EXCEPT ![w] = new]
  BY DEF Answered
<1> QED
  BY <1>1, <1>2, <1>3, <1>4

\* One row of the jobs is replaced by one that keeps the bound on attempts.
LEMMA JobReplaced ==
    ASSUME TypeInv, NEW k \in Ids, NEW row \in Job,
           row.status = "pending" => row.attempts < MaxAttempts,
           job' = [job EXCEPT ![k] = row]
    PROVE  /\ job' \in [Ids -> Job]
           /\ job'[k] = row /\ \A l \in Ids \ {k} : job'[l] = job[l]
           /\ \A l \in Ids : job'[l].status = "pending" => job'[l].attempts < MaxAttempts
BY DEF TypeInv, TypeOK, Bounded

LEMMA ConnectedIds ==
    ASSUME TypeInv
    PROVE  /\ conn.exists => conn.id \in Ids
           /\ \A w \in Workers : worker[w].pc # "idle" => worker[w].key \in Ids
<1>1. /\ conn.id \in 0..MaxConnections
      /\ \A w \in Workers : worker[w].key \in 0..MaxConnections
  BY DEF TypeInv, TypeOK, Connection, WorkerRow
<1> QED
  BY <1>1, NotionSetupAssumption DEF TypeInv, Bounded, Ids

\* The requests touch no worker, and no database.
LEMMA RequestsKeepTypes ==
    ASSUME TypeInv, Request
    PROVE  TypeInv'
<1> USE NotionSetupAssumption
<1>1. /\ conn \in Connection /\ job \in [Ids -> Job] /\ recovery \in Recovery
      /\ conn.exists => conn.id \in Ids
  BY ConnectedIds DEF TypeInv, TypeOK
<1>2. worker' = worker /\ databases' = databases
  BY DEF Request, Connect, Move, Renew, Ask, Disconnect, Toggle, AdminRetry, Purge,
         StartRecovery, FinishRecovery, AbandonRecovery
<1>3. edits' \in 0..MaxEdits /\ faults' \in 0..MaxFaults
  BY EditCounts, FaultCounts
     DEF Request, Connect, Move, Renew, Ask, Disconnect, Toggle, AdminRetry, Purge,
         StartRecovery, FinishRecovery, AbandonRecovery, TypeInv, TypeOK, bounds
<1>4. ASSUME NEW s \in Workspaces, Connect(s) PROVE TypeInv'
  <2> DEFINE new == [NoConnection EXCEPT !.exists = TRUE, !.id = conn.id + 1, !.workspace = s,
                                         !.credential = edits']
  <2>1. conn.id + 1 \in 0..MaxConnections /\ conn.id + 1 # 0
    BY <1>1, <1>4 DEF Connect, Connection
  <2>2. new \in Connection /\ new.id # 0
    BY <1>3, <2>1, Constants DEF Connection
  <2>3. conn' = new /\ era' = era + 1 /\ UNCHANGED <<active, job, recovery>>
    BY <1>4 DEF Connect
  <2> QED
    BY <1>2, <1>3, <2>2, <2>3 DEF TypeInv, TypeOK, Bounded
<1>5. ASSUME NEW s \in Workspaces, Move(s) PROVE TypeInv'
  <2>1. conn' \in Connection /\ conn'.id = conn.id /\ conn'.exists = conn.exists
    BY <1>1, <1>3, <1>5 DEF Move, Connection
  <2>2. era' = era + 1 /\ UNCHANGED <<active, job, recovery>>
    BY <1>5 DEF Move
  <2> QED
    BY <1>2, <1>3, <2>1, <2>2 DEF TypeInv, TypeOK, Bounded
<1>6. CASE Renew
  <2>1. conn' \in Connection /\ conn'.id = conn.id /\ conn'.exists = conn.exists
    BY <1>1, <1>3, <1>6 DEF Renew, Connection
  <2>2. UNCHANGED <<active, job, recovery, era>>
    BY <1>6 DEF Renew
  <2> QED
    BY <1>2, <1>3, <2>1, <2>2 DEF TypeInv, TypeOK, Bounded
<1>7. CASE Ask
  <2>1. conn' \in Connection /\ conn'.id = conn.id /\ conn'.exists = conn.exists
    BY <1>1, <1>7 DEF Ask, Connection
  <2>2. conn.id \in Ids /\ UNCHANGED <<active, recovery, era>>
    BY <1>1, <1>7 DEF Ask, MayAsk
  <2> DEFINE row == [job[conn.id] EXCEPT !.status = "pending", !.page = conn.workspace,
                                         !.attempts = 0]
  <2>3. job[conn.id] \in Job /\ conn.workspace \in Workspaces /\ 0 \in 0..MaxAttempts /\ 0 < MaxAttempts
    BY <1>1, <2>2 DEF Connection
  <2>4. row \in Job /\ row.attempts < MaxAttempts
    BY <2>3 DEF Job
  <2>5. job' = [job EXCEPT ![conn.id] = row]
    BY <1>7 DEF Ask
  <2>6. /\ job' \in [Ids -> Job]
        /\ \A l \in Ids : job'[l].status = "pending" => job'[l].attempts < MaxAttempts
    BY <2>2, <2>4, <2>5, JobReplaced
  <2> QED
    BY <1>2, <1>3, <2>1, <2>2, <2>6 DEF TypeInv, TypeOK, Bounded
<1>8. CASE Disconnect
  <2>1. conn' \in Connection /\ ~conn'.exists
    BY <1>1, <1>8, Constants DEF Disconnect, Connection, NoConnection
  <2>2. UNCHANGED <<active, job, recovery, era>>
    BY <1>8 DEF Disconnect
  <2> QED
    BY <1>2, <1>3, <2>1, <2>2 DEF TypeInv, TypeOK, Bounded
<1>9. CASE Toggle
  <2>1. active' \in BOOLEAN /\ UNCHANGED <<conn, job, recovery, era>>
    BY <1>9 DEF Toggle, TypeInv, TypeOK
  <2> QED
    BY <1>2, <1>3, <2>1 DEF TypeInv, TypeOK, Bounded
<1>10. ASSUME NEW k \in Ids, AdminRetry(k) PROVE TypeInv'
  <2> DEFINE row == [job[k] EXCEPT !.status = "pending", !.attempts = 0, !.by = Nobody,
                                   !.leased = FALSE]
  <2>1. job[k] \in Job /\ 0 \in 0..MaxAttempts /\ 0 < MaxAttempts
    BY <1>1
  <2>2. row \in Job /\ row.attempts < MaxAttempts
    BY <2>1 DEF Job
  <2>3. job' = [job EXCEPT ![k] = row] /\ UNCHANGED <<active, conn, recovery, era>>
    BY <1>10 DEF AdminRetry
  <2>4. /\ job' \in [Ids -> Job]
        /\ \A l \in Ids : job'[l].status = "pending" => job'[l].attempts < MaxAttempts
    BY <2>2, <2>3, JobReplaced
  <2> QED
    BY <1>2, <1>3, <2>3, <2>4 DEF TypeInv, TypeOK, Bounded
<1>11. ASSUME NEW k \in Ids, Purge(k) PROVE TypeInv'
  <2>1. AbsentJob \in Job /\ AbsentJob.status # "pending"
    BY Constants DEF AbsentJob
  <2>2. /\ job' \in [Ids -> Job]
        /\ \A l \in Ids : job'[l].status = "pending" => job'[l].attempts < MaxAttempts
    BY <1>11, <2>1, JobReplaced DEF Purge
  <2>3. UNCHANGED <<active, conn, recovery, era>>
    BY <1>11 DEF Purge
  <2> QED
    BY <1>2, <1>3, <2>2, <2>3 DEF TypeInv, TypeOK, Bounded
<1>12. CASE StartRecovery
  <2>1. recovery' \in Recovery
    BY <1>1, <1>12 DEF StartRecovery, Recovery, Connection
  <2>2. UNCHANGED <<active, conn, job, era>>
    BY <1>12 DEF StartRecovery
  <2> QED
    BY <1>2, <1>3, <2>1, <2>2 DEF TypeInv, TypeOK, Bounded
<1>13. ASSUME NEW d \in DOMAIN databases, FinishRecovery(d) PROVE TypeInv'
  <2>1. /\ recovery' \in Recovery
        /\ UNCHANGED <<active, era>>
    BY <1>13, Constants DEF FinishRecovery
  <2>2. /\ conn' \in Connection /\ conn'.id = conn.id /\ conn'.exists = conn.exists
    <3>1. d \in Nat
      BY DEF TypeInv, TypeOK
    <3> QED
      BY <1>1, <1>13, <3>1 DEF FinishRecovery, Connection
  <2>3. /\ job' \in [Ids -> Job]
        /\ \A l \in Ids : job'[l].status = "pending" => job'[l].attempts < MaxAttempts
    <3>1. CASE job' = job
      BY <3>1 DEF TypeInv, TypeOK, Bounded
    <3>2. CASE job' # job
      <4> DEFINE row == [job[conn.id] EXCEPT !.status = "done", !.leased = FALSE]
      <4>1. conn.id \in Ids /\ job' = [job EXCEPT ![conn.id] = row]
        BY <1>1, <1>13, <3>2 DEF FinishRecovery, StillValid, Connected
      <4>2. row \in Job /\ row.status # "pending"
        BY <1>1, <4>1 DEF Job
      <4> QED
        BY <4>1, <4>2, JobReplaced
    <3> QED
      BY <3>1, <3>2
  <2> QED
    BY <1>2, <1>3, <2>1, <2>2, <2>3 DEF TypeInv, TypeOK, Bounded
<1>14. CASE AbandonRecovery
  <2>1. recovery' \in Recovery /\ UNCHANGED <<active, conn, job, era>>
    BY <1>14, Constants DEF AbandonRecovery
  <2> QED
    BY <1>2, <1>3, <2>1 DEF TypeInv, TypeOK, Bounded
<1> QED
  BY <1>4, <1>5, <1>6, <1>7, <1>8, <1>9, <1>10, <1>11, <1>12, <1>13, <1>14 DEF Request

\* The worker changes its row alone; a settled job waits no more.
LEMMA WorkersKeepTypes ==
    ASSUME TypeInv, NEW w \in Workers, Works(w) \/ Fail(w) \/ Crash(w)
    PROVE  TypeInv'
<1> USE NotionSetupAssumption
<1> DEFINE k == worker[w].key
           SoundJobs == /\ job' \in [Ids -> Job]
                        /\ \A l \in Ids : job'[l].status = "pending" => job'[l].attempts < MaxAttempts
           Same == UNCHANGED <<active, databases, recovery, era>>
           SoundConn == conn' \in Connection /\ conn'.id = conn.id /\ conn'.exists = conn.exists
           SoundCounts == edits' \in 0..MaxEdits /\ faults' \in 0..MaxFaults
<1>1. /\ conn \in Connection /\ job \in [Ids -> Job] /\ worker \in [Workers -> WorkerRow]
      /\ worker[w] \in WorkerRow
      /\ conn.exists => conn.id \in Ids
      /\ worker[w].pc # "idle" => k \in Ids
  BY ConnectedIds DEF TypeInv, TypeOK
<1>2. ASSUME NEW status \in {"uncertain", "cancelled", "done", "failed"}, NEW l \in Ids,
             job' = [job EXCEPT ![l].status = status]
               \/ job' = [job EXCEPT ![l] = [job[l] EXCEPT !.status = status, !.leased = FALSE]]
      PROVE  SoundJobs
  <2>1. PICK row \in Job : row.status = status /\ job' = [job EXCEPT ![l] = row]
    <3>1. /\ [job[l] EXCEPT !.status = status] \in Job
          /\ [job[l] EXCEPT !.status = status, !.leased = FALSE] \in Job
      BY <1>1 DEF Job
    <3>2. CASE job' = [job EXCEPT ![l].status = status]
      <4>1. job' = [job EXCEPT ![l] = [job[l] EXCEPT !.status = status]]
        BY <1>1, <3>2
      <4> QED
        BY <1>1, <3>1, <4>1 DEF Job
    <3>3. CASE job' = [job EXCEPT ![l] = [job[l] EXCEPT !.status = status, !.leased = FALSE]]
      BY <1>1, <3>1, <3>3 DEF Job
    <3> QED
      BY <1>2, <3>2, <3>3
  <2> QED
    BY <2>1, JobReplaced
<1>3. ASSUME SoundJobs, SoundConn, Same, SoundCounts, Rest(w) PROVE TypeInv'
  <2>1. /\ worker' \in [Workers -> WorkerRow] /\ worker'[w].pc = "idle"
        /\ \A v \in Workers \ {w} : worker'[v] = worker[v]
    BY <1>3, RestIdles
  <2> QED
    BY <1>3, <2>1 DEF TypeInv, TypeOK, Bounded
<1>4. SoundCounts
  BY FaultCounts DEF Works, Select, Skip, MarkUncertain, Drop, Claim, Create, Refuse, Finalise,
                     Fail, Crash, TypeInv, TypeOK, bounds
<1>5. job' = job => SoundJobs
  BY DEF TypeInv, TypeOK, Bounded
<1>6. conn' = conn => SoundConn
  BY <1>1
<1>7. ASSUME NEW status \in {"idle", "pending", "creating", "uncertain", "failed", "ready"},
             conn' = [conn EXCEPT !.status = status]
      PROVE  SoundConn
  BY <1>1, <1>7 DEF Connection
<1>8. ASSUME NEW l \in Ids, Select(w, l) PROVE TypeInv'
  <2> DEFINE new == [IdleWorker EXCEPT !.pc = "selected", !.key = l, !.page = job[l].page]
  <2>1. job[l].page \in Workspaces /\ l \in 0..MaxConnections /\ l # 0
    BY <1>1 DEF Job, Ids
  <2>2. new \in WorkerRow /\ new.pc = "selected" /\ new.key # 0
    BY <2>1, Constants DEF WorkerRow
  <2>3. worker' = [worker EXCEPT ![w] = new] /\ Same /\ UNCHANGED <<conn, job>>
    BY <1>8 DEF Select
  <2> QED
    BY <1>1, <1>4, <2>2, <2>3 DEF TypeInv, TypeOK, Bounded
<1>9. CASE Skip(w)
  BY <1>3, <1>4, <1>5, <1>6, <1>9 DEF Skip
<1>10. CASE MarkUncertain(w)
  <2>1. k \in Ids
    BY <1>1, <1>10 DEF MarkUncertain
  <2>2. SoundJobs
    BY <1>2, <1>10, <2>1 DEF MarkUncertain, SetJob
  <2>3. SoundConn
    BY <1>6, <1>7, <1>10 DEF MarkUncertain
  <2> QED
    BY <1>3, <1>4, <1>10, <2>2, <2>3 DEF MarkUncertain
<1>11. CASE Drop(w)
  <2>1. k \in Ids
    BY <1>1, <1>11 DEF Drop
  <2>2. SoundJobs
    BY <1>2, <1>11, <2>1 DEF Drop, SetJob
  <2> QED
    BY <1>3, <1>4, <1>6, <1>11, <2>2 DEF Drop
<1>12. CASE Claim(w)
  <2> DEFINE row == [job[k] EXCEPT !.status = "processing", !.by = w, !.leased = TRUE,
                                   !.attempts = @ + 1]
             new == [worker[w] EXCEPT !.pc = "calling", !.workspace = conn.workspace, !.era = era]
  <2>1. k \in Ids /\ job[k] \in Job /\ job[k].status = "pending"
    BY <1>1, <1>12 DEF Claim, Claimable
  <2>2. job[k].attempts + 1 \in 0..MaxAttempts
    BY <2>1 DEF TypeInv, Bounded, Job
  <2>3. row \in Job /\ row.status # "pending"
    BY <2>1, <2>2 DEF Job
  <2>4. job' = [job EXCEPT ![k] = row] /\ worker' = [worker EXCEPT ![w] = new] /\ Same
    BY <1>12 DEF Claim
  <2>5. SoundJobs
    BY <2>1, <2>3, <2>4, JobReplaced
  <2>6. SoundConn
    BY <1>7, <1>12 DEF Claim
  <2>7. conn.workspace \in Workspaces /\ era \in Nat
    BY <1>1 DEF Connection, TypeInv, TypeOK
  <2>8. new \in WorkerRow /\ new.pc = "calling" /\ new.key = k
    BY <1>1, <2>7 DEF WorkerRow
  <2>9. k # 0
    BY <1>12 DEF Claim, TypeInv, Bounded
  <2> QED
    BY <1>1, <1>4, <2>4, <2>5, <2>6, <2>8, <2>9 DEF TypeInv, TypeOK, Bounded
<1>13. CASE Create(w)
  <2>1. k # 0
    BY <1>13 DEF Create, TypeInv, Bounded
  <2> DEFINE base == [workspace |-> worker[w].workspace, era |-> worker[w].era]
  <2>2. databases \in Seq(Database) /\ base \in Database /\ databases' = Append(databases, base)
    BY <1>1, <1>13 DEF Create, Database, WorkerRow, TypeInv, TypeOK
  <2>3. /\ databases' \in Seq(Database) /\ Len(databases') \in Nat
        /\ DOMAIN databases \subseteq DOMAIN databases'
        /\ Len(databases') \in DOMAIN databases'
    BY <2>2
  <2>4. /\ worker' \in [Workers -> WorkerRow]
        /\ worker'[w].pc = "answered" /\ worker'[w].key = k
        /\ worker'[w].answer = "created" => worker'[w].made \in DOMAIN databases'
        /\ \A v \in Workers \ {w} : worker'[v] = worker[v]
    <3>1. CASE Answered(w, "created", Len(databases'))
      BY <2>3, <3>1, AnsweredAnswers
    <3>2. CASE Answered(w, "unknown", 0)
      BY <3>2, AnsweredAnswers
    <3> QED
      BY <1>13, <3>1, <3>2 DEF Create
  <2>5. UNCHANGED <<active, conn, job, recovery, era>>
    BY <1>13 DEF Create
  <2> QED
    BY <1>4, <2>1, <2>3, <2>4, <2>5 DEF TypeInv, TypeOK, Bounded
<1>14. CASE Refuse(w)
  <2>1. k # 0
    BY <1>14 DEF Refuse, TypeInv, Bounded
  <2>2. PICK answer \in {"rejected", "unknown"} : Answered(w, answer, 0)
    BY <1>14 DEF Refuse
  <2>3. /\ worker' \in [Workers -> WorkerRow]
        /\ worker'[w].pc = "answered" /\ worker'[w].key = k /\ worker'[w].answer # "created"
        /\ \A v \in Workers \ {w} : worker'[v] = worker[v]
    BY <2>2, AnsweredAnswers
  <2>4. UNCHANGED <<active, conn, job, databases, recovery, era>>
    BY <1>14 DEF Refuse
  <2> QED
    BY <1>4, <2>1, <2>3, <2>4 DEF TypeInv, TypeOK, Bounded
<1>15. CASE Finalise(w)
  <2>1. k \in Ids /\ Rest(w) /\ Same
    BY <1>1, <1>15 DEF Finalise
  <2>2. SoundJobs
    BY <1>2, <1>5, <1>15, <2>1 DEF Finalise, Outcome
  <2>3. SoundConn
    <3>1. CASE conn' = [conn EXCEPT !.source = worker[w].made, !.status = "ready"]
      BY <1>1, <3>1 DEF Connection, WorkerRow
    <3> QED
      BY <1>6, <1>7, <1>15, <3>1 DEF Finalise, Outcome
  <2> QED
    BY <1>3, <1>4, <2>1, <2>2, <2>3
<1>16. CASE Fail(w)
  <2>1. k \in Ids /\ Rest(w) /\ Same /\ conn' = conn
    BY <1>1, <1>16 DEF Fail
  <2>2. SoundJobs
    <3>1. CASE job' # job
      <4> DEFINE n == job[k].attempts + 1
                 row == [job[k] EXCEPT !.attempts = @ + 1, !.leased = FALSE,
                           !.status = IF Exhausted(job[k].attempts + 1) THEN "failed" ELSE "pending"]
      <4>1. job[k] \in Job /\ job[k].status = "pending" /\ job' = [job EXCEPT ![k] = row]
        BY <1>1, <1>16, <2>1, <3>1 DEF Fail
      <4>2. n \in 0..MaxAttempts
        BY <2>1, <4>1 DEF TypeInv, Bounded, Job
      <4>3. /\ row.attempts = n
            /\ row.status = IF Exhausted(n) THEN "failed" ELSE "pending"
        BY <4>1 DEF Job
      <4>4. row \in Job
        BY <4>1, <4>2 DEF Job
      <4>5. row.status = "pending" => row.attempts < MaxAttempts
        BY <4>2, <4>3 DEF Exhausted
      <4> QED
        BY <2>1, <4>1, <4>4, <4>5, JobReplaced
    <3> QED
      BY <1>5, <3>1
  <2> QED
    BY <1>3, <1>4, <1>6, <2>1, <2>2
<1>17. CASE Crash(w)
  BY <1>3, <1>4, <1>5, <1>6, <1>17 DEF Crash
<1> QED
  BY <1>8, <1>9, <1>10, <1>11, <1>12, <1>13, <1>14, <1>15, <1>16, <1>17 DEF Works

LEMMA LapsesKeepTypes ==
    ASSUME TypeInv, NEW k \in Ids, LeaseLapses(k)
    PROVE  TypeInv'
<1>1. job[k] \in Job /\ job \in [Ids -> Job]
  BY DEF TypeInv, TypeOK
<1> DEFINE row == [job[k] EXCEPT !.leased = FALSE]
<1>2. /\ row \in Job /\ row.status = job[k].status /\ row.attempts = job[k].attempts
      /\ job' = [job EXCEPT ![k] = row]
  BY <1>1 DEF LeaseLapses, Job
<1>3. job[k].status = "pending" => job[k].attempts < MaxAttempts
  BY DEF TypeInv, Bounded
<1>4. /\ job' \in [Ids -> Job]
      /\ \A l \in Ids : job'[l].status = "pending" => job'[l].attempts < MaxAttempts
  BY <1>2, <1>3, JobReplaced
<1>5. UNCHANGED <<active, conn, databases, worker, recovery, era, bounds>>
  BY DEF LeaseLapses
<1> QED
  BY <1>4, <1>5 DEF TypeInv, TypeOK, Bounded, bounds

LEMMA TypesKept == TypeInv /\ [Next]_vars => TypeInv'
<1>1. TypeInv /\ UNCHANGED vars => TypeInv'
  BY DEF TypeInv, TypeOK, Bounded, vars, bounds
<1> QED
  BY <1>1, RequestsKeepTypes, WorkersKeepTypes, LapsesKeepTypes DEF Next

----------------------------------------------------------------------------
(* Eras. *)

\* The steps that begin no creation, make nothing and stay in the era.
Calm ==
    /\ UNCHANGED <<databases, era>>
    /\ \A w \in Workers : worker'[w].pc = "calling" => worker'[w] = worker[w]
    /\ \A w \in Workers : MayRefuse(w)' => MayRefuse(w)
    /\ Started => Closed'

LEMMA CalmKeeps ==
    ASSUME Inv, Calm
    PROVE  ErasPast' /\ Alone' /\ ClaimsSound' /\ Remembered' /\ CreatedOnce'
<1>1. \A w \in Workers : \A e : CallingIn(w, e)' => CallingIn(w, e)
  BY DEF Calm, CallingIn
<1>2. \A e : Made(e)' <=> Made(e)
  BY DEF Calm, Made
<1>3. Started' => Started
  BY <1>1, <1>2 DEF Calm, Started
<1>4. ErasPast'
  BY DEF Inv, Calm, ErasPast
<1>5. Alone'
  BY <1>1, <1>2 DEF Inv, Calm, Alone
<1>6. ClaimsSound'
  BY <1>1, <1>2 DEF Inv, Calm, ClaimsSound
<1>7. Remembered'
  BY <1>3 DEF Calm, Remembered
<1>8. CreatedOnce'
  BY DEF Inv, Calm, CreatedOnce
<1> QED
  BY <1>4, <1>5, <1>6, <1>7, <1>8

\* A change of workspace begins an era in which nothing was started.
LEMMA EraBegins ==
    ASSUME Inv, era' = era + 1, UNCHANGED <<databases, worker>>
    PROVE  ErasPast' /\ Alone' /\ ClaimsSound' /\ Remembered' /\ CreatedOnce'
<1>1. /\ era \in Nat
      /\ \A d \in DOMAIN databases : databases[d].era \in Nat
      /\ \A w \in Workers : worker[w].era \in Nat
  <2>1. \A d \in DOMAIN databases : databases[d] \in Database
    BY DEF Inv, TypeInv, TypeOK
  <2> QED
    BY <2>1 DEF Inv, TypeInv, TypeOK, Database, WorkerRow
<1>2. ErasPast'
  BY <1>1 DEF Inv, ErasPast
<1>3. ~Made(era + 1) /\ \A w \in Workers : ~CallingIn(w, era + 1)
  BY <1>1 DEF Inv, ErasPast, Made, CallingIn
<1>4. ~Made(era)' /\ \A w \in Workers : ~CallingIn(w, era)'
  BY <1>3 DEF Made, CallingIn
<1>5. Alone' /\ CreatedOnce'
  BY DEF Inv, Alone, Made, CallingIn, CreatedOnce
<1> QED
  BY <1>2, <1>4, <1>5 DEF ClaimsSound, Remembered, Started

LEMMA RequestsKeepEras ==
    ASSUME Inv, Request
    PROVE  ErasPast' /\ Alone' /\ ClaimsSound' /\ Remembered' /\ CreatedOnce'
<1>1. /\ conn \in Connection /\ job \in [Ids -> Job] /\ recovery \in Recovery
      /\ conn.exists => conn.id \in Ids
      /\ \A w \in Workers : worker[w].pc # "idle" => worker[w].key \in Ids
  BY ConnectedIds DEF Inv, TypeInv, TypeOK
<1>2. Started => Closed
  BY DEF Inv, Remembered
<1>3. ASSUME NEW s \in Workspaces, Connect(s) \/ Move(s)
      PROVE  ErasPast' /\ Alone' /\ ClaimsSound' /\ Remembered' /\ CreatedOnce'
  BY <1>3, EraBegins DEF Connect, Move
<1>4. CASE Renew
  <2>1. conn'.id = conn.id /\ conn'.exists = conn.exists
        /\ conn'.source = conn.source /\ conn'.status = conn.status
    BY <1>1, <1>4 DEF Renew, Connection
  <2> QED
    BY <1>2, <1>4, <2>1, CalmKeeps DEF Renew, Calm, MayRefuse, Connected, Owns, Closed
<1>5. CASE Ask
  <2>1. ~Started
    BY <1>2, <1>5 DEF Ask, MayAsk, Closed
  <2>2. conn'.id = conn.id /\ conn'.exists = conn.exists
    BY <1>1, <1>5 DEF Ask, Connection
  <2>3. \A k \in Ids : job'[k].status = "processing" => job'[k] = job[k]
    BY <1>1, <1>5 DEF Ask, MayAsk, Job
  <2>4. \A w \in Workers : MayRefuse(w)' => MayRefuse(w)
    BY <1>1, <1>5, <2>2, <2>3 DEF Ask, MayRefuse, Connected, Owns
  <2> QED
    BY <1>5, <2>1, <2>4, CalmKeeps DEF Ask, Calm
<1>6. CASE Disconnect
  <2>1. ~conn'.exists
    BY <1>6 DEF Disconnect, NoConnection
  <2> QED
    BY <1>6, <2>1, CalmKeeps DEF Disconnect, Calm, MayRefuse, Connected, Closed
<1>7. CASE Toggle
  BY <1>2, <1>7, CalmKeeps DEF Toggle, Calm, MayRefuse, Connected, Owns, Closed
<1>8. ASSUME NEW k \in Ids, AdminRetry(k) \/ Purge(k)
      PROVE  ErasPast' /\ Alone' /\ ClaimsSound' /\ Remembered' /\ CreatedOnce'
  <2>1. /\ \A l \in Ids \ {k} : job'[l] = job[l]
        /\ job'[k].status # "processing"
        /\ job'[k].status \in {"pending", "failed"} => job[k].status = "failed"
        /\ UNCHANGED <<conn, databases, worker, era>>
    <3>1. CASE AdminRetry(k)
      BY <1>1, <3>1 DEF AdminRetry, Job
    <3>2. CASE Purge(k)
      BY <1>1, <3>2 DEF Purge, AbsentJob
    <3> QED
      BY <1>8, <3>1, <3>2
  <2>2. \A w \in Workers : MayRefuse(w)' => MayRefuse(w)
    BY <1>1, <2>1 DEF MayRefuse, Connected, Owns
  <2>3. Started => Closed'
    BY <1>1, <1>2, <2>1 DEF Closed
  <2> QED
    BY <2>1, <2>2, <2>3, CalmKeeps DEF Calm
<1>9. CASE StartRecovery
  BY <1>2, <1>9, CalmKeeps DEF StartRecovery, Calm, MayRefuse, Connected, Owns, Closed
<1>10. ASSUME NEW d \in DOMAIN databases, FinishRecovery(d)
       PROVE  ErasPast' /\ Alone' /\ ClaimsSound' /\ Remembered' /\ CreatedOnce'
  <2>1. conn'.id = conn.id /\ conn'.exists = conn.exists /\ conn'.source = d
    BY <1>1, <1>10 DEF FinishRecovery, Connection
  <2>2. d # 0
    BY DEF Inv, TypeInv, TypeOK
  <2>3. \A k \in Ids : job'[k].status = "processing" => job'[k] = job[k]
    <3>1. conn.id \in Ids /\ job[conn.id] \in Job
      BY <1>1, <1>10 DEF FinishRecovery, StillValid, Connected
    <3> DEFINE row == [job[conn.id] EXCEPT !.status = "done", !.leased = FALSE]
    <3>2. row.status = "done"
      BY <3>1 DEF Job
    <3>3. job' = job \/ job' = [job EXCEPT ![conn.id] = row]
      BY <1>10 DEF FinishRecovery
    <3> HIDE DEF row
    <3> QED
      BY <1>1, <3>2, <3>3
  <2>4. \A w \in Workers : MayRefuse(w)' => MayRefuse(w)
    BY <1>1, <1>10, <2>1, <2>3 DEF FinishRecovery, MayRefuse, Connected, Owns
  <2> QED
    BY <1>10, <2>1, <2>2, <2>4, CalmKeeps DEF FinishRecovery, Calm, Closed
<1>11. CASE AbandonRecovery
  BY <1>2, <1>11, CalmKeeps DEF AbandonRecovery, Calm, MayRefuse, Connected, Owns, Closed
<1> QED
  BY <1>3, <1>4, <1>5, <1>6, <1>7, <1>8, <1>9, <1>10, <1>11 DEF Request

\* A claim is made only where nothing was started.
LEMMA ClaimKeepsEras ==
    ASSUME Inv, NEW w \in Workers, Claim(w)
    PROVE  ErasPast' /\ Alone' /\ ClaimsSound' /\ Remembered' /\ CreatedOnce'
<1> DEFINE k == worker[w].key
<1>1. /\ conn \in Connection /\ job \in [Ids -> Job] /\ worker \in [Workers -> WorkerRow]
      /\ worker[w] \in WorkerRow /\ k \in Ids /\ job[k] \in Job /\ era \in Nat
      /\ \A v \in Workers : worker[v].pc # "idle" => worker[v].key \in Ids
  BY ConnectedIds DEF Inv, TypeInv, TypeOK, Claim
<1>2. /\ Connected(k) /\ conn.source = 0 /\ job[k].status = "pending"
      /\ UNCHANGED <<databases, era>>
  BY DEF Claim, Claimable, Wanted
<1>3. ~Made(era) /\ \A v \in Workers : ~CallingIn(v, era)
  BY <1>2 DEF Inv, Remembered, Started, Closed, Connected
<1>4. /\ worker'[w].pc = "calling" /\ worker'[w].era = era /\ worker'[w].key = k
      /\ \A v \in Workers \ {w} : worker'[v] = worker[v]
  BY <1>1 DEF Claim, WorkerRow
<1>5. /\ conn'.id = conn.id /\ conn'.exists = conn.exists /\ conn'.status = "creating"
      /\ job'[k].status = "processing" /\ job'[k].by = w
      /\ \A l \in Ids \ {k} : job'[l] = job[l]
  BY <1>1 DEF Claim, Connection, Job
<1>6. \A e : Made(e)' <=> Made(e)
  BY <1>2 DEF Made
<1>7. ErasPast'
  BY <1>1, <1>2, <1>4 DEF Inv, ErasPast
<1>8. Alone'
  <2> SUFFICES ASSUME NEW v \in Workers, worker'[v].pc = "calling"
               PROVE  /\ ~Made(worker[v].era)'
                      /\ \A u \in Workers \ {v} : ~CallingIn(u, worker[v].era)'
    BY DEF Alone
  <2>1. CASE v = w
    BY <1>2, <1>3, <1>4, <1>6, <2>1 DEF CallingIn
  <2>2. CASE v # w
    <3>1. worker'[v] = worker[v] /\ worker[v].era # era
      BY <1>3, <1>4, <2>2 DEF CallingIn
    <3> QED
      BY <1>4, <1>6, <2>2, <3>1 DEF Inv, Alone, CallingIn
  <2> QED
    BY <2>1, <2>2
<1>9. ClaimsSound'
  <2> SUFFICES ASSUME NEW v \in Workers, MayRefuse(v)'
               PROVE  ~Made(era)' /\ \A u \in Workers \ {v} : ~CallingIn(u, era)'
    BY DEF ClaimsSound
  <2>1. v = w
    BY <1>1, <1>2, <1>4, <1>5 DEF MayRefuse, Connected, Owns
  <2> QED
    BY <1>2, <1>3, <1>4, <1>6, <2>1 DEF CallingIn
<1>10. Remembered'
  BY <1>2, <1>5 DEF Remembered, Closed, Connected
<1>11. CreatedOnce'
  BY <1>2 DEF Inv, CreatedOnce
<1> QED
  BY <1>7, <1>8, <1>9, <1>10, <1>11

\* What is made is the first of its era, and its maker is no longer to be refused.
LEMMA CreateKeepsEras ==
    ASSUME Inv, NEW w \in Workers, Create(w)
    PROVE  ErasPast' /\ Alone' /\ ClaimsSound' /\ Remembered' /\ CreatedOnce'
<1> DEFINE e == worker[w].era
<1>1. /\ databases \in Seq(Database) /\ Len(databases) \in Nat
      /\ worker[w] \in WorkerRow /\ e \in Nat /\ worker[w].pc = "calling"
      /\ UNCHANGED <<active, conn, job, era>>
  BY DEF Inv, TypeInv, TypeOK, WorkerRow, Create
<1>2. PICK answer \in {"created", "unknown"}, made \in Nat : Answered(w, answer, made)
  <2>1. Len(databases') \in Nat
    BY <1>1 DEF Create
  <2> QED
    BY <2>1 DEF Create
<1>3. /\ worker'[w].pc = "answered" /\ worker'[w].answer # "rejected"
      /\ \A v \in Workers \ {w} : worker'[v] = worker[v]
  BY <1>2, AnsweredAnswers DEF Inv
<1>4. /\ DOMAIN databases' = DOMAIN databases \cup {Len(databases) + 1}
      /\ databases'[Len(databases) + 1].era = e
      /\ \A d \in DOMAIN databases : databases'[d] = databases[d] /\ d # Len(databases) + 1
  <2> DEFINE base == [workspace |-> worker[w].workspace, era |-> e]
  <2>1. base \in Database /\ databases' = Append(databases, base) /\ base.era = e
    BY <1>1 DEF Create, Database, WorkerRow
  <2> HIDE DEF base
  <2> QED
    BY <1>1, <2>1
<1>5. \A f : Made(f)' <=> Made(f) \/ f = e
  BY <1>4 DEF Made
<1>6. ~Made(e) /\ \A v \in Workers \ {w} : ~CallingIn(v, e)
  BY <1>1 DEF Inv, Alone
<1>7. \A v \in Workers : \A f : CallingIn(v, f)' <=> CallingIn(v, f) /\ v # w
  BY <1>3 DEF CallingIn
<1>8. ErasPast'
  BY <1>1, <1>3, <1>4 DEF Inv, ErasPast
<1>9. Alone'
  <2> SUFFICES ASSUME NEW v \in Workers, worker'[v].pc = "calling"
               PROVE  /\ ~Made(worker[v].era)'
                      /\ \A u \in Workers \ {v} : ~CallingIn(u, worker[v].era)'
    BY DEF Alone
  <2>1. v # w /\ worker'[v] = worker[v]
    BY <1>3
  <2>2. worker[v].era # e
    BY <1>6, <2>1 DEF CallingIn
  <2> QED
    BY <1>5, <1>7, <2>1, <2>2 DEF Inv, Alone
<1>10. ClaimsSound'
  <2> SUFFICES ASSUME NEW v \in Workers, MayRefuse(v)'
               PROVE  ~Made(era)' /\ \A u \in Workers \ {v} : ~CallingIn(u, era)'
    BY DEF ClaimsSound
  <2>1. v # w /\ worker'[v] = worker[v]
    BY <1>3 DEF MayRefuse
  <2>2. MayRefuse(v)
    BY <1>1, <2>1 DEF MayRefuse, Connected, Owns
  <2>3. era # e
    BY <1>1, <2>1, <2>2 DEF Inv, ClaimsSound, CallingIn
  <2> QED
    BY <1>1, <1>5, <1>7, <2>2, <2>3 DEF Inv, ClaimsSound
<1>11. Remembered'
  <2>1. Started' => Started
    BY <1>1, <1>5, <1>7 DEF Started, CallingIn
  <2> QED
    BY <1>1, <2>1 DEF Inv, Remembered, Closed
<1>12. CreatedOnce'
  BY <1>4, <1>6 DEF Inv, CreatedOnce, Made
<1> QED
  BY <1>8, <1>9, <1>10, <1>11, <1>12

\* The other steps of a worker, and the end of a lease.
LEMMA WorkersKeepEras ==
    ASSUME Inv, NEW w \in Workers, Works(w) \/ Fail(w) \/ Crash(w)
    PROVE  ErasPast' /\ Alone' /\ ClaimsSound' /\ Remembered' /\ CreatedOnce'
<1> DEFINE k == worker[w].key
<1>1. /\ conn \in Connection /\ job \in [Ids -> Job] /\ worker \in [Workers -> WorkerRow]
      /\ conn.exists => conn.id \in Ids
      /\ \A v \in Workers : worker[v].pc # "idle" => worker[v].key \in Ids
  BY ConnectedIds DEF Inv, TypeInv, TypeOK
<1>2. Started => Closed
  BY DEF Inv, Remembered
<1>3. Rest(w) => /\ worker'[w].pc = "idle"
                 /\ \A v \in Workers \ {w} : worker'[v] = worker[v]
  BY RestIdles DEF Inv
\* A worker at rest calls nobody and holds nothing.
<1>4. ASSUME Rest(w), UNCHANGED <<databases, era>>,
             conn'.id = conn.id /\ conn'.exists = conn.exists,
             \A l \in Ids : job'[l].status = "processing" => job'[l] = job[l],
             Started => Closed'
      PROVE  Calm
  <2>1. \A v \in Workers : MayRefuse(v)' => MayRefuse(v)
    BY <1>1, <1>3, <1>4 DEF MayRefuse, Connected, Owns
  <2> QED
    BY <1>3, <1>4, <2>1 DEF Calm
<1>5. ASSUME NEW l \in Ids, Select(w, l) PROVE Calm
  <2>1. /\ worker'[w].pc = "selected"
        /\ \A v \in Workers \ {w} : worker'[v] = worker[v]
    BY <1>1, <1>5, Constants DEF Select, WorkerRow
  <2> QED
    BY <1>2, <1>5, <2>1 DEF Select, Calm, MayRefuse, Connected, Owns, Closed
<1>6. ASSUME Skip(w) PROVE Calm
  BY <1>2, <1>4, <1>6 DEF Skip, Closed
<1>7. ASSUME MarkUncertain(w) PROVE Calm
  <2>1. k \in Ids /\ job[k].status = "processing"
    BY <1>1, <1>7 DEF MarkUncertain, Interrupted
  <2>2. job'[k].status = "uncertain" /\ \A l \in Ids \ {k} : job'[l] = job[l]
    BY <1>1, <1>7, <2>1 DEF MarkUncertain, SetJob, Job
  <2>3. /\ conn'.id = conn.id /\ conn'.exists = conn.exists /\ conn'.source = conn.source
        /\ conn'.status = "uncertain" \/ conn' = conn
    BY <1>1, <1>7 DEF MarkUncertain, Connection
  <2>4. Started => Closed'
    BY <1>1, <1>2, <2>2, <2>3 DEF Closed
  <2> QED
    BY <1>4, <1>7, <2>2, <2>3, <2>4 DEF MarkUncertain
<1>8. ASSUME Drop(w) PROVE Calm
  <2>1. k \in Ids /\ job[k].status = "pending"
    BY <1>1, <1>8 DEF Drop, Claimable
  <2>2. /\ job'[k].status \in {"cancelled", "done"}
        /\ \A l \in Ids \ {k} : job'[l] = job[l]
    BY <1>1, <1>8, <2>1 DEF Drop, SetJob, Job
  <2>3. Started => Closed'
    BY <1>1, <1>2, <1>8, <2>2 DEF Drop, Closed
  <2> QED
    BY <1>4, <1>8, <2>2, <2>3 DEF Drop
<1>9. ASSUME Refuse(w) PROVE Calm
  <2>1. PICK answer \in {"rejected", "unknown"} : Answered(w, answer, 0)
    BY <1>9 DEF Refuse
  <2>2. /\ worker'[w].pc = "answered" /\ worker'[w].key = k
        /\ \A v \in Workers \ {w} : worker'[v] = worker[v]
    BY <2>1, AnsweredAnswers DEF Inv
  <2>3. worker[w].pc = "calling" /\ UNCHANGED <<conn, job, databases, era>>
    BY <1>9 DEF Refuse
  <2>4. \A v \in Workers : MayRefuse(v)' => MayRefuse(v)
    BY <2>2, <2>3 DEF MayRefuse, Connected, Owns
  <2> QED
    BY <1>2, <2>2, <2>3, <2>4 DEF Calm, Closed
<1>10. ASSUME Finalise(w) PROVE Calm
  <2>1. /\ k \in Ids /\ worker[w].pc = "answered" /\ Rest(w)
        /\ UNCHANGED <<databases, era>>
    BY <1>1, <1>10 DEF Finalise
  <2>2. CASE ~Owns(w)
    BY <1>2, <1>4, <1>10, <2>1, <2>2 DEF Finalise, Closed
  <2>3. CASE Owns(w)
    <3> DEFINE settled(status) ==
                 job' = [job EXCEPT ![k] = [job[k] EXCEPT !.status = status, !.leased = FALSE]]
    <3>1. ASSUME NEW status, settled(status)
          PROVE  job'[k].status = status /\ \A l \in Ids \ {k} : job'[l] = job[l]
      <4>1. job[k] \in Job
        BY <1>1, <2>1
      <4> QED
        BY <1>1, <2>1, <3>1, <4>1 DEF Job
    <3>2. CASE ~Wanted(k) /\ settled("cancelled") /\ UNCHANGED conn
      <4>1. job'[k].status = "cancelled" /\ \A l \in Ids \ {k} : job'[l] = job[l]
        BY <3>1, <3>2
      <4>2. Started => Closed'
        BY <1>1, <1>2, <3>2, <4>1 DEF Closed
      <4> QED
        BY <1>4, <2>1, <3>2, <4>1, <4>2
    <3>3. CASE /\ Wanted(k) /\ worker[w].answer = "created"
               /\ settled("done")
               /\ conn' = [conn EXCEPT !.source = worker[w].made, !.status = "ready"]
      <4>1. job'[k].status = "done" /\ \A l \in Ids \ {k} : job'[l] = job[l]
        BY <3>1, <3>3
      <4>2. worker[w].made # 0
        BY <2>1, <3>3 DEF Inv, TypeInv, TypeOK, Bounded
      <4>3. /\ conn'.id = conn.id /\ conn'.exists = conn.exists
            /\ conn'.source # 0
        BY <1>1, <3>3, <4>2 DEF Connection
      <4>4. Started => Closed'
        BY <4>3 DEF Closed
      <4> QED
        BY <1>4, <2>1, <4>1, <4>3, <4>4
    <3>4. CASE /\ Wanted(k) /\ worker[w].answer # "created"
               /\ settled(Outcome(worker[w].answer))
               /\ conn' = [conn EXCEPT !.status = Outcome(worker[w].answer)]
      <4> DEFINE status == Outcome(worker[w].answer)
      <4>1. status \in {"failed", "uncertain"}
        BY DEF Outcome
      <4>2. job'[k].status = status /\ \A l \in Ids \ {k} : job'[l] = job[l]
        BY <3>1, <3>4
      <4>3. /\ conn'.id = conn.id /\ conn'.exists = conn.exists
            /\ conn'.status = status
        BY <1>1, <3>4 DEF Connection
      \* Only the holder of the claim could have made something.
      <4>4. status = "failed" => ~Started
        <5>1. CASE worker[w].answer = "rejected"
          <6>1. MayRefuse(w)
            BY <2>1, <2>3, <3>4, <5>1 DEF MayRefuse, Wanted
          <6> QED
            BY <2>1, <6>1 DEF Inv, ClaimsSound, Started, CallingIn
        <5> QED
          BY <5>1 DEF Outcome
      <4>5. Started => Closed'
        BY <1>1, <3>4, <4>1, <4>2, <4>3, <4>4 DEF Closed, Wanted, Connected
      <4> QED
        BY <1>4, <2>1, <4>1, <4>2, <4>3, <4>5
    <3> QED
      BY <1>10, <2>3, <3>2, <3>3, <3>4 DEF Finalise
  <2> QED
    BY <2>2, <2>3
<1>11. ASSUME Fail(w) PROVE Calm
  <2>1. k \in Ids /\ Rest(w) /\ UNCHANGED <<conn, databases, era>>
    BY <1>1, <1>11 DEF Fail
  <2>2. CASE job' = job
    BY <1>2, <1>4, <2>1, <2>2 DEF Closed
  <2>3. CASE job' # job
    <3>1. job[k] \in Job /\ job[k].status = "pending"
      BY <1>1, <1>11, <2>1, <2>3 DEF Fail
    <3>2. /\ job'[k].status \in {"pending", "failed"}
          /\ \A l \in Ids \ {k} : job'[l] = job[l]
      BY <1>1, <1>11, <2>1, <3>1 DEF Fail, Job
    <3>3. Started => Closed'
      BY <1>1, <1>2, <2>1, <3>1, <3>2 DEF Closed
    <3> QED
      BY <1>4, <2>1, <3>2, <3>3
  <2> QED
    BY <2>2, <2>3
<1>12. ASSUME Crash(w) PROVE Calm
  BY <1>2, <1>4, <1>12 DEF Crash, Closed
<1> QED
  BY <1>5, <1>6, <1>7, <1>8, <1>9, <1>10, <1>11, <1>12, CalmKeeps, ClaimKeepsEras,
     CreateKeepsEras DEF Works

LEMMA LapsesKeepEras ==
    ASSUME Inv, NEW k \in Ids, LeaseLapses(k)
    PROVE  ErasPast' /\ Alone' /\ ClaimsSound' /\ Remembered' /\ CreatedOnce'
<1>1. /\ job \in [Ids -> Job] /\ job[k] \in Job
      /\ conn.exists => conn.id \in Ids
      /\ \A v \in Workers : worker[v].pc # "idle" => worker[v].key \in Ids
  BY ConnectedIds DEF Inv, TypeInv, TypeOK
<1>2. \A l \in Ids : job'[l].status = job[l].status /\ job'[l].by = job[l].by
  BY <1>1 DEF LeaseLapses, Job
<1>3. UNCHANGED <<conn, databases, worker, era>>
  BY DEF LeaseLapses
<1>4. \A v \in Workers : MayRefuse(v)' => MayRefuse(v)
  BY <1>1, <1>2, <1>3 DEF MayRefuse, Connected, Owns
<1>5. Started => Closed'
  BY <1>1, <1>2, <1>3 DEF Inv, Remembered, Closed
<1> QED
  BY <1>3, <1>4, <1>5, CalmKeeps DEF Calm

----------------------------------------------------------------------------
(* The theorems. *)

LEMMA Starts == Init => Inv
<1> SUFFICES ASSUME Init PROVE Inv
  OBVIOUS
<1> USE NotionSetupAssumption DEF Init
<1>1. /\ ~conn.exists
      /\ \A k \in Ids : job[k].status = "absent"
      /\ \A w \in Workers : worker[w].pc = "idle"
  BY DEF NoConnection, AbsentJob, IdleWorker
<1>2. /\ databases \in Seq(Database)
      /\ \A i, j \in DOMAIN databases : i = j /\ databases[i].era = 0
  <2>1. CASE databases = <<>>
    BY <2>1
  <2>2. ASSUME NEW s \in Workspaces, databases = <<[workspace |-> s, era |-> 0]>>
        PROVE  /\ databases \in Seq(Database)
               /\ \A i, j \in DOMAIN databases : i = j /\ databases[i].era = 0
    <3>1. [workspace |-> s, era |-> 0] \in Database
      BY DEF Database
    <3> QED
      BY <2>2, <3>1
  <2> QED
    BY <2>1, <2>2
<1>3. TypeOK
  BY <1>2, Constants DEF TypeOK
<1>4. Bounded
  BY <1>1 DEF Bounded
<1>5. ErasPast /\ CreatedOnce
  BY <1>1, <1>2 DEF ErasPast, CreatedOnce
<1>6. Alone /\ ClaimsSound /\ Remembered
  BY <1>1 DEF Alone, ClaimsSound, MayRefuse, Remembered, Closed
<1> QED
  BY <1>3, <1>4, <1>5, <1>6 DEF Inv, TypeInv

\* The types, and the argument of the era, hold in every state: a creation that was
\* started, and not refused, is remembered by the connection and its job.
THEOREM Invariant == Spec => []Inv
<1>1. Inv /\ [Next]_vars => Inv'
  <2> SUFFICES ASSUME Inv, [Next]_vars PROVE Inv'
    OBVIOUS
  <2>1. TypeInv'
    BY TypesKept DEF Inv
  <2>2. CASE UNCHANGED vars
    BY <2>1, <2>2 DEF Inv, vars, ErasPast, Alone, Made, CallingIn, ClaimsSound, MayRefuse,
         Connected, Owns, Remembered, Started, Closed, CreatedOnce
  <2>3. CASE Next
    BY <2>1, <2>3, RequestsKeepEras, WorkersKeepEras, LapsesKeepEras DEF Next, Inv
  <2> QED
    BY <2>2, <2>3
<1> QED
  BY Starts, <1>1, PTL DEF Spec

\* The connection, its jobs, Notion, the workers and a recovery keep their types: no
\* job is charged more attempts than it has.
THEOREM TypeCorrect == Spec => []TypeOK
<1>1. Inv => TypeOK
  BY DEF Inv, TypeInv
<1> QED
  BY Invariant, <1>1, PTL

\* However many workers, lost answers, crashes and requests there are, no second
\* database is created while an account stays connected to a workspace.
THEOREM CreatesOnce == Spec => []CreatedOnce
<1>1. Inv => CreatedOnce
  BY DEF Inv
<1> QED
  BY Invariant, <1>1, PTL

\* The pages offer to create a database only where none was created since the
\* workspace was connected.
THEOREM ForgetsNone == Spec => []NoneForgotten
<1>1. Inv => NoneForgotten
  BY DEF Inv, Remembered, Started, Made, Closed, MayAsk, NoneForgotten
<1> QED
  BY Invariant, <1>1, PTL

\* Neither a worker that comes back with an answer nor a recovery that was verified
\* gives a destination to an account that was disabled meanwhile.
THEOREM DisabledIsGivenNone == Spec => DisabledGetsNone
<1>1. Inv /\ [Next]_vars => [~active => conn'.source \in {conn.source, 0}]_vars
  <2> SUFFICES ASSUME Inv, Next, ~active
               PROVE  conn'.source \in {conn.source, 0}
    OBVIOUS
  <2>1. conn \in Connection
    BY DEF Inv, TypeInv, TypeOK
  <2>2. CASE Request
    BY <2>1, <2>2 DEF Request, Connect, Move, Renew, Ask, MayAsk, Disconnect, Toggle,
         AdminRetry, Purge, StartRecovery, FinishRecovery, StillValid, AbandonRecovery,
         Connection, NoConnection
  <2>3. ASSUME NEW w \in Workers, Works(w) \/ Fail(w) \/ Crash(w)
        PROVE  conn'.source \in {conn.source, 0}
    BY <2>1, <2>3 DEF Works, Select, Skip, MarkUncertain, Drop, Claim, Wanted, Create, Refuse,
         Finalise, Fail, Crash, Connection
  <2>4. ASSUME NEW k \in Ids, LeaseLapses(k)
        PROVE  conn'.source \in {conn.source, 0}
    BY <2>4 DEF LeaseLapses
  <2> QED
    BY <2>2, <2>3, <2>4 DEF Next
<1> QED
  BY Invariant, <1>1, PTL DEF Spec, DisabledGetsNone

=============================================================================
