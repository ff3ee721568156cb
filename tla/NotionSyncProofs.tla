-------------------------- MODULE NotionSyncProofs --------------------------
(****************************************************************************)
(* Proofs about NotionSync, for any offers, workers and databases, any      *)
(* bound on attempts, edits and faults.  The argument is about who writes   *)
(* where: a busy worker writes to the database of the connection only under *)
(* the lease of its row, and no two workers write to one database for one   *)
(* offer.  Hence nothing moves under a worker between its lookup and its    *)
(* creation, nor under a row that is recorded as synced.                    *)
(****************************************************************************)
EXTENDS NotionSync, TLAPS

Busy(w) == worker[w].pc # "idle"
PageSource(o, i) == pages[o][i].source
Stale(o) == o \in updates \cup skipped
Leased(w) == sync[worker[w].offer].next = w

(* What the columns of a row say of each other and of its page. *)
RowSound(r, o) ==
    /\ r.status = "absent" => r.next = Now /\ r.page = 0
    /\ r.status = "failed" => r.next \notin Workers
    /\ r.status = "synced" => r.next = Now /\ r.page # 0
    /\ source = 0 => r.status = "absent"
    /\ r.page # 0 => r.page \in DOMAIN pages[o] /\ (replaced \/ PageSource(o, r.page) = source)
RowsSound == \A o \in Offers : RowSound(sync[o], o)

(* What a worker knows of the page it writes. *)
CallSound(w) ==
    LET mine == pages[worker[w].offer] IN
    /\ worker[w].pc = "lookup" => worker[w].page = 0
    /\ worker[w].page # 0 => worker[w].page \in DOMAIN mine
    /\ worker[w].pc = "write" /\ worker[w].page = 0 => Found(w) = {}
    /\ worker[w].pc = "answered" /\ worker[w].answer = "ok" =>
         worker[w].page # 0 /\ mine[worker[w].page].shows = worker[w].version
CallsSound == \A w \in Workers : Busy(w) => CallSound(w)

(* A worker without its lease writes to another database than the connection's
   and than the row's page. *)
Away(w, i) == Target(w) # source /\ (i # 0 => PageSource(worker[w].offer, i) # Target(w))
Leases ==
    \A w \in Workers : Busy(w) =>
      /\ Leased(w) => replaced \/ Target(w) = source
      /\ ~Leased(w) => Away(w, sync[worker[w].offer].page)

Apart ==
    \A v, w \in Workers :
      v # w /\ Busy(v) /\ Busy(w) /\ worker[v].offer = worker[w].offer => Target(v) # Target(w)

ClaimsCurrent ==
    \A w \in Workers : Busy(w) /\ Holds(w) /\ ~Stale(worker[w].offer) =>
      worker[w].version = version[worker[w].offer]

RowsCurrent ==
    \A o \in Offers : sync[o].status = "synced" /\ ~Stale(o) =>
      pages[o][sync[o].page].shows = version[o]

Places == RowsSound /\ CallsSound /\ Leases /\ Apart /\ OnePage
Currency == ClaimsCurrent /\ RowsCurrent

(* Every version was collected by one of the transactions counted. *)
VersionsCounted == \A o \in Offers : version[o] <= edits

TypeInv == TypeOK /\ VersionsCounted

Inv == TypeInv /\ Places /\ Currency

----------------------------------------------------------------------------
(* Operators. *)

LEMMA AbsentIsTyped == AbsentRow \in Row /\ NewRow \in Row
BY NotionSyncAssumption DEF AbsentRow, NewRow, Row

LEMMA IdleIsTyped == IdleWorker \in WorkerRow /\ IdleWorker.pc = "idle"
<1>1. (CHOOSE o \in Offers : TRUE) \in Offers
  BY NotionSyncAssumption
<1>2. 1 \in Sources /\ 0 \in Versions /\ 0 \in Nat
  BY NotionSyncAssumption DEF Sources, Versions
<1> QED
  BY <1>1, <1>2 DEF IdleWorker, WorkerRow

LEMMA FieldsAreTyped ==
    /\ 0 \in 0..MaxAttempts
    /\ {Now, Later} \subseteq Workers \cup {Now, Later}
    /\ Now \notin Workers /\ Later \notin Workers
BY NotionSyncAssumption

(* Requeueing makes a row pending, and keeps its page and its lease or retry. *)
LEMMA RequeuedKeeps ==
    ASSUME NEW r \in Row
    PROVE  /\ Requeued(r) \in Row
           /\ Requeued(r).status = "pending"
           /\ r.status # "absent" => Requeued(r).page = r.page /\ Requeued(r).next = r.next
           /\ r.status = "absent" => Requeued(r).page = 0 /\ Requeued(r).next = Now
<1>1. CASE r.status = "absent"
  BY <1>1, AbsentIsTyped DEF Requeued, NewRow, AbsentRow
<1>2. CASE r.status # "absent"
  <2>1. Requeued(r) = [r EXCEPT !.status = "pending", !.attempts = 0]
    BY <1>2 DEF Requeued
  <2> QED
    BY <1>2, <2>1, FieldsAreTyped DEF Row
<1> QED
  BY <1>1, <1>2

(* A retry is for failed rows, and keeps their page. *)
LEMMA RetriedKeeps ==
    ASSUME NEW r \in Row
    PROVE  /\ Retried(r) \in Row
           /\ Retried(r).page = r.page
           /\ r.status = "failed" => Retried(r).status = "pending" /\ Retried(r).next = Now
           /\ r.status # "failed" => Retried(r) = r
<1>1. CASE r.status = "failed"
  <2>1. Retried(r) = [r EXCEPT !.status = "pending", !.attempts = 0, !.next = Now]
    BY <1>1 DEF Retried
  <2> QED
    BY <1>1, <2>1, FieldsAreTyped DEF Row
<1>2. CASE r.status # "failed"
  BY <1>2 DEF Retried
<1> QED
  BY <1>1, <1>2

(* The outcome of a call drops the lease, or leaves a cancelled row. *)
LEMMA OutcomeIsSound ==
    ASSUME TypeOK, NEW w \in Workers, NEW r \in Row
    PROVE  LET new == Outcome(w, r)
               written == active /\ worker[w].answer = "ok"
           IN  /\ new \in Row
               /\ new.status = "synced" <=> written
               /\ written => new.page = worker[w].page /\ new.next = Now
               /\ ~written => new.page = r.page
               /\ new.status \in {"synced", "cancelled", "failed", "pending"}
               /\ new.status = "failed" => new.next = Later
               /\ active => new.next \in {Now, Later}
               /\ ~active => new.status = "cancelled" /\ new.next = r.next
<1> DEFINE new == Outcome(w, r)
<1>0. worker[w] \in WorkerRow /\ worker[w].page \in Nat
  BY DEF TypeOK, WorkerRow
<1>1. CASE ~active
  <2>1. new = [r EXCEPT !.status = "cancelled"]
    BY <1>1 DEF Outcome
  <2> QED
    BY <1>1, <2>1 DEF Row
<1>2. CASE active /\ worker[w].answer = "ok"
  <2> DEFINE left == IF r.attempts = 0 THEN 0 ELSE r.attempts - 1
  <2>1. new = [r EXCEPT !.status = "synced", !.page = worker[w].page, !.next = Now,
                        !.attempts = left]
    BY <1>2 DEF Outcome
  <2>2. left \in 0..MaxAttempts
    BY NotionSyncAssumption DEF Row
  <2> HIDE DEF left
  <2> QED
    BY <1>0, <1>2, <2>1, <2>2, FieldsAreTyped DEF Row
<1>3. CASE active /\ worker[w].answer # "ok"
  <2>1. PICK status \in {"failed", "pending"} : new = [r EXCEPT !.next = Later, !.status = status]
    <3>1. CASE r.attempts >= MaxAttempts \/ worker[w].answer = "InvalidToken"
      BY <1>3, <3>1 DEF Outcome
    <3>2. CASE ~(r.attempts >= MaxAttempts \/ worker[w].answer = "InvalidToken")
      BY <1>3, <3>2 DEF Outcome
    <3> QED
      BY <3>1, <3>2
  <2> QED
    BY <1>3, <2>1, FieldsAreTyped DEF Row
<1> QED
  BY <1>1, <1>2, <1>3

(* Writing changes what one page shows, or adds one for the worker's database. *)
LEMMA WrittenIsSound ==
    ASSUME TypeOK, NEW w \in Workers,
           worker[w].page = 0 \/ worker[w].page \in DOMAIN pages[worker[w].offer]
    PROVE  LET known == pages[worker[w].offer]
               i == worker[w].page
               new == Written(w)
           IN  /\ new \in Seq(Page)
               /\ \A j \in DOMAIN known :
                    /\ j \in DOMAIN new
                    /\ new[j].source = known[j].source
                    /\ j # i => new[j] = known[j]
               /\ i # 0 => DOMAIN new = DOMAIN known /\ new[i].shows = worker[w].version
               /\ i = 0 => /\ DOMAIN new = DOMAIN known \cup {Len(new)}
                           /\ Len(new) \notin DOMAIN known /\ Len(new) \in Nat \ {0}
                           /\ new[Len(new)] = [source |-> worker[w].source,
                                               shows |-> worker[w].version]
<1> DEFINE known == pages[worker[w].offer]
           i == worker[w].page
           v == worker[w].version
           new == Written(w)
<1>1. known \in Seq(Page) /\ i \in Nat /\ v \in Versions /\ worker[w].source \in Sources
  BY DEF TypeOK, WorkerRow
<1>2. CASE i = 0
  <2> DEFINE p == [source |-> worker[w].source, shows |-> v]
  <2>1. new = Append(known, p) /\ p \in Page
    BY <1>1, <1>2 DEF Written, Page
  <2> HIDE DEF known, p, new
  <2>2. /\ new \in Seq(Page) /\ Len(new) = Len(known) + 1
        /\ new[Len(new)] = p /\ \A j \in 1..Len(known) : new[j] = known[j]
        /\ DOMAIN new = 1..(Len(known) + 1) /\ DOMAIN known = 1..Len(known)
        /\ Len(known) \in Nat
    BY <1>1, <2>1
  <2>3. DOMAIN new = DOMAIN known \cup {Len(new)} /\ Len(new) \notin DOMAIN known
        /\ Len(new) \in Nat \ {0}
    BY <2>2
  <2> QED
    BY <1>2, <2>2, <2>3 DEF p, known, new
<1>3. CASE i # 0
  <2>1. new = [known EXCEPT ![i].shows = v] /\ i \in DOMAIN known
    BY <1>3 DEF Written
  <2> HIDE DEF known, new, i, v
  <2>0. known[i] \in Page
    BY <1>1, <2>1
  <2>2. [known[i] EXCEPT !.shows = v] \in Page
        /\ [known[i] EXCEPT !.shows = v].source = known[i].source
        /\ [known[i] EXCEPT !.shows = v].shows = v
    BY <1>1, <2>0 DEF Page
  <2> DEFINE p == [known[i] EXCEPT !.shows = v]
  <2>3. new = [known EXCEPT ![i] = p]
    BY <2>1
  <2> HIDE DEF p
  <2>4. new \in Seq(Page) /\ DOMAIN new = DOMAIN known /\ new[i] = p
        /\ \A j \in DOMAIN known : j # i => new[j] = known[j]
    BY <1>1, <2>1, <2>2, <2>3 DEF p
  <2> QED
    BY <1>3, <2>1, <2>2, <2>4 DEF known, new, i, v, p
<1> QED
  BY <1>2, <1>3

----------------------------------------------------------------------------
(* Types. *)

LEMMA BudgetsAreTyped ==
    ASSUME TypeInv
    PROVE  /\ edits \in Nat /\ edits \in 0..MaxEdits /\ faults \in 0..MaxFaults
           /\ MayEdit => edits' \in 0..MaxEdits /\ edits' = edits + 1
           /\ MayFail => faults' \in 0..MaxFaults
           /\ MayEdit => \A o \in Offers : version[o] + 1 \in Versions /\ version[o] + 1 <= edits'
           /\ \A o \in Offers : version[o] \in Nat /\ version[o] <= edits
<1>1. edits \in 0..MaxEdits /\ faults \in 0..MaxFaults /\ MaxEdits \in Nat /\ MaxFaults \in Nat
  BY NotionSyncAssumption DEF TypeInv, TypeOK
<1>2. \A o \in Offers : version[o] \in 0..MaxEdits /\ version[o] <= edits
  BY DEF TypeInv, TypeOK, Versions, VersionsCounted
<1>3. edits \in Nat /\ \A o \in Offers : version[o] \in Nat
  BY <1>1, <1>2
<1>4. ASSUME MayEdit
      PROVE  /\ edits' \in 0..MaxEdits /\ edits' = edits + 1
             /\ \A o \in Offers : version[o] + 1 \in 0..MaxEdits /\ version[o] + 1 <= edits'
  BY <1>1, <1>2, <1>4 DEF MayEdit
<1>5. MayFail => faults' \in 0..MaxFaults
  BY <1>1 DEF MayFail
<1> QED
  BY <1>1, <1>2, <1>3, <1>4, <1>5 DEF Versions

(* Everything but the workers' steps. *)
LEMMA OutsideIsTyped ==
    ASSUME TypeInv,
           Environment \/ Matching \/ \E o \in Offers : TimePasses(o) \/ GiveUp(o)
    PROVE  TypeInv'
<1>0. TypeOK /\ \A o \in Offers : sync[o] \in Row
  BY DEF TypeInv, TypeOK
<1> USE BudgetsAreTyped
<1>1. ASSUME NEW o \in Offers, NEW open \in BOOLEAN, Collect(o, open) PROVE TypeInv'
  <2>1. version' \in [Offers -> Versions] /\ \A u \in Offers : version'[u] <= edits'
    BY <1>0, <1>1 DEF Collect, TypeOK
  <2>2. fitting' \in SUBSET Offers
    BY <1>0, <1>1 DEF Collect, TypeOK
  <2> QED
    BY <1>0, <1>1, <2>1, <2>2 DEF Collect, TypeInv, TypeOK, VersionsCounted, account, ghosts
<1>2. ASSUME NEW o \in Offers, AdminRetry(o) PROVE TypeInv'
  <2>1. sync' \in [Offers -> Row]
    BY <1>0, <1>2, RetriedKeeps DEF AdminRetry, TypeOK
  <2> QED
    BY <1>0, <1>2, <2>1
    DEF AdminRetry, TypeInv, TypeOK, VersionsCounted, account, offers, jobs, ghosts
<1>2a. ASSUME NEW o \in Offers, Purge(o) PROVE TypeInv'
  <2>1. sync' \in [Offers -> Row]
    BY <1>0, <1>2a, AbsentIsTyped DEF Purge, TypeOK
  <2> QED
    BY <1>0, <1>2a, <2>1
    DEF Purge, TypeInv, TypeOK, VersionsCounted, account, offers, jobs, ghosts
<1>3. CASE \/ Enable \/ \E fits \in SUBSET Offers : Activate(fits)
           \/ \E s \in Sources : Attach(s)
  <2>1. Sources \subseteq 0..MaxSources
    BY NotionSyncAssumption DEF Sources
  <2>2. active' \in BOOLEAN /\ baseline' \in BOOLEAN /\ replaced' \in BOOLEAN
    <3>1. CASE Enable
      BY <1>0, <3>1 DEF Enable, TypeOK, ghosts
    <3>2. CASE \E fits \in SUBSET Offers : Activate(fits)
      BY <1>0, <3>2 DEF Activate, TypeOK, account, ghosts
    <3>3. ASSUME NEW s \in Sources, Attach(s)
          PROVE  active' \in BOOLEAN /\ baseline' \in BOOLEAN /\ replaced' \in BOOLEAN
      <4>1. active' = active /\ baseline' = TRUE /\ (replaced' <=> source # 0 \/ replaced)
            /\ replaced' \in BOOLEAN
        BY <3>3, Zenon DEF Attach
      <4> QED
        BY <1>0, <4>1 DEF TypeOK
    <3> QED
      BY <1>3, <3>1, <3>2, <3>3
  <2>3. source' \in 0..MaxSources
    BY <1>0, <1>3, <2>1 DEF Enable, Activate, Attach, TypeOK, account
  <2>4. fitting' \in SUBSET Offers
    BY <1>0, <1>3 DEF Enable, Activate, Attach, TypeOK, offers
  <2>5. UNCHANGED <<version, updates, sync, pages, worker, skipped, faults>> /\ MayEdit
    BY <1>3 DEF Enable, Activate, Attach, offers, jobs, ghosts
  <2> QED
    BY <1>0, <2>2, <2>3, <2>4, <2>5 DEF TypeInv, TypeOK, VersionsCounted
<1>4. CASE Disable
  <2>1. \A o \in Offers : [sync[o] EXCEPT !.status = "cancelled"] \in Row
    BY <1>0 DEF Row
  <2>2. sync' \in [Offers -> Row]
    BY <1>0, <1>4, <2>1 DEF Disable
  <2>3. active' \in BOOLEAN /\ MayEdit
        /\ UNCHANGED <<source, version, fitting, updates, baseline, pages, worker, skipped, replaced, faults>>
    BY <1>4 DEF Disable, offers, jobs, ghosts
  <2> QED
    BY <1>0, <2>2, <2>3 DEF TypeInv, TypeOK, VersionsCounted
<1>5. CASE Disconnect
  <2>1. sync' \in [Offers -> Row] /\ 0 \in 0..MaxSources
    BY <1>5, AbsentIsTyped, NotionSyncAssumption DEF Disconnect
  <2>2. source' = 0 /\ skipped' = {} /\ replaced' \in BOOLEAN /\ MayEdit
        /\ UNCHANGED <<active, version, fitting, updates, baseline, pages, worker, faults>>
    BY <1>5 DEF Disconnect, offers, jobs
  <2> QED
    BY <1>0, <2>1, <2>2 DEF TypeInv, TypeOK, VersionsCounted
<1>6. CASE Reconnect
  <2>1. sync' \in [Offers -> Row]
    BY <1>0, <1>6, RetriedKeeps DEF Reconnect
  <2> QED
    BY <1>0, <1>6, <2>1
    DEF Reconnect, TypeInv, TypeOK, VersionsCounted, account, offers, jobs, ghosts
<1>7. ASSUME NEW o \in Offers, MatchOffer(o) PROVE TypeInv'
  <2>1. sync' \in [Offers -> Row] /\ skipped' \in SUBSET Offers
    BY <1>0, <1>7, RequeuedKeeps DEF MatchOffer, TypeOK
  <2> QED
    BY <1>0, <1>7, <2>1 DEF MatchOffer, TypeInv, TypeOK, VersionsCounted, account, offers
<1>8. CASE MatchUser
  <2>1. sync' \in [Offers -> Row]
    <3>1. CASE active /\ source # 0
      BY <1>0, <1>8, <3>1, AbsentIsTyped DEF MatchUser
    <3>2. CASE ~(active /\ source # 0)
      BY <1>0, <1>8, <3>2 DEF MatchUser, TypeOK
    <3> QED
      BY <3>1, <3>2
  <2> QED
    BY <1>0, <1>8, <2>1 DEF MatchUser, TypeInv, TypeOK, VersionsCounted, account, offers, ghosts
<1>9. ASSUME NEW o \in Offers, TimePasses(o) \/ GiveUp(o) PROVE TypeInv'
  <2>1. [sync[o] EXCEPT !.next = Now] \in Row /\ [sync[o] EXCEPT !.status = "failed"] \in Row
    BY <1>0, FieldsAreTyped DEF Row
  <2>2. \/ sync' = [sync EXCEPT ![o] = [sync[o] EXCEPT !.next = Now]]
        \/ sync' = [sync EXCEPT ![o] = [sync[o] EXCEPT !.status = "failed"]]
    BY <1>9 DEF TimePasses, LeaseExpires, RetryDue, GiveUp
  <2>3. sync' \in [Offers -> Row]
    BY <1>0, <2>1, <2>2 DEF TypeOK
  <2> QED
    BY <1>0, <1>9, <2>3
    DEF TimePasses, LeaseExpires, RetryDue, GiveUp, TypeInv, TypeOK, VersionsCounted,
        account, offers, jobs, ghosts
<1> QED
  BY <1>1, <1>2, <1>2a, <1>3, <1>4, <1>5, <1>6, <1>7, <1>8, <1>9 DEF Environment, Matching

(* What a claim makes of the row and of its worker. *)
LEMMA ClaimTakes ==
    ASSUME TypeInv, NEW w \in Workers, NEW o \in Offers, NEW readable \in BOOLEAN,
           Claim(w, o, readable)
    PROVE  /\ worker[w].pc = "idle" /\ active /\ source \in Sources
           /\ sync[o].next = Now /\ sync[o].status \in {"pending", "processing"}
           /\ sync' \in [Offers -> Row] /\ \A u \in Offers \ {o} : sync'[u] = sync[u]
           /\ sync'[o].status = "processing" /\ sync'[o].next = w /\ sync'[o].page = sync[o].page
           /\ worker' \in [Workers -> WorkerRow]
           /\ \A v \in Workers \ {w} : worker'[v] = worker[v]
           /\ worker'[w].offer = o /\ worker'[w].source = source
           /\ worker'[w].page = sync[o].page /\ worker'[w].version = version[o]
           /\ worker'[w].pc = "lookup" => sync[o].page = 0
           /\ worker'[w].pc = "write" => sync[o].page # 0
           /\ worker'[w].pc = "answered" => worker'[w].answer # "ok"
           /\ worker'[w].pc # "idle"
           /\ skipped' = skipped \ {o}
           /\ UNCHANGED <<account, offers, jobs, pages, replaced, edits>>
           /\ faults' \in 0..MaxFaults
<1> DEFINE row == [sync[o] EXCEPT !.status = "processing", !.attempts = @ + 1, !.next = w]
           call == [pc |-> IF ~readable THEN "answered"
                           ELSE IF sync[o].page = 0 THEN "lookup" ELSE "write",
                    offer |-> o, source |-> source, page |-> sync[o].page,
                    version |-> version[o], answer |-> IF readable THEN "ok" ELSE "InvalidToken"]
<1>0. TypeOK /\ sync[o] \in Row /\ MaxAttempts \in Nat /\ MaxSources \in Nat
  BY NotionSyncAssumption DEF TypeInv, TypeOK
<1>1. worker[w].pc = "idle" /\ Available(o) /\ active /\ ~Exhausted(o) /\ source # 0
      /\ skipped' = skipped \ {o} /\ UNCHANGED <<account, offers, jobs, pages, replaced, edits>>
  BY DEF Claim
<1>2. sync' = [sync EXCEPT ![o] = row] /\ worker' = [worker EXCEPT ![w] = call]
  BY DEF Claim
<1>3. source \in Sources
  BY <1>0, <1>1 DEF TypeOK, Sources
<1>4. row \in Row /\ row.status = "processing" /\ row.next = w /\ row.page = sync[o].page
  <2>1. sync[o].attempts + 1 \in 0..MaxAttempts
    BY <1>0, <1>1 DEF Exhausted, Row
  <2> QED
    BY <1>0, <2>1 DEF Row
<1>5. call \in WorkerRow
  BY <1>0, <1>3 DEF WorkerRow, Row, TypeOK
<1>6. faults' \in 0..MaxFaults
  <2>1. readable => faults' = faults
    BY DEF Claim
  <2>2. ~readable => MayFail
    BY DEF Claim
  <2> QED
    BY <2>1, <2>2, BudgetsAreTyped
<1> HIDE DEF row
<1>7. /\ sync' \in [Offers -> Row] /\ sync'[o] = row
      /\ \A u \in Offers \ {o} : sync'[u] = sync[u]
  BY <1>0, <1>2, <1>4 DEF TypeOK
<1>8. worker' \in [Workers -> WorkerRow] /\ worker'[w] = call
      /\ \A v \in Workers \ {w} : worker'[v] = worker[v]
  BY <1>0, <1>2, <1>5 DEF TypeOK
<1>9. /\ call.offer = o /\ call.source = source /\ call.page = sync[o].page
      /\ call.version = version[o] /\ call.pc # "idle"
      /\ call.pc = "lookup" => sync[o].page = 0
      /\ call.pc = "write" => sync[o].page # 0
      /\ call.pc = "answered" => call.answer # "ok"
  OBVIOUS
<1> QED
  BY <1>1, <1>3, <1>4, <1>6, <1>7, <1>8, <1>9 DEF Available

(* A lookup finds a page of the worker's database, or none. *)
LEMMA LookupFinds ==
    ASSUME TypeInv, NEW w \in Workers, Lookup(w)
    PROVE  /\ worker[w].pc = "lookup"
           /\ worker' \in [Workers -> WorkerRow]
           /\ \A v \in Workers \ {w} : worker'[v] = worker[v]
           /\ worker'[w].pc = "write"
           /\ worker'[w].offer = worker[w].offer /\ worker'[w].source = worker[w].source
           /\ worker'[w].version = worker[w].version
           /\ IF Found(w) = {} THEN worker'[w].page = 0
                               ELSE worker'[w].page \in Found(w) /\ worker'[w].page # 0
           /\ UNCHANGED <<account, offers, jobs, sync, pages, ghosts, edits, faults>>
<1>0. TypeOK /\ worker[w] \in WorkerRow /\ worker[w].offer \in Offers
      /\ pages[worker[w].offer] \in Seq(Page)
  BY DEF TypeInv, TypeOK, WorkerRow
<1>1. PICK i \in IF Found(w) = {} THEN {0} ELSE Found(w) :
        worker' = [worker EXCEPT ![w] = [worker[w] EXCEPT !.pc = "write", !.page = i]]
  BY DEF Lookup
<1>2. i \in Nat /\ (Found(w) # {} => i \in Found(w) /\ i # 0) /\ (Found(w) = {} => i = 0)
  <2>1. \A j \in Found(w) : j \in Nat /\ j # 0
    BY <1>0 DEF Found
  <2> QED
    BY <1>1, <2>1
<1> DEFINE call == [worker[w] EXCEPT !.pc = "write", !.page = i]
<1>3. call \in WorkerRow /\ call.pc = "write" /\ call.page = i /\ call.offer = worker[w].offer
      /\ call.source = worker[w].source /\ call.version = worker[w].version
  BY <1>0, <1>2 DEF WorkerRow
<1> HIDE DEF call
<1>4. worker' = [worker EXCEPT ![w] = call]
  BY <1>1 DEF call
<1> QED
  BY <1>0, <1>2, <1>3, <1>4 DEF Lookup, TypeOK

(* A worker that writes, with or without an answer. *)
LEMMA CallEnds ==
    ASSUME TypeInv, CallsSound, NEW w \in Workers, NEW takes \in BOOLEAN,
           Write(w) \/ CallFails(w, takes)
    PROVE  /\ worker[w].pc \in {"lookup", "write"}
           /\ worker' \in [Workers -> WorkerRow]
           /\ \A v \in Workers \ {w} : worker'[v] = worker[v]
           /\ worker'[w].pc = "answered"
           /\ worker'[w].offer = worker[w].offer /\ worker'[w].source = worker[w].source
           /\ worker'[w].version = worker[w].version
           /\ worker[w].page # 0 => worker'[w].page = worker[w].page
           /\ Write(w) => /\ worker'[w].answer = "ok"
                          /\ worker[w].page = 0 => worker'[w].page = Len(Written(w))
           /\ ~Write(w) => worker'[w].answer = "error" /\ worker'[w].page = worker[w].page
           /\ \/ UNCHANGED pages /\ ~Write(w)
              \/ /\ worker[w].pc = "write"
                 /\ pages' \in [Offers -> Seq(Page)] /\ pages'[worker[w].offer] = Written(w)
                 /\ \A o \in Offers \ {worker[w].offer} : pages'[o] = pages[o]
           /\ UNCHANGED <<account, offers, jobs, sync, ghosts, edits>>
           /\ faults' \in 0..MaxFaults
<1>0. TypeOK /\ worker[w] \in WorkerRow /\ worker[w].offer \in Offers /\ worker[w].page \in Nat
  BY DEF TypeInv, TypeOK, WorkerRow
<1>1. worker[w].pc \in {"lookup", "write"}
  BY DEF Write, CallFails
<1>2. worker[w].page = 0 \/ worker[w].page \in DOMAIN pages[worker[w].offer]
  BY <1>1 DEF CallsSound, CallSound, Busy
<1>3. /\ Written(w) \in Seq(Page) /\ Len(Written(w)) \in Nat
  <2>1. Written(w) \in Seq(Page)
    BY <1>0, <1>2, WrittenIsSound
  <2>2. \A s \in Seq(Page) : Len(s) \in Nat
    OBVIOUS
  <2> QED
    BY <2>1, <2>2
<1>4. ASSUME pages' = [pages EXCEPT ![worker[w].offer] = Written(w)]
      PROVE  /\ pages' \in [Offers -> Seq(Page)] /\ pages'[worker[w].offer] = Written(w)
             /\ \A o \in Offers \ {worker[w].offer} : pages'[o] = pages[o]
  BY <1>0, <1>3, <1>4 DEF TypeOK
<1>5. CASE Write(w)
  <2> DEFINE i == IF worker[w].page = 0 THEN Len(Written(w)) ELSE worker[w].page
             call == [worker[w] EXCEPT !.pc = "answered", !.answer = "ok", !.page = i]
  <2>1. worker' = [worker EXCEPT ![w] = call] /\ worker[w].pc = "write"
        /\ pages' = [pages EXCEPT ![worker[w].offer] = Written(w)]
        /\ UNCHANGED <<account, offers, jobs, sync, ghosts, edits, faults>>
    BY <1>5 DEF Write
  <2>2. i \in Nat
    BY <1>0, <1>3
  <2>3. call \in WorkerRow /\ call.pc = "answered" /\ call.page = i /\ call.answer = "ok"
        /\ call.offer = worker[w].offer /\ call.source = worker[w].source
        /\ call.version = worker[w].version
    <3> HIDE DEF i
    <3> QED
      BY <1>0, <2>2 DEF WorkerRow
  <2> HIDE DEF call
  <2>4. worker' \in [Workers -> WorkerRow] /\ worker'[w] = call
        /\ \A v \in Workers \ {w} : worker'[v] = worker[v]
    BY <1>0, <2>1, <2>3 DEF TypeOK
  <2>5. faults' \in 0..MaxFaults
    BY <1>0, <2>1 DEF TypeOK
  <2> QED
    BY <1>4, <1>5, <2>1, <2>3, <2>4, <2>5
<1>6. CASE ~Write(w) /\ CallFails(w, takes)
  <2> DEFINE call == [worker[w] EXCEPT !.pc = "answered", !.answer = "error"]
  <2>1. worker' = [worker EXCEPT ![w] = call] /\ MayFail
        /\ UNCHANGED <<account, offers, jobs, sync, ghosts, edits>>
    BY <1>6 DEF CallFails
  <2>2. call \in WorkerRow /\ call.pc = "answered" /\ call.page = worker[w].page
        /\ call.answer = "error" /\ call.offer = worker[w].offer
        /\ call.source = worker[w].source /\ call.version = worker[w].version
    BY <1>0 DEF WorkerRow
  <2> HIDE DEF call
  <2>3. worker' \in [Workers -> WorkerRow] /\ worker'[w] = call
        /\ \A v \in Workers \ {w} : worker'[v] = worker[v]
    BY <1>0, <2>1, <2>2 DEF TypeOK
  <2>4. CASE takes
    BY <1>4, <1>6, <2>1, <2>2, <2>3, <2>4, BudgetsAreTyped DEF CallFails
  <2>5. CASE ~takes
    BY <1>1, <1>6, <2>1, <2>2, <2>3, <2>5, BudgetsAreTyped DEF CallFails
  <2> QED
    BY <2>4, <2>5
<1> QED
  BY <1>5, <1>6

(* A worker that stops: with an outcome for the row it holds, or without. *)
LEMMA WorkEnds ==
    ASSUME TypeInv, NEW w \in Workers, Finalise(w) \/ Crash(w)
    PROVE  /\ worker' \in [Workers -> WorkerRow] /\ worker'[w].pc = "idle"
           /\ \A v \in Workers \ {w} : worker'[v] = worker[v]
           /\ worker[w].pc # "idle" /\ (Finalise(w) => worker[w].pc = "answered")
           /\ sync' \in [Offers -> Row]
           /\ \A o \in Offers \ {worker[w].offer} : sync'[o] = sync[o]
           /\ IF Finalise(w) /\ Holds(w)
                THEN sync'[worker[w].offer] = Outcome(w, sync[worker[w].offer])
                ELSE sync' = sync
           /\ UNCHANGED <<account, offers, jobs, pages, ghosts, edits>>
           /\ faults' \in 0..MaxFaults
<1>0. TypeOK /\ worker[w].offer \in Offers /\ sync[worker[w].offer] \in Row
  BY DEF TypeInv, TypeOK, WorkerRow
<1>1. worker' = [worker EXCEPT ![w] = IdleWorker]
  BY DEF Finalise, Crash
<1>2. worker' \in [Workers -> WorkerRow] /\ worker'[w].pc = "idle"
      /\ \A v \in Workers \ {w} : worker'[v] = worker[v]
  BY <1>0, <1>1, IdleIsTyped DEF TypeOK
<1>3. faults' \in 0..MaxFaults
  <2>1. faults' = faults \/ MayFail
    BY DEF Finalise, Crash
  <2> QED
    BY <2>1, BudgetsAreTyped
<1>4. Outcome(w, sync[worker[w].offer]) \in Row
  BY <1>0, OutcomeIsSound
<1>5. /\ worker[w].pc # "idle" /\ (Finalise(w) => worker[w].pc = "answered")
      /\ UNCHANGED <<account, offers, jobs, pages, ghosts, edits>>
  BY DEF Finalise, Crash
<1>6. CASE Finalise(w) /\ Holds(w)
  <2>1. sync' = [sync EXCEPT ![worker[w].offer] = Outcome(w, sync[worker[w].offer])]
    BY <1>6 DEF Finalise
  <2> QED
    BY <1>0, <1>2, <1>3, <1>4, <1>5, <1>6, <2>1 DEF TypeOK
<1>7. CASE ~(Finalise(w) /\ Holds(w))
  <2>1. sync' = sync
    BY <1>7 DEF Finalise, Crash
  <2> QED
    BY <1>0, <1>2, <1>3, <1>5, <1>7, <2>1 DEF TypeOK
<1> QED
  BY <1>6, <1>7

LEMMA TypeStep ==
    ASSUME TypeInv, CallsSound, [Next]_vars
    PROVE  TypeInv'
<1>0. TypeOK
  BY DEF TypeInv
<1>1. ASSUME NEW w \in Workers, NEW o \in Offers, NEW readable \in BOOLEAN, Claim(w, o, readable)
      PROVE  TypeInv'
  <2>1. skipped' \in SUBSET Offers
    BY <1>0, <1>1, ClaimTakes DEF TypeOK
  <2> QED
    BY <1>0, <1>1, <2>1, ClaimTakes DEF TypeInv, TypeOK, VersionsCounted, account, offers, jobs
<1>2. ASSUME NEW w \in Workers, Lookup(w) PROVE TypeInv'
  BY <1>0, <1>2, LookupFinds DEF TypeInv, TypeOK, VersionsCounted, account, offers, jobs, ghosts
<1>3. ASSUME NEW w \in Workers, NEW takes \in BOOLEAN, Write(w) \/ CallFails(w, takes)
      PROVE  TypeInv'
  <2>1. pages' \in [Offers -> Seq(Page)]
    BY <1>0, <1>3, CallEnds DEF TypeOK
  <2> QED
    BY <1>0, <1>3, <2>1, CallEnds
    DEF TypeInv, TypeOK, VersionsCounted, account, offers, jobs, ghosts
<1>4. ASSUME NEW w \in Workers, Finalise(w) \/ Crash(w) PROVE TypeInv'
  BY <1>0, <1>4, WorkEnds DEF TypeInv, TypeOK, VersionsCounted, account, offers, jobs, ghosts
<1>5. CASE UNCHANGED vars
  BY <1>0, <1>5 DEF vars, TypeInv, TypeOK, VersionsCounted, account, offers, jobs, ghosts
<1>6. CASE Environment \/ Matching \/ \E o \in Offers : TimePasses(o) \/ GiveUp(o)
  BY <1>6, OutsideIsTyped
<1> QED
  BY <1>1, <1>2, <1>3, <1>4, <1>5, <1>6 DEF Next, WorkerStep, Trouble

----------------------------------------------------------------------------
(* Steps that are quiet: no call is made and no connection changes. *)

(* What a quiet step may do to a row: it revokes claims and leases of nobody,
   completes nothing and claims nothing; a row that is completed may go. *)
QuietRow(o) ==
    LET old == sync[o]
        new == sync'[o]
    IN  /\ new.page \in {old.page, 0}
        /\ \/ new.next = old.next
           \/ /\ new.next = Now
              /\ \A w \in Workers : Busy(w) /\ worker[w].offer = o => old.next # w
        /\ new.status = "absent" =>
             old.status = "absent" \/ (old.status = "synced" /\ new = AbsentRow)
        /\ new.status = "failed" => new.next \notin Workers
        /\ new.status = "synced" => new = old
        /\ new.status = "processing" => old.status = "processing"
        /\ source = 0 => new.status = "absent"
        /\ new.status \in {"processing", "synced"} /\ Stale(o) => Stale(o)'
        /\ version'[o] = version[o] \/ o \in updates'

Quiet ==
    /\ UNCHANGED <<source, pages, worker, replaced>>
    /\ \A o \in Offers : QuietRow(o)

(* A row that is left alone. *)
LEMMA SameRowIsQuiet ==
    ASSUME RowsSound, NEW o \in Offers, sync'[o] = sync[o],
           Stale(o) => Stale(o)', version'[o] = version[o] \/ o \in updates'
    PROVE  QuietRow(o)
BY DEF QuietRow, RowsSound, RowSound

LEMMA QuietStep ==
    ASSUME TypeInv, RowsSound,
           \/ \E o \in Offers : \/ \E open \in BOOLEAN : Collect(o, open)
                              \/ AdminRetry(o) \/ Purge(o)
                              \/ MatchOffer(o) \/ TimePasses(o) \/ GiveUp(o)
           \/ \E fits \in SUBSET Offers : Activate(fits)
           \/ Enable \/ Disable \/ Reconnect \/ MatchUser
    PROVE  Quiet
<1>0. TypeOK /\ \A o \in Offers : sync[o] \in Row /\ RowSound(sync[o], o)
  BY DEF TypeInv, TypeOK, RowsSound
<1>1. UNCHANGED <<source, pages, worker, replaced>>
  BY DEF Collect, AdminRetry, Purge, MatchOffer, TimePasses, LeaseExpires, RetryDue, GiveUp, Activate,
         Enable, Disable, Reconnect, MatchUser, account, ghosts
<1>2. ASSUME UNCHANGED <<version, updates, skipped>>
      PROVE  \A o \in Offers : (Stale(o) => Stale(o)') /\ version'[o] = version[o]
  BY <1>2 DEF Stale
<1>3. ASSUME NEW u \in Offers, NEW open \in BOOLEAN, Collect(u, open),
             NEW o \in Offers
      PROVE  QuietRow(o)
  <2>1. sync' = sync /\ updates' = updates \cup {u} /\ skipped' = skipped
        /\ (o # u => version'[o] = version[o])
    BY <1>0, <1>3 DEF Collect, ghosts, TypeOK
  <2> QED
    BY <2>1, SameRowIsQuiet DEF Stale
<1>4. ASSUME \/ Enable \/ \E fits \in SUBSET Offers : Activate(fits),
             NEW o \in Offers
      PROVE  QuietRow(o)
  <2>1. UNCHANGED <<version, updates, skipped, sync>>
    BY <1>4 DEF Enable, Activate, offers, ghosts
  <2> QED
    BY <1>2, <2>1, SameRowIsQuiet
<1>5. ASSUME NEW u \in Offers, AdminRetry(u), NEW o \in Offers PROVE QuietRow(o)
  <2>1. UNCHANGED <<version, updates, skipped>>
    BY <1>5 DEF AdminRetry, offers, jobs, ghosts
  <2>2. CASE o # u
    <3>1. sync'[o] = sync[o]
      BY <1>0, <1>5, <2>2 DEF AdminRetry, TypeOK
    <3> QED
      BY <1>2, <2>1, <3>1, SameRowIsQuiet
  <2>3. CASE o = u
    <3>1. sync'[o] = Retried(sync[o]) /\ sync[o].status = "failed"
      BY <1>0, <1>5, <2>3 DEF AdminRetry, TypeOK
    <3>2. sync'[o].status = "pending" /\ sync'[o].next = Now /\ sync'[o].page = sync[o].page
      BY <1>0, <3>1, RetriedKeeps
    <3> QED
      BY <1>0, <1>2, <2>1, <3>1, <3>2 DEF QuietRow, RowSound
  <2> QED
    BY <2>2, <2>3
<1>5a. ASSUME NEW u \in Offers, Purge(u), NEW o \in Offers PROVE QuietRow(o)
  <2>1. UNCHANGED <<version, updates, skipped>>
    BY <1>5a DEF Purge, offers, jobs, ghosts
  <2>2. CASE o # u
    <3>1. sync'[o] = sync[o]
      BY <1>0, <1>5a, <2>2 DEF Purge, TypeOK
    <3> QED
      BY <1>2, <2>1, <3>1, SameRowIsQuiet
  <2>3. CASE o = u
    <3>1. sync'[o] = AbsentRow /\ sync[o].status = "synced"
      BY <1>0, <1>5a, <2>3 DEF Purge, TypeOK
    <3>2. AbsentRow.status = "absent" /\ AbsentRow.next = Now /\ AbsentRow.page = 0
      BY DEF AbsentRow
    <3> QED
      BY <1>0, <1>2, <2>1, <3>1, <3>2 DEF QuietRow, RowSound
  <2> QED
    BY <2>2, <2>3
<1>6. ASSUME Reconnect, NEW o \in Offers PROVE QuietRow(o)
  <2>1. UNCHANGED <<version, updates, skipped>> /\ source # 0 /\ sync'[o] = Retried(sync[o])
    BY <1>6 DEF Reconnect, offers, jobs, ghosts
  <2>2. CASE sync[o].status = "failed"
    <3>1. sync'[o].status = "pending" /\ sync'[o].next = Now /\ sync'[o].page = sync[o].page
      BY <1>0, <2>1, <2>2, RetriedKeeps
    <3> QED
      BY <1>0, <1>2, <2>1, <2>2, <3>1 DEF QuietRow, RowSound
  <2>3. CASE sync[o].status # "failed"
    BY <1>0, <1>2, <2>1, <2>3, RetriedKeeps, SameRowIsQuiet
  <2> QED
    BY <2>2, <2>3
<1>7. ASSUME Disable, NEW o \in Offers PROVE QuietRow(o)
  <2>1. UNCHANGED <<version, updates, skipped>>
    BY <1>7 DEF Disable, offers, jobs, ghosts
  <2>2. CASE sync[o].status \in {"pending", "processing", "failed"}
    <3>1. sync'[o] = [sync[o] EXCEPT !.status = "cancelled"]
      BY <1>7, <2>2 DEF Disable
    <3>2. sync'[o].status = "cancelled" /\ sync'[o].next = sync[o].next
          /\ sync'[o].page = sync[o].page
      BY <1>0, <3>1 DEF Row
    <3> QED
      BY <1>0, <1>2, <2>1, <2>2, <3>2 DEF QuietRow, RowSound
  <2>3. CASE sync[o].status \notin {"pending", "processing", "failed"}
    <3>1. sync'[o] = sync[o]
      BY <1>7, <2>3 DEF Disable
    <3> QED
      BY <1>2, <2>1, <3>1, SameRowIsQuiet
  <2> QED
    BY <2>2, <2>3
<1>8. ASSUME MatchUser, NEW o \in Offers PROVE QuietRow(o)
  <2>1. UNCHANGED <<version, updates, skipped>>
    BY <1>8 DEF MatchUser, offers, ghosts
  <2>2. CASE sync'[o] = sync[o]
    BY <1>2, <2>1, <2>2, SameRowIsQuiet
  <2>3. CASE sync'[o] # sync[o]
    <3>1. sync'[o] = NewRow /\ sync[o].status = "absent" /\ source # 0
      BY <1>0, <1>8, <2>3 DEF MatchUser, TypeOK
    <3>2. NewRow.status = "pending" /\ NewRow.next = Now /\ NewRow.page = 0
      BY DEF NewRow, AbsentRow
    <3> QED
      BY <1>0, <1>2, <2>1, <3>1, <3>2 DEF QuietRow, RowSound
  <2> QED
    BY <2>2, <2>3
<1>9. ASSUME NEW u \in Offers, MatchOffer(u), NEW o \in Offers PROVE QuietRow(o)
  <2>1. version' = version /\ updates' = updates \ {u} /\ skipped \subseteq skipped'
    BY <1>9 DEF MatchOffer, offers
  <2>2. CASE o # u
    <3>1. sync'[o] = sync[o]
      BY <1>0, <1>9, <2>2 DEF MatchOffer, TypeOK
    <3> QED
      BY <2>1, <2>2, <3>1, SameRowIsQuiet DEF Stale
  <2>3. CASE o = u /\ sync' = sync /\ (sync[u].status # "absent" => u \in skipped')
    BY <1>0, <2>1, <2>3 DEF QuietRow, RowSound, Stale
  <2>4. CASE o = u /\ source # 0 /\ sync' = [sync EXCEPT ![u] = Requeued(sync[u])]
    <3>1. sync'[o] = Requeued(sync[o])
      BY <1>0, <2>4 DEF TypeOK
    <3>2. /\ sync'[o].status = "pending"
          /\ sync'[o].page = sync[o].page /\ sync'[o].next = sync[o].next
      BY <1>0, <3>1, RequeuedKeeps DEF RowSound
    <3> QED
      BY <2>1, <2>4, <3>2 DEF QuietRow
  <2> QED
    BY <1>9, <2>2, <2>3, <2>4 DEF MatchOffer
<1>10. ASSUME NEW u \in Offers, TimePasses(u) \/ GiveUp(u), NEW o \in Offers PROVE QuietRow(o)
  <2>1. UNCHANGED <<version, updates, skipped>>
    BY <1>10 DEF TimePasses, LeaseExpires, RetryDue, GiveUp, offers, jobs, ghosts
  <2>2. CASE o # u
    <3>1. sync'[o] = sync[o]
      BY <1>0, <1>10, <2>2 DEF TimePasses, LeaseExpires, RetryDue, GiveUp, TypeOK
    <3> QED
      BY <1>2, <2>1, <3>1, SameRowIsQuiet
  <2>3. CASE o = u /\ GiveUp(u)
    <3>1. sync'[o] = [sync[o] EXCEPT !.status = "failed"] /\ Available(o)
      BY <1>0, <2>3 DEF GiveUp, TypeOK
    <3>2. sync'[o].status = "failed" /\ sync'[o].next = sync[o].next
          /\ sync'[o].page = sync[o].page
      BY <1>0, <3>1 DEF Row
    <3>3. sync[o].next = Now /\ sync[o].status # "absent"
      BY <3>1 DEF Available
    <3> QED
      BY <1>0, <1>2, <2>1, <3>2, <3>3, FieldsAreTyped DEF QuietRow, RowSound
  <2>4. CASE o = u /\ TimePasses(u)
    <3>1. sync'[o] = [sync[o] EXCEPT !.next = Now]
          /\ \A w \in Workers : Busy(w) /\ worker[w].offer = o => sync[o].next # w
      BY <1>0, <2>4, FieldsAreTyped DEF TimePasses, LeaseExpires, RetryDue, TypeOK, Busy
    <3>2. sync'[o].status = sync[o].status /\ sync'[o].next = Now
          /\ sync'[o].page = sync[o].page
      BY <1>0, <3>1 DEF Row
    <3>3. sync[o].next # Now
      BY <2>4, FieldsAreTyped, NotionSyncAssumption DEF TimePasses, LeaseExpires, RetryDue
    <3> QED
      BY <1>0, <1>2, <2>1, <3>1, <3>2, <3>3, FieldsAreTyped DEF QuietRow, RowSound
  <2> QED
    BY <1>10, <2>2, <2>3, <2>4
<1> QED
  BY <1>1, <1>3, <1>4, <1>5, <1>5a, <1>6, <1>7, <1>8, <1>9, <1>10 DEF Quiet

LEMMA QuietKeeps ==
    ASSUME Inv, Quiet
    PROVE  (Places /\ Currency)'
<1>0. /\ RowsSound /\ CallsSound /\ Leases /\ Apart /\ OnePage /\ ClaimsCurrent /\ RowsCurrent
      /\ \A w \in Workers : worker[w].offer \in Offers
      /\ \A o \in Offers : sync[o].next \in Workers \cup {Now, Later}
  BY DEF Inv, Places, Currency, TypeInv, TypeOK, WorkerRow, Row
<1>1. UNCHANGED <<source, pages, worker, replaced>> /\ \A o \in Offers : QuietRow(o)
  BY DEF Quiet
<1>2. RowsSound'
  <2> SUFFICES ASSUME NEW o \in Offers PROVE RowSound(sync[o], o)'
    BY DEF RowsSound
  <2>1. RowSound(sync[o], o) /\ QuietRow(o)
    BY <1>0, <1>1 DEF RowsSound
  <2> QED
    BY <1>1, <2>1 DEF RowSound, QuietRow, PageSource, AbsentRow
<1>3. CallsSound' /\ Apart' /\ OnePage'
  BY <1>0, <1>1 DEF CallsSound, CallSound, Found, Busy, Apart, Target, OnePage
<1>4. Leases'
  <2> SUFFICES ASSUME NEW w \in Workers, Busy(w)
               PROVE  /\ Leased(w)' => replaced \/ Target(w) = source
                      /\ ~Leased(w)' => Away(w, sync'[worker[w].offer].page)
    BY <1>1 DEF Leases, Busy, Target, Away, PageSource
  <2>1. QuietRow(worker[w].offer) /\ Now # w
    BY <1>0, <1>1, FieldsAreTyped
  <2>2. Leased(w)' <=> Leased(w)
    BY <1>1, <2>1 DEF QuietRow, Leased
  <2> QED
    BY <1>0, <2>1, <2>2 DEF Leases, QuietRow, Away
<1>5. ClaimsCurrent'
  <2> SUFFICES ASSUME NEW w \in Workers, Busy(w), Holds(w)', ~Stale(worker[w].offer)'
               PROVE  worker[w].version = version'[worker[w].offer]
    BY <1>1 DEF ClaimsCurrent, Busy, Stale
  <2>1. QuietRow(worker[w].offer) /\ Now # w
    BY <1>0, <1>1, FieldsAreTyped
  <2>2. Holds(w) /\ ~Stale(worker[w].offer) /\ version'[worker[w].offer] = version[worker[w].offer]
    BY <1>1, <2>1 DEF QuietRow, Holds, Stale
  <2> QED
    BY <1>0, <2>2 DEF ClaimsCurrent
<1>6. RowsCurrent'
  <2> SUFFICES ASSUME NEW o \in Offers, sync'[o].status = "synced", ~Stale(o)'
               PROVE  pages[o][sync'[o].page].shows = version'[o]
    BY <1>1 DEF RowsCurrent, Stale
  <2>1. sync'[o] = sync[o] /\ ~Stale(o) /\ version'[o] = version[o]
    BY <1>1 DEF QuietRow, Stale
  <2> QED
    BY <1>0, <2>1 DEF RowsCurrent
<1> QED
  BY <1>2, <1>3, <1>4, <1>5, <1>6 DEF Places, Currency

----------------------------------------------------------------------------
(* The connection. *)

(* A busy worker writes to some database, which never is none. *)
LEMMA TargetIsTyped ==
    ASSUME TypeInv, CallsSound, NEW w \in Workers, Busy(w)
    PROVE  Target(w) \in Sources /\ Target(w) # 0
<1>1. worker[w] \in WorkerRow /\ pages[worker[w].offer] \in Seq(Page)
  BY DEF TypeInv, TypeOK, WorkerRow
<1>2. worker[w].page # 0 => worker[w].page \in DOMAIN pages[worker[w].offer]
  BY DEF CallsSound, CallSound
<1>3. \A s \in Seq(Page) : \A i \in DOMAIN s : s[i].source \in Sources
  <2>1. \A s \in Seq(Page) : \A i \in DOMAIN s : s[i] \in Page
    OBVIOUS
  <2>2. \A p \in Page : p.source \in Sources
    BY DEF Page
  <2> QED
    BY <2>1, <2>2
<1>4. Target(w) \in Sources
  BY <1>1, <1>2, <1>3 DEF Target, WorkerRow
<1> QED
  BY <1>4, NotionSyncAssumption DEF Sources

LEMMA DisconnectKeeps ==
    ASSUME Inv, Disconnect
    PROVE  (Places /\ Currency)'
<1>0. /\ CallsSound /\ Apart /\ OnePage /\ TypeInv
      /\ \A w \in Workers : worker[w].offer \in Offers
  BY DEF Inv, Places, TypeInv, TypeOK, WorkerRow
<1>1. /\ source' = 0 /\ UNCHANGED <<pages, worker>>
      /\ \A o \in Offers : /\ sync'[o].status = "absent" /\ sync'[o].page = 0
                           /\ sync'[o].next = Now
  BY DEF Disconnect, AbsentRow
<1>2. RowsSound'
  BY <1>1 DEF RowsSound, RowSound
<1>3. CallsSound' /\ Apart' /\ OnePage'
  BY <1>0, <1>1 DEF CallsSound, CallSound, Found, Busy, Apart, Target, OnePage
<1>4. Leases'
  <2> SUFFICES ASSUME NEW w \in Workers, Busy(w)
               PROVE  ~Leased(w)' /\ Away(w, 0)'
    BY <1>0, <1>1 DEF Leases, Busy, Away
  <2>1. Target(w) # 0
    BY <1>0, TargetIsTyped
  <2> QED
    BY <1>0, <1>1, <2>1, FieldsAreTyped DEF Leased, Away, Target
<1>5. Currency'
  BY <1>0, <1>1 DEF Currency, ClaimsCurrent, RowsCurrent, Holds
<1> QED
  BY <1>2, <1>3, <1>4, <1>5 DEF Places

LEMMA AttachKeeps ==
    ASSUME Inv, NEW s \in Sources, Attach(s)
    PROVE  (Places /\ Currency)'
<1>0. /\ RowsSound /\ CallsSound /\ Leases /\ Apart /\ OnePage /\ Currency
      /\ \A w \in Workers : worker[w].offer \in Offers
  BY DEF Inv, Places, TypeInv, TypeOK, WorkerRow
<1>1. /\ source' = s /\ source # s /\ (replaced' <=> source # 0 \/ replaced)
      /\ UNCHANGED <<version, updates, sync, pages, worker, skipped>>
      /\ \A w \in Workers : Busy(w) => Target(w) # s
  BY DEF Attach, offers, Busy
<1>2. s # 0
  BY NotionSyncAssumption DEF Sources
<1>3. \A o \in Offers : source = 0 => sync[o].page = 0 /\ sync[o].next = Now
  BY <1>0 DEF RowsSound, RowSound
<1>4. RowsSound'
  BY <1>0, <1>1, <1>2, <1>3 DEF RowsSound, RowSound, PageSource
<1>5. CallsSound' /\ Apart' /\ OnePage'
  BY <1>0, <1>1 DEF CallsSound, CallSound, Found, Busy, Apart, Target, OnePage
<1>6. Leases'
  <2> SUFFICES ASSUME NEW w \in Workers, Busy(w)
               PROVE  /\ Leased(w) => replaced'
                      /\ ~Leased(w) => Away(w, sync[worker[w].offer].page)'
    BY <1>1 DEF Leases, Busy, Leased, Away, Target, PageSource
  <2>1. Leased(w) => source # 0
    BY <1>0, <1>3, FieldsAreTyped DEF Leased
  <2>2. ~Leased(w) => Away(w, sync[worker[w].offer].page)
    BY <1>0 DEF Leases
  <2> QED
    BY <1>1, <2>1, <2>2 DEF Away, Target, PageSource
<1>7. Currency'
  BY <1>0, <1>1 DEF Currency, ClaimsCurrent, RowsCurrent, Holds, Stale, Busy
<1> QED
  BY <1>4, <1>5, <1>6, <1>7 DEF Places

----------------------------------------------------------------------------
(* The steps of a worker. *)

(* A claim is for the connection's database, where nobody else writes then. *)
LEMMA ClaimKeeps ==
    ASSUME Inv, NEW w \in Workers, NEW o \in Offers, NEW readable \in BOOLEAN,
           Claim(w, o, readable)
    PROVE  (Places /\ Currency)'
<1>0. /\ TypeInv /\ RowsSound /\ CallsSound /\ Leases /\ Apart /\ OnePage
      /\ ClaimsCurrent /\ RowsCurrent
      /\ \A v \in Workers : worker[v].offer \in Offers
  BY DEF Inv, Places, Currency, TypeInv, TypeOK, WorkerRow
<1>1. /\ worker[w].pc = "idle" /\ source \in Sources
      /\ sync[o].next = Now /\ sync[o].status \in {"pending", "processing"}
      /\ \A u \in Offers \ {o} : sync'[u] = sync[u]
      /\ sync'[o].status = "processing" /\ sync'[o].next = w /\ sync'[o].page = sync[o].page
      /\ \A v \in Workers \ {w} : worker'[v] = worker[v]
      /\ worker'[w].offer = o /\ worker'[w].source = source
      /\ worker'[w].page = sync[o].page /\ worker'[w].version = version[o]
      /\ worker'[w].pc = "lookup" => sync[o].page = 0
      /\ worker'[w].pc = "write" => sync[o].page # 0
      /\ worker'[w].pc = "answered" => worker'[w].answer # "ok"
      /\ skipped' = skipped \ {o}
      /\ UNCHANGED <<source, version, updates, pages, replaced>>
  BY <1>0, ClaimTakes DEF account, offers, jobs
<1>2. RowSound(sync[o], o) /\ source # 0
  BY <1>0, <1>1, NotionSyncAssumption DEF RowsSound, Sources
<1>3. \A v \in Workers \ {w} : Busy(v)' = Busy(v) /\ Target(v)' = Target(v)
  BY <1>1 DEF Busy, Target
<1>4. Target(w)' = (IF sync[o].page = 0 THEN source ELSE PageSource(o, sync[o].page))
  BY <1>1 DEF Target, PageSource
<1>5. \A v \in Workers \ {w} : Busy(v) /\ worker[v].offer = o =>
        ~Leased(v) /\ Target(v) # Target(w)'
  BY <1>0, <1>1, <1>4, FieldsAreTyped DEF Leases, Leased, Away, PageSource
<1>6. RowsSound'
  <2>1. RowSound(sync[o], o)'
    BY <1>1, <1>2 DEF RowSound, PageSource
  <2> QED
    BY <1>0, <1>1, <2>1 DEF RowsSound, RowSound, PageSource
<1>7. CallsSound'
  <2>1. CallSound(w)'
    BY <1>1, <1>2 DEF CallSound, RowSound
  <2> QED
    BY <1>0, <1>1, <1>3, <2>1 DEF CallsSound, CallSound, Found
<1>8. Leases'
  <2>1. Leased(w)' /\ (replaced \/ Target(w)' = source)
    BY <1>1, <1>2, <1>4 DEF Leased, RowSound
  <2>2. ASSUME NEW v \in Workers \ {w}, Busy(v)
        PROVE  /\ Leased(v)' => replaced \/ Target(v) = source
               /\ ~Leased(v)' => Away(v, sync'[worker[v].offer].page)
    <3>1. CASE worker[v].offer = o
      BY <1>0, <1>1, <1>5, <2>2, <3>1 DEF Leases, Leased
    <3>2. CASE worker[v].offer # o
      BY <1>0, <1>1, <2>2, <3>2 DEF Leases, Leased
    <3> QED
      BY <3>1, <3>2
  <2> QED
    BY <1>1, <1>3, <2>1, <2>2 DEF Leases, Away, PageSource
<1>9. Apart'
  BY <1>0, <1>1, <1>3, <1>5 DEF Apart
<1>10. OnePage'
  BY <1>0, <1>1 DEF OnePage
<1>11. ClaimsCurrent'
  <2> SUFFICES ASSUME NEW v \in Workers, Busy(v)', Holds(v)', ~Stale(worker[v].offer)'
               PROVE  worker'[v].version = version[worker'[v].offer]
    BY <1>1 DEF ClaimsCurrent
  <2>1. CASE v = w
    BY <1>1, <2>1
  <2>2. CASE v # w
    <3>1. worker[v].offer # o
      BY <1>1, <2>2 DEF Holds
    <3>2. Holds(v) /\ ~Stale(worker[v].offer) /\ Busy(v)
      BY <1>0, <1>1, <1>3, <2>2, <3>1 DEF Holds, Stale
    <3> QED
      BY <1>0, <1>1, <2>2, <3>2 DEF ClaimsCurrent
  <2> QED
    BY <2>1, <2>2
<1>12. RowsCurrent'
  BY <1>0, <1>1 DEF RowsCurrent, Stale
<1> QED
  BY <1>6, <1>7, <1>8, <1>9, <1>10, <1>11, <1>12 DEF Places, Currency

LEMMA LookupKeeps ==
    ASSUME Inv, NEW w \in Workers, Lookup(w)
    PROVE  (Places /\ Currency)'
<1>0. /\ TypeInv /\ RowsSound /\ CallsSound /\ Leases /\ Apart /\ OnePage /\ Currency
      /\ \A v \in Workers : worker[v].offer \in Offers
  BY DEF Inv, Places, TypeInv, TypeOK, WorkerRow
<1>1. /\ worker[w].pc = "lookup" /\ worker'[w].pc = "write"
      /\ \A v \in Workers \ {w} : worker'[v] = worker[v]
      /\ worker'[w].offer = worker[w].offer /\ worker'[w].source = worker[w].source
      /\ worker'[w].version = worker[w].version
      /\ IF Found(w) = {} THEN worker'[w].page = 0
                          ELSE worker'[w].page \in Found(w) /\ worker'[w].page # 0
      /\ UNCHANGED <<source, version, updates, sync, pages, skipped, replaced>>
  BY <1>0, LookupFinds DEF account, offers, jobs, ghosts
<1>2. worker[w].page = 0
  BY <1>0, <1>1 DEF CallsSound, CallSound, Busy
<1>3. \A v \in Workers : /\ Busy(v)' = Busy(v) /\ Target(v)' = Target(v)
                         /\ Leased(v)' = Leased(v) /\ Found(v)' = Found(v)
                         /\ worker'[v].offer = worker[v].offer
  <2>1. \A v \in Workers \ {w} :
          /\ Busy(v)' = Busy(v) /\ Target(v)' = Target(v)
          /\ Leased(v)' = Leased(v) /\ Found(v)' = Found(v)
    BY <1>1 DEF Busy, Target, Leased, Found
  <2>2. Leased(w)' = Leased(w) /\ Found(w)' = Found(w) /\ Busy(w)' = Busy(w)
    BY <1>1 DEF Busy, Leased, Found
  <2>3. Target(w)' = Target(w)
    BY <1>1, <1>2 DEF Target, Found
  <2> QED
    BY <1>1, <2>1, <2>2, <2>3
<1>4. RowsSound' /\ OnePage'
  BY <1>0, <1>1 DEF RowsSound, RowSound, PageSource, OnePage
<1>5. CallsSound'
  <2>1. CallSound(w)'
    BY <1>1, <1>3 DEF CallSound, Found
  <2> QED
    BY <1>0, <1>1, <1>3, <2>1 DEF CallsSound, CallSound
<1>6. Leases'
  BY <1>0, <1>1, <1>3 DEF Leases, Away, PageSource
<1>7. Apart'
  BY <1>0, <1>3 DEF Apart
<1>8. Currency'
  <2>1. \A v \in Workers : Holds(v)' = Holds(v) /\ worker'[v].version = worker[v].version
    BY <1>1, <1>3 DEF Holds
  <2> QED
    BY <1>0, <1>1, <1>3, <2>1 DEF Currency, ClaimsCurrent, RowsCurrent, Stale
<1> QED
  BY <1>4, <1>5, <1>6, <1>7, <1>8 DEF Places

(* The write of a worker that knows its page, or that knows there is none. *)
LEMMA WriteKeeps ==
    ASSUME Inv, NEW w \in Workers, NEW takes \in BOOLEAN, Write(w) \/ CallFails(w, takes)
    PROVE  (Places /\ Currency)'
<1> SUFFICES ASSUME NEW o, o = worker[w].offer, NEW i, i = worker[w].page
             PROVE  (Places /\ Currency)'
  OBVIOUS
<1>0. /\ TypeInv /\ RowsSound /\ CallsSound /\ Leases /\ Apart /\ OnePage
      /\ ClaimsCurrent /\ RowsCurrent
      /\ \A v \in Workers : worker[v].offer \in Offers
  BY DEF Inv, Places, Currency, TypeInv, TypeOK, WorkerRow
<1>1. /\ worker[w].pc \in {"lookup", "write"} /\ worker'[w].pc = "answered"
      /\ \A v \in Workers \ {w} : worker'[v] = worker[v]
      /\ worker'[w].offer = o /\ worker'[w].source = worker[w].source
      /\ worker'[w].version = worker[w].version
      /\ i # 0 => worker'[w].page = i
      /\ ~Write(w) => worker'[w].answer = "error" /\ worker'[w].page = i
      /\ UNCHANGED <<source, version, updates, sync, skipped, replaced>>
  BY <1>0, CallEnds DEF account, offers, jobs, ghosts
<1>2. /\ Busy(w) /\ CallSound(w)
      /\ \A v \in Workers : /\ Busy(v)' = Busy(v) /\ Leased(v)' = Leased(v)
                            /\ worker'[v].offer = worker[v].offer
                            /\ worker'[v].version = worker[v].version
                            /\ Holds(v)' = Holds(v)
  BY <1>0, <1>1 DEF CallsSound, Busy, Leased, Holds
<1>3. CASE UNCHANGED pages /\ ~Write(w)
  <2>1. \A v \in Workers : Target(v)' = Target(v)
    BY <1>1, <1>3 DEF Target
  <2>2. RowsSound' /\ OnePage' /\ Leases' /\ Apart'
    BY <1>0, <1>1, <1>2, <1>3, <2>1
    DEF RowsSound, RowSound, PageSource, OnePage, Leases, Away, Apart
  <2>3. CallsSound'
    <3>1. CallSound(w)'
      BY <1>1, <1>2, <1>3 DEF CallSound
    <3> QED
      BY <1>0, <1>1, <1>2, <1>3, <3>1 DEF CallsSound, CallSound, Found
  <2>4. Currency'
    BY <1>0, <1>1, <1>2, <1>3 DEF Currency, ClaimsCurrent, RowsCurrent, Stale
  <2> QED
    BY <2>2, <2>3, <2>4 DEF Places
<1>4. CASE /\ worker[w].pc = "write"
           /\ pages'[o] = Written(w) /\ \A u \in Offers \ {o} : pages'[u] = pages[u]
  <2>1. i = 0 \/ i \in DOMAIN pages[o]
    BY <1>2 DEF CallSound
  <2>2. /\ \A j \in DOMAIN pages[o] :
             /\ j \in DOMAIN pages'[o]
             /\ pages'[o][j].source = pages[o][j].source
             /\ j # i => pages'[o][j] = pages[o][j]
        /\ i # 0 => DOMAIN pages'[o] = DOMAIN pages[o] /\ pages'[o][i].shows = worker[w].version
    <3>1. TypeOK /\ (worker[w].page = 0 \/ worker[w].page \in DOMAIN pages[worker[w].offer])
      BY <1>0, <2>1 DEF TypeInv
    <3>2. \A j \in DOMAIN pages[worker[w].offer] :
            /\ j \in DOMAIN Written(w)
            /\ Written(w)[j].source = pages[worker[w].offer][j].source
            /\ j # worker[w].page => Written(w)[j] = pages[worker[w].offer][j]
      BY <3>1, WrittenIsSound
    <3>3. i # 0 => /\ DOMAIN Written(w) = DOMAIN pages[worker[w].offer]
                   /\ Written(w)[i].shows = worker[w].version
      BY <3>1, WrittenIsSound
    <3> QED
      BY <1>4, <3>2, <3>3
  <2> DEFINE new == Len(pages'[o])
  <2>3. i = 0 => /\ DOMAIN pages'[o] = DOMAIN pages[o] \cup {new}
                 /\ new \notin DOMAIN pages[o] /\ new # 0
                 /\ pages'[o][new].source = worker[w].source
                 /\ pages'[o][new].shows = worker[w].version
    <3> SUFFICES ASSUME i = 0
                 PROVE  /\ DOMAIN pages'[o] = DOMAIN pages[o] \cup {new}
                        /\ new \notin DOMAIN pages[o] /\ new # 0
                        /\ pages'[o][new].source = worker[w].source
                        /\ pages'[o][new].shows = worker[w].version
      OBVIOUS
    <3>1. /\ DOMAIN pages'[o] = DOMAIN pages[o] \cup {new}
          /\ new \notin DOMAIN pages[o] /\ new \in Nat \ {0}
          /\ pages'[o][new] = [source |-> worker[w].source, shows |-> worker[w].version]
      BY <1>0, <1>4, <2>1, WrittenIsSound DEF TypeInv
    <3> QED
      BY <3>1
  <2>4. Write(w) => worker'[w].answer = "ok" /\ (i = 0 => worker'[w].page = new)
    BY <1>0, <1>4, CallEnds
  <2> HIDE DEF new
  <2>16. \A u \in Offers : \A j \in DOMAIN pages[u] :
           j \in DOMAIN pages'[u] /\ PageSource(u, j)' = PageSource(u, j)
    <3> SUFFICES ASSUME NEW u \in Offers, NEW j \in DOMAIN pages[u]
                 PROVE  j \in DOMAIN pages'[u] /\ pages'[u][j].source = pages[u][j].source
      BY DEF PageSource
    <3>1. CASE u = o
      BY <2>2, <3>1
    <3>2. CASE u # o
      BY <1>4, <3>2
    <3> QED
      BY <3>1, <3>2
  <2>5. i = 0 => /\ Target(w) = worker[w].source
                 /\ \A j \in DOMAIN pages[o] : PageSource(o, j) # worker[w].source
    BY <1>2, <1>4 DEF Target, CallSound, Found, PageSource
  <2>6. i # 0 => PageSource(o, i) = Target(w)
    BY DEF Target, PageSource
  <2>7. \A v \in Workers : Busy(v) => Target(v)' = Target(v)
    <3>1. ASSUME NEW v \in Workers \ {w}, Busy(v) PROVE Target(v)' = Target(v)
      <4>1. worker[v].page # 0 => worker[v].page \in DOMAIN pages[worker[v].offer]
        BY <1>0, <3>1 DEF CallsSound, CallSound
      <4> QED
        BY <1>0, <1>1, <2>16, <4>1 DEF Target, PageSource
    <3>2. Target(w)' = Target(w)
      <4>1. CASE i # 0
        BY <1>0, <1>1, <2>1, <2>16, <4>1 DEF Target, PageSource
      <4>2. CASE i = 0 /\ Write(w)
        BY <1>1, <2>3, <2>4, <2>5, <4>2 DEF Target
      <4>3. CASE i = 0 /\ ~Write(w)
        BY <1>1, <2>5, <4>3 DEF Target
      <4> QED
        BY <4>1, <4>2, <4>3
    <3> QED
      BY <3>1, <3>2
  (* No page that matters to another is touched. *)
  <2>8. \A v \in Workers \ {w} : Busy(v) /\ worker[v].offer = o => Target(v) # Target(w)
    BY <1>0, <1>2 DEF Apart
  <2>9. RowsSound'
    BY <1>0, <1>1, <2>16 DEF RowsSound, RowSound
  <2>10. CallsSound'
    <3>1. CallSound(w)'
      <4>1. CASE i # 0
        BY <1>1, <2>1, <2>2, <4>1 DEF CallSound
      <4>2. CASE i = 0 /\ Write(w)
        BY <1>1, <2>3, <2>4, <4>2 DEF CallSound
      <4>3. CASE i = 0 /\ ~Write(w)
        BY <1>1, <4>3 DEF CallSound
      <4> QED
        BY <4>1, <4>2, <4>3
    <3>2. ASSUME NEW v \in Workers \ {w}, Busy(v) PROVE CallSound(v)'
      <4>1. CallSound(v) /\ worker'[v] = worker[v]
        BY <1>0, <1>1, <3>2 DEF CallsSound
      <4>2. CASE worker[v].offer # o
        BY <1>0, <1>4, <4>1, <4>2 DEF CallSound, Found
      <4>3. CASE worker[v].offer = o
        <5>1. worker[v].page # 0 => /\ worker[v].page \in DOMAIN pages[o]
                                    /\ PageSource(o, worker[v].page) = Target(v)
          BY <4>1, <4>3 DEF CallSound, Target, PageSource
        <5>2. worker[v].page # 0 => worker[v].page # i
          BY <2>6, <2>8, <3>2, <4>3, <5>1
        <5>3. worker[v].page # 0 => /\ worker[v].page \in DOMAIN pages'[o]
                                    /\ pages'[o][worker[v].page] = pages[o][worker[v].page]
          BY <2>2, <5>1, <5>2
        <5>4. worker[v].page = 0 => Target(v) = worker[v].source
          BY DEF Target
        <5>5. worker[v].page = 0 /\ Found(v) = {} => Found(v)' = {}
          <6> SUFFICES ASSUME worker[v].page = 0, Found(v) = {},
                              NEW j \in DOMAIN pages'[o], pages'[o][j].source = worker[v].source
                       PROVE  FALSE
            BY <4>1, <4>3 DEF Found
          <6>1. j \notin DOMAIN pages[o]
            BY <2>2, <4>3 DEF Found
          <6>2. i = 0 /\ j = new
            BY <2>2, <2>3, <6>1
          <6> QED
            BY <2>3, <2>5, <2>8, <3>2, <4>3, <5>4, <6>2
        <5> QED
          BY <4>1, <4>3, <5>3, <5>5 DEF CallSound
      <4> QED
        BY <4>2, <4>3
    <3> QED
      BY <1>2, <3>1, <3>2 DEF CallsSound
  <2>11. Leases'
    <3> SUFFICES ASSUME NEW v \in Workers, Busy(v)
                 PROVE  /\ Leased(v) => replaced \/ Target(v) = source
                        /\ ~Leased(v) => Away(v, sync[worker[v].offer].page)'
      BY <1>1, <1>2, <2>7 DEF Leases, Away
    <3>1. /\ Leased(v) => replaced \/ Target(v) = source
          /\ ~Leased(v) => Away(v, sync[worker[v].offer].page)
      BY <1>0 DEF Leases
    <3>2. \A u \in Offers : sync[u].page # 0 =>
            pages'[u][sync[u].page].source = pages[u][sync[u].page].source
      BY <1>0, <2>16 DEF RowsSound, RowSound, PageSource
    <3> QED
      BY <1>0, <1>1, <1>2, <2>7, <3>1, <3>2 DEF Away, PageSource
  <2>12. Apart'
    BY <1>0, <1>2, <2>7 DEF Apart
  <2>13. OnePage'
    <3> SUFFICES ASSUME NEW u \in Offers, NEW j \in DOMAIN pages'[u], NEW k \in DOMAIN pages'[u],
                        pages'[u][j].source = pages'[u][k].source
                 PROVE  j = k
      BY DEF OnePage
    <3>1. CASE u # o
      BY <1>0, <1>4, <3>1 DEF OnePage
    <3>2. CASE u = o /\ j \in DOMAIN pages[o] /\ k \in DOMAIN pages[o]
      <4>1. PageSource(u, j) = PageSource(u, k)
        BY <2>16, <3>2 DEF PageSource
      <4> QED
        BY <1>0, <3>2, <4>1 DEF OnePage, PageSource
    <3>3. CASE u = o /\ ~(j \in DOMAIN pages[o] /\ k \in DOMAIN pages[o])
      BY <2>1, <2>2, <2>3, <2>5, <3>3 DEF PageSource
    <3> QED
      BY <3>1, <3>2, <3>3
  <2>14. ClaimsCurrent'
    BY <1>0, <1>1, <1>2 DEF ClaimsCurrent, Stale
  <2>15. RowsCurrent'
    <3> SUFFICES ASSUME NEW u \in Offers, sync[u].status = "synced", ~Stale(u)
                 PROVE  pages'[u][sync[u].page].shows = version[u]
      BY <1>1 DEF RowsCurrent, Stale
    <3>1. /\ sync[u].next = Now /\ sync[u].page # 0 /\ sync[u].page \in DOMAIN pages[u]
          /\ pages[u][sync[u].page].shows = version[u]
      BY <1>0 DEF RowsSound, RowSound, RowsCurrent
    <3>2. CASE u # o
      BY <1>4, <3>1, <3>2
    <3>3. CASE u = o
      <4>1. PageSource(o, sync[o].page) # Target(w)
        BY <1>0, <1>2, <3>1, <3>3, FieldsAreTyped DEF Leases, Leased, Away
      <4>2. sync[o].page # i
        BY <2>6, <3>1, <3>3, <4>1
      <4> QED
        BY <2>2, <3>1, <3>3, <4>2
    <3> QED
      BY <3>2, <3>3
  <2> QED
    BY <2>9, <2>10, <2>11, <2>12, <2>13, <2>14, <2>15 DEF Places, Currency
<1> QED
  BY <1>0, <1>3, <1>4, CallEnds

(* A worker that stops, and the row it still holds. *)
LEMMA EndKeeps ==
    ASSUME Inv, NEW w \in Workers, Finalise(w) \/ Crash(w)
    PROVE  (Places /\ Currency)'
<1> SUFFICES ASSUME NEW o, o = worker[w].offer PROVE (Places /\ Currency)'
  OBVIOUS
<1>0. /\ TypeInv /\ RowsSound /\ CallsSound /\ Leases /\ Apart /\ OnePage
      /\ ClaimsCurrent /\ RowsCurrent /\ TypeOK
      /\ o \in Offers /\ sync[o] \in Row
      /\ \A v \in Workers : worker[v].offer \in Offers
  BY DEF Inv, Places, Currency, TypeInv, TypeOK, WorkerRow
<1>1. /\ worker'[w].pc = "idle" /\ worker[w].pc # "idle"
      /\ Finalise(w) => worker[w].pc = "answered"
      /\ \A v \in Workers \ {w} : worker'[v] = worker[v]
      /\ \A u \in Offers \ {o} : sync'[u] = sync[u]
      /\ IF Finalise(w) /\ Holds(w) THEN sync'[o] = Outcome(w, sync[o]) ELSE sync' = sync
      /\ UNCHANGED <<active, source, version, updates, pages, skipped, replaced>>
  BY <1>0, WorkEnds DEF account, offers, jobs, ghosts
<1>2. \A v \in Workers : Busy(v)' => v # w /\ Busy(v) /\ worker'[v] = worker[v]
  BY <1>1 DEF Busy
<1>3. CallsSound' /\ Apart' /\ OnePage'
  <2>1. CallsSound'
    BY <1>0, <1>1, <1>2 DEF CallsSound, CallSound, Found
  <2>2. \A v \in Workers : Busy(v)' => Target(v)' = Target(v)
    BY <1>1, <1>2 DEF Target
  <2>3. Apart'
    BY <1>0, <1>2, <2>2 DEF Apart
  <2> QED
    BY <1>0, <1>1, <2>1, <2>3 DEF OnePage
<1>4. CASE sync' = sync
  <2>1. RowsSound' /\ Leases'
    BY <1>0, <1>1, <1>2, <1>4 DEF RowsSound, RowSound, PageSource, Leases, Leased, Away, Target
  <2>2. Currency'
    BY <1>0, <1>1, <1>2, <1>4 DEF Currency, ClaimsCurrent, RowsCurrent, Stale, Holds
  <2> QED
    BY <1>3, <2>1, <2>2 DEF Places
<1>5. CASE Finalise(w) /\ Holds(w)
  <2> DEFINE new == sync'[o]
             written == active /\ worker[w].answer = "ok"
  <2>1. /\ new.status = "synced" <=> written
        /\ written => new.page = worker[w].page /\ new.next = Now
        /\ ~written => new.page = sync[o].page
        /\ new.status \in {"synced", "cancelled", "failed", "pending"}
        /\ new.status = "failed" => new.next = Later
        /\ active => new.next \in {Now, Later}
        /\ ~active => new.next = sync[o].next
    BY <1>0, <1>1, <1>5, OutcomeIsSound
  <2>2. /\ sync[o].next = w /\ sync[o].status = "processing" /\ Leased(w) /\ Busy(w)
        /\ CallSound(w) /\ (replaced \/ Target(w) = source) /\ RowSound(sync[o], o)
    BY <1>0, <1>1, <1>5 DEF Holds, Leased, Busy, CallsSound, Leases, RowsSound
  <2>3. written => /\ worker[w].page # 0 /\ worker[w].page \in DOMAIN pages[o]
                   /\ PageSource(o, worker[w].page) = Target(w)
                   /\ pages[o][worker[w].page].shows = worker[w].version
    BY <1>1, <1>5, <2>2 DEF CallSound, Target, PageSource
  <2>4. new.page # 0 => /\ new.page \in DOMAIN pages[o]
                        /\ replaced \/ PageSource(o, new.page) = source
    BY <2>1, <2>2, <2>3 DEF RowSound
  <2>5. RowsSound'
    <3>1. RowSound(sync[o], o)'
      BY <1>1, <2>1, <2>2, <2>3, <2>4, FieldsAreTyped DEF RowSound, PageSource
    <3> QED
      BY <1>0, <1>1, <3>1 DEF RowsSound, RowSound, PageSource
  <2>6. Leases'
    <3> SUFFICES ASSUME NEW v \in Workers \ {w}, Busy(v)
                 PROVE  /\ Leased(v)' => replaced \/ Target(v) = source
                        /\ ~Leased(v)' => Away(v, sync'[worker[v].offer].page)
      BY <1>1, <1>2 DEF Leases, Away, Target, PageSource
    <3>1. /\ Leased(v) => replaced \/ Target(v) = source
          /\ ~Leased(v) => Away(v, sync[worker[v].offer].page)
          /\ Leased(v)' <=> sync'[worker[v].offer].next = v
      BY <1>0, <1>1 DEF Leases, Leased
    <3>2. CASE worker[v].offer # o
      BY <1>0, <1>1, <3>1, <3>2 DEF Leased
    <3>3. CASE worker[v].offer = o
      <4>1. ~Leased(v) /\ sync'[o].next # v
        BY <2>1, <2>2, <3>3, FieldsAreTyped DEF Leased
      <4>2. Away(v, sync[o].page) /\ Target(v) # Target(w)
        BY <1>0, <2>2, <3>1, <3>3, <4>1 DEF Apart
      <4>3. Away(v, new.page)
        BY <2>1, <2>3, <3>3, <4>2 DEF Away
      <4> QED
        BY <3>1, <3>3, <4>1, <4>3
    <3> QED
      BY <3>2, <3>3
  <2>7. ClaimsCurrent'
    <3> SUFFICES ASSUME NEW v \in Workers \ {w}, Busy(v), worker'[v] = worker[v], Holds(v)',
                        ~Stale(worker[v].offer)
                 PROVE  worker[v].version = version[worker[v].offer]
      BY <1>1, <1>2 DEF ClaimsCurrent, Stale
    <3>1. worker[v].offer # o
      BY <2>1 DEF Holds
    <3>2. Holds(v)
      BY <1>0, <1>1, <3>1 DEF Holds
    <3> QED
      BY <1>0, <3>2 DEF ClaimsCurrent
  <2>8. RowsCurrent'
    <3> SUFFICES ASSUME NEW u \in Offers, sync'[u].status = "synced", ~Stale(u)
                 PROVE  pages[u][sync'[u].page].shows = version[u]
      BY <1>1 DEF RowsCurrent, Stale
    <3>1. CASE u = o
      BY <1>0, <1>5, <2>1, <2>2, <2>3, <3>1 DEF ClaimsCurrent
    <3>2. CASE u # o
      BY <1>0, <1>1, <3>2 DEF RowsCurrent
    <3> QED
      BY <3>1, <3>2
  <2> QED
    BY <1>3, <2>5, <2>6, <2>7, <2>8 DEF Places, Currency
<1> QED
  BY <1>1, <1>4, <1>5

----------------------------------------------------------------------------
(* Theorems. *)

LEMMA InitHolds == Init => Inv
<1> SUFFICES ASSUME Init PROVE Inv
  OBVIOUS
<1>1. /\ active = TRUE /\ source = 1 /\ 1 \in 0..MaxSources /\ source # 0
      /\ updates = {} /\ baseline = TRUE /\ fitting = Offers /\ skipped = {} /\ replaced = FALSE
      /\ edits = 0 /\ faults = 0 /\ 0 \in 0..MaxEdits /\ 0 \in 0..MaxFaults /\ 0 <= 0
  BY NotionSyncAssumption DEF Init
<1>2. /\ version \in [Offers -> Versions] /\ \A o \in Offers : version[o] = 0
      /\ pages \in [Offers -> Seq(Page)] /\ \A o \in Offers : DOMAIN pages[o] = {}
  BY <1>1 DEF Init, Versions
<1>3. sync \in [Offers -> Row] /\ \A o \in Offers : sync[o] = AbsentRow
  BY AbsentIsTyped DEF Init
<1>4. worker \in [Workers -> WorkerRow] /\ \A w \in Workers : ~Busy(w)
  BY IdleIsTyped DEF Init, Busy
<1>5. TypeInv
  BY <1>1, <1>2, <1>3, <1>4 DEF TypeInv, TypeOK, VersionsCounted
<1>6. Places
  BY <1>1, <1>2, <1>3, <1>4
  DEF Places, RowsSound, RowSound, AbsentRow, CallsSound, Leases, Apart, OnePage
<1>7. Currency
  BY <1>3, <1>4 DEF Currency, ClaimsCurrent, RowsCurrent, AbsentRow
<1> QED
  BY <1>5, <1>6, <1>7 DEF Inv

LEMMA InvStep ==
    ASSUME Inv, [Next]_vars
    PROVE  Inv'
<1>1. TypeInv'
  BY TypeStep DEF Inv, Places
<1>2. (Places /\ Currency)'
  <2>1. CASE Quiet
    BY <2>1, QuietKeeps
  <2>2. CASE Disconnect
    BY <2>2, DisconnectKeeps
  <2>3. CASE \E s \in Sources : Attach(s)
    BY <2>3, AttachKeeps
  <2>4. CASE \E w \in Workers, o \in Offers, readable \in BOOLEAN : Claim(w, o, readable)
    BY <2>4, ClaimKeeps
  <2>5. CASE \E w \in Workers : Lookup(w)
    BY <2>5, LookupKeeps
  <2>6. CASE \E w \in Workers, takes \in BOOLEAN : Write(w) \/ CallFails(w, takes)
    BY <2>6, WriteKeeps
  <2>7. CASE \E w \in Workers : Finalise(w) \/ Crash(w)
    BY <2>7, EndKeeps
  <2>8. CASE UNCHANGED vars
    <3>1. \A o \in Offers : QuietRow(o)
      BY <2>8, SameRowIsQuiet
      DEF vars, account, offers, jobs, ghosts, Stale, Inv, Places
    <3> QED
      BY <2>1, <2>8, <3>1 DEF vars, account, offers, jobs, ghosts, Quiet
  <2> QED
    BY <2>1, <2>2, <2>3, <2>4, <2>5, <2>6, <2>7, <2>8, QuietStep
    DEF Next, Environment, Matching, WorkerStep, Trouble, Inv, Places
<1> QED
  BY <1>1, <1>2 DEF Inv

(* Every reachable state satisfies the invariant. *)
THEOREM Invariant == Spec => []Inv
BY InitHolds, InvStep, PTL DEF Spec

(* Rows, workers and pages keep their types: in particular an attempt is never
   counted beyond the last. *)
THEOREM TypeCorrect == Spec => []TypeOK
<1>1. Inv => TypeOK
  BY DEF Inv, TypeInv
<1> QED
  BY Invariant, <1>1, PTL

(* However answers, workers, claims and connections are lost, a database never
   has two pages of one offer. *)
THEOREM PagesAreUnique == Spec => []OnePage
<1>1. Inv => OnePage
  BY DEF Inv, Places
<1> QED
  BY Invariant, <1>1, PTL

(* A row recorded as synced names a page that shows what was collected last. *)
THEOREM PagesAreCurrent == Spec => []SyncedIsCurrent
<1>1. Inv => SyncedIsCurrent
  BY DEF Inv, Places, Currency, RowsSound, RowSound, RowsCurrent, SyncedIsCurrent, Stale, PageSource
<1> QED
  BY Invariant, <1>1, PTL

LEMMA DisabledStep ==
    ASSUME Inv, DisabledHasNoPages, [Next]_vars
    PROVE  DisabledHasNoPages'
<1> DEFINE Quiescent == {"absent", "synced", "cancelled"}
<1>0. TypeInv /\ TypeOK /\ CallsSound /\ RowsSound /\ \A o \in Offers : sync[o] \in Row
  BY DEF Inv, Places, TypeInv, TypeOK
<1>1. CASE Disable
  <2> SUFFICES ASSUME NEW o \in Offers PROVE sync'[o].status \in Quiescent
    BY DEF DisabledHasNoPages
  <2>1. CASE sync[o].status \in {"pending", "processing", "failed"}
    <3>1. sync'[o] = [sync[o] EXCEPT !.status = "cancelled"]
      BY <1>1, <2>1 DEF Disable
    <3> QED
      BY <1>0, <3>1 DEF Row
  <2>2. CASE sync[o].status \notin {"pending", "processing", "failed"}
    <3>1. sync'[o] = sync[o]
      BY <1>1, <2>2 DEF Disable
    <3> QED
      BY <1>0, <2>2, <3>1 DEF Row
  <2> QED
    BY <2>1, <2>2
<1>2. CASE ~active /\ ~Disable /\ ~Enable
  <2> SUFFICES ASSUME NEW o \in Offers PROVE sync'[o].status \in Quiescent
    BY DEF DisabledHasNoPages
  <2>1. sync[o].status \in Quiescent /\ \A u \in Offers : sync[u].status \in Quiescent
    BY <1>2 DEF DisabledHasNoPages
  <2>2. CASE UNCHANGED sync
    BY <2>1, <2>2
  <2>3. ASSUME NEW u \in Offers, TimePasses(u) PROVE sync'[o].status \in Quiescent
    <3>1. [sync[u] EXCEPT !.next = Now].status = sync[u].status
      BY <1>0 DEF Row
    <3>2. sync' = [sync EXCEPT ![u] = [sync[u] EXCEPT !.next = Now]]
      BY <2>3 DEF TimePasses, LeaseExpires, RetryDue
    <3> QED
      BY <1>0, <2>1, <3>1, <3>2 DEF TypeOK
  <2>4. ASSUME NEW w \in Workers, Finalise(w) \/ Crash(w) PROVE sync'[o].status \in Quiescent
    <3>1. worker[w].offer \in Offers /\ ~Holds(w)
      BY <1>0, <2>1 DEF Holds, TypeOK, WorkerRow
    <3> QED
      BY <2>1, <2>4, <3>1 DEF Finalise, Crash
  <2>5. ASSUME NEW u \in Offers, MatchOffer(u) PROVE UNCHANGED sync
    BY <1>2, <2>5 DEF MatchOffer
  <2>6. CASE MatchUser
    BY <1>2, <2>2, <2>6 DEF MatchUser
  <2>7. ASSUME NEW w \in Workers, NEW takes \in BOOLEAN,
               Lookup(w) \/ Write(w) \/ CallFails(w, takes)
        PROVE  UNCHANGED sync
    BY <2>7 DEF Lookup, Write, CallFails
  <2>8. ASSUME NEW u \in Offers, NEW open \in BOOLEAN, Collect(u, open) PROVE UNCHANGED sync
    BY <2>8 DEF Collect
  <2>9. \A u \in Offers : ~AdminRetry(u) /\ ~GiveUp(u)
    BY <1>2, <2>1 DEF AdminRetry, GiveUp
  <2>10. /\ \A w \in Workers, u \in Offers, readable \in BOOLEAN : ~Claim(w, u, readable)
         /\ ~Disconnect /\ ~Reconnect /\ \A s \in Sources : ~Attach(s)
         /\ \A fits \in SUBSET Offers : ~Activate(fits)
    BY <1>2 DEF Claim, Disconnect, Reconnect, Attach, Activate
  <2>11. CASE UNCHANGED vars
    BY <2>2, <2>11 DEF vars
  <2>12. ASSUME NEW u \in Offers, Purge(u) PROVE sync'[o].status \in Quiescent
    BY <1>0, <2>1, <2>12 DEF Purge, AbsentRow, TypeOK
  <2> QED
    BY <1>2, <2>2, <2>3, <2>4, <2>5, <2>6, <2>7, <2>8, <2>9, <2>10, <2>11, <2>12
    DEF Next, Environment, Matching, WorkerStep, Trouble
<1>3. CASE active /\ ~Disable
  <2>1. active'
    BY <1>3 DEF Next, Environment, Matching, WorkerStep, Trouble, vars, account, Collect, AdminRetry,
      Purge, Activate, Attach, Enable, Disconnect, Reconnect, MatchUser, MatchOffer, TimePasses,
      LeaseExpires, RetryDue, GiveUp, Claim, Lookup, Write, CallFails, Finalise, Crash
  <2> QED
    BY <2>1 DEF DisabledHasNoPages
<1>4. CASE Enable
  BY <1>4 DEF Enable, DisabledHasNoPages
<1> QED
  BY <1>1, <1>2, <1>3, <1>4

(* A disabled account has no page waiting, under way or to be retried. *)
THEOREM DisabledIsQuiescent == Spec => []DisabledHasNoPages
<1>1. Init => DisabledHasNoPages
  BY DEF Init, DisabledHasNoPages
<1>2. Inv /\ DisabledHasNoPages /\ [Next]_vars => DisabledHasNoPages'
  BY DisabledStep
<1> QED
  BY Invariant, <1>1, <1>2, PTL DEF Spec

----------------------------------------------------------------------------
(* Refinement. *)

(* A step that touches no worker withdraws rows at most. *)
LEMMA WithdrawsAtMost ==
    ASSUME UNCHANGED worker,
           \A o \in Offers :
             /\ Leaseholder'[o] \in {Leaseholder[o], Now}
             /\ o \in Synced' => o \in Synced /\ Leaseholder'[o] = Leaseholder[o]
             /\ o \in Synced /\ o \notin Synced' => Leaseholder'[o] = Now
    PROVE  Queue!Next
<1> DEFINE S == {o \in Offers : Leaseholder'[o] # Leaseholder[o] \/ (o \in Synced /\ o \notin Synced')}
<1>1. InHand' = InHand /\ Accepted' = Accepted
  BY DEF InHand, Accepted
<1>2. Leaseholder' = [o \in Offers |-> IF o \in S THEN Now ELSE Leaseholder[o]]
  <2>1. Leaseholder' = [o \in Offers |-> Leaseholder'[o]]
    BY DEF Leaseholder
  <2>2. ASSUME NEW o \in Offers
        PROVE  Leaseholder'[o] = IF o \in S THEN Now ELSE Leaseholder[o]
    <3>1. o \in S => Leaseholder'[o] = Now
      OBVIOUS
    <3>2. o \notin S => Leaseholder'[o] = Leaseholder[o]
      OBVIOUS
    <3> QED
      BY <3>1, <3>2
  <2> QED
    BY <2>1, <2>2
<1>3. Synced' = Synced \ S
  <2>1. Synced \subseteq Offers /\ Synced' \subseteq Offers
    BY DEF Synced
  <2>2. ASSUME NEW o \in Offers PROVE o \in Synced' <=> o \in Synced /\ o \notin S
    OBVIOUS
  <2> QED
    BY <2>1, <2>2
<1>4. Queue!Withdraw(S)
  BY <1>1, <1>2, <1>3 DEF Queue!Withdraw
<1> QED
  BY <1>4 DEF Queue!Next

LEMMA QuietRefines ==
    ASSUME Inv, Quiet
    PROVE  Queue!Next
<1> SUFFICES ASSUME NEW o \in Offers
             PROVE  /\ Leaseholder'[o] \in {Leaseholder[o], Now}
                    /\ o \in Synced' => o \in Synced /\ Leaseholder'[o] = Leaseholder[o]
                    /\ o \in Synced /\ o \notin Synced' => Leaseholder'[o] = Now
  BY WithdrawsAtMost DEF Quiet
<1>1. QuietRow(o)
  BY DEF Quiet
<1> QED
  BY <1>1, FieldsAreTyped DEF QuietRow, Leaseholder, Synced

LEMMA ClaimRefines ==
    ASSUME Inv, NEW w \in Workers, NEW o \in Offers, NEW readable \in BOOLEAN,
           Claim(w, o, readable)
    PROVE  Queue!Next
<1>1. /\ worker[w].pc = "idle" /\ sync[o].next = Now
      /\ sync[o].status \in {"pending", "processing"}
      /\ \A u \in Offers \ {o} : sync'[u] = sync[u]
      /\ sync'[o].status = "processing" /\ sync'[o].next = w
      /\ \A v \in Workers \ {w} : worker'[v] = worker[v]
      /\ worker'[w].offer = o /\ worker'[w].pc # "idle"
      /\ worker'[w].pc = "answered" => worker'[w].answer # "ok"
  BY ClaimTakes DEF Inv
<1>2. Leaseholder[o] = Now /\ o \notin Synced /\ InHand[w] = {}
  BY <1>1, FieldsAreTyped DEF Leaseholder, Synced, InHand
<1>3. Leaseholder' = [u \in Offers |-> IF u \in {o} THEN w ELSE Leaseholder[u]]
  BY <1>1 DEF Leaseholder
<1>4. InHand' = [InHand EXCEPT ![w] = {o}]
  BY <1>1 DEF InHand
<1>5. Accepted' = Accepted /\ Synced' = Synced
  BY <1>1 DEF Accepted, Synced
<1>6. Queue!Claim(w, {o})
  BY <1>2, <1>3, <1>4, <1>5 DEF Queue!Claim
<1> QED
  BY <1>6 DEF Queue!Next

LEMMA CallRefines ==
    ASSUME Inv, NEW w \in Workers, NEW takes \in BOOLEAN,
           Lookup(w) \/ Write(w) \/ CallFails(w, takes)
    PROVE  [Queue!Next]_(Queue!vars)
<1>0. TypeInv /\ CallsSound
  BY DEF Inv, Places
<1>1. /\ worker[w].pc \in {"lookup", "write"} /\ worker'[w].pc # "idle"
      /\ worker'[w].offer = worker[w].offer
      /\ \A v \in Workers \ {w} : worker'[v] = worker[v]
      /\ UNCHANGED sync
  BY <1>0, LookupFinds, CallEnds
<1>2. UNCHANGED <<Leaseholder, InHand, Synced>>
  BY <1>1 DEF Leaseholder, InHand, Synced
<1>3. CASE Write(w)
  <2>1. worker'[w].pc = "answered" /\ worker'[w].answer = "ok"
    BY <1>0, <1>3, CallEnds
  <2>2. Accepted' = Accepted \cup {w} /\ w \notin Accepted /\ InHand[w] # {}
    BY <1>1, <2>1 DEF Accepted, InHand
  <2>3. Queue!Answer(w)
    BY <1>2, <2>2 DEF Queue!Answer
  <2> QED
    BY <2>3 DEF Queue!Next
<1>4. CASE ~Write(w)
  <2>1. worker'[w].pc = "answered" => worker'[w].answer # "ok"
    BY <1>0, <1>4, LookupFinds, CallEnds
  <2>2. Accepted' = Accepted
    BY <1>1, <2>1 DEF Accepted
  <2> QED
    BY <1>2, <2>2 DEF Queue!vars
<1> QED
  BY <1>3, <1>4

LEMMA EndRefines ==
    ASSUME Inv, NEW w \in Workers, Finalise(w) \/ Crash(w)
    PROVE  Queue!Next
<1> SUFFICES ASSUME NEW o, o = worker[w].offer PROVE Queue!Next
  OBVIOUS
<1>0. TypeInv /\ TypeOK /\ o \in Offers /\ sync[o] \in Row
  BY DEF Inv, TypeInv, TypeOK, WorkerRow
<1>1. /\ worker'[w].pc = "idle" /\ worker[w].pc # "idle"
      /\ Finalise(w) => worker[w].pc = "answered"
      /\ \A v \in Workers \ {w} : worker'[v] = worker[v]
      /\ \A u \in Offers \ {o} : sync'[u] = sync[u]
      /\ IF Finalise(w) /\ Holds(w) THEN sync'[o] = Outcome(w, sync[o]) ELSE sync' = sync
  BY <1>0, WorkEnds
<1>2. InHand[w] = {o} /\ InHand' = [InHand EXCEPT ![w] = {}] /\ Accepted' = Accepted \ {w}
  BY <1>1 DEF InHand, Accepted
<1>3. CASE sync' = sync
  <2>1. Leaseholder' = Leaseholder /\ Synced' = Synced
    BY <1>3 DEF Leaseholder, Synced
  <2>2. Leaseholder = [u \in Offers |-> IF u \in {} THEN Now ELSE Leaseholder[u]]
    BY DEF Leaseholder
  <2>3. {} \in SUBSET InHand[w] /\ {} \in SUBSET {} /\ Synced \cup {} = Synced
    OBVIOUS
  <2>4. Queue!Finish(w, {}, {})
    BY <1>2, <2>1, <2>2, <2>3 DEF Queue!Finish
  <2> QED
    BY <2>3, <2>4 DEF Queue!Next
<1>4. CASE Finalise(w) /\ Holds(w)
  <2> DEFINE written == active /\ worker[w].answer = "ok"
             D == IF written THEN {o} ELSE {}
  <2>1. /\ sync'[o].status = "synced" <=> written
        /\ sync'[o].status \in {"synced", "cancelled", "failed", "pending"}
    BY <1>0, <1>1, <1>4, OutcomeIsSound
  <2>2. sync[o].status = "processing" /\ sync[o].next = w
    BY <1>4 DEF Holds
  <2>3. Leaseholder[o] = w /\ o \notin Synced
    BY <1>0, <2>2 DEF Leaseholder, Synced
  <2>4. Leaseholder' = [u \in Offers |-> IF u \in {o} THEN Now ELSE Leaseholder[u]]
    BY <1>1, <2>1 DEF Leaseholder
  <2>5. Synced' = Synced \cup D
    <3>1. CASE written
      BY <1>0, <1>1, <2>1, <3>1 DEF Synced
    <3>2. CASE ~written
      BY <1>0, <1>1, <2>1, <2>3, <3>2 DEF Synced
    <3> QED
      BY <3>1, <3>2
  <2>6. D # {} => w \in Accepted
    BY <1>1, <1>4 DEF Accepted
  <2>7. {o} \in SUBSET InHand[w] /\ D \in SUBSET {o} /\ D \subseteq {o} \cap Queue!Held(w)
    BY <1>2, <2>3 DEF Queue!Held
  <2> HIDE DEF D
  <2>8. Queue!Finish(w, {o}, D)
    BY <1>2, <2>4, <2>5, <2>6, <2>7 DEF Queue!Finish
  <2> QED
    BY <2>7, <2>8 DEF Queue!Next
<1> QED
  BY <1>1, <1>3, <1>4

(* A page is recorded as synced only by the worker that holds its lease, after a
   call that was accepted. *)
THEOREM ImplementsOutbox == Spec => OutboxSpec
<1>1. Init => Queue!Init
  BY DEF Init, Queue!Init, Leaseholder, InHand, Accepted, Synced, AbsentRow, IdleWorker
<1>2. Inv /\ [Next]_vars => [Queue!Next]_(Queue!vars)
  <2> SUFFICES ASSUME Inv, [Next]_vars PROVE [Queue!Next]_(Queue!vars)
    OBVIOUS
  <2>1. CASE Quiet
    BY <2>1, QuietRefines
  <2>2. CASE Disconnect
    <3>1. /\ UNCHANGED worker
          /\ \A o \in Offers : Leaseholder'[o] = Now /\ o \notin Synced'
      BY <2>2 DEF Disconnect, AbsentRow, Leaseholder, Synced
    <3> QED
      BY <3>1, WithdrawsAtMost
  <2>3. CASE UNCHANGED <<sync, worker>>
    BY <2>3 DEF Queue!vars, Leaseholder, InHand, Accepted, Synced
  <2>4. ASSUME NEW s \in Sources, Attach(s) PROVE UNCHANGED <<sync, worker>>
    BY <2>4 DEF Attach
  <2>5. ASSUME UNCHANGED vars PROVE UNCHANGED <<sync, worker>>
    BY <2>5 DEF vars
  <2>6. CASE \E w \in Workers, o \in Offers, readable \in BOOLEAN : Claim(w, o, readable)
    BY <2>6, ClaimRefines
  <2>7. CASE \E w \in Workers, takes \in BOOLEAN : Lookup(w) \/ Write(w) \/ CallFails(w, takes)
    BY <2>7, CallRefines
  <2>8. CASE \E w \in Workers : Finalise(w) \/ Crash(w)
    BY <2>8, EndRefines
  <2> QED
    BY <2>1, <2>2, <2>3, <2>4, <2>5, <2>6, <2>7, <2>8, QuietStep
    DEF Next, Environment, Matching, WorkerStep, Trouble, Inv, Places
<1> QED
  BY Invariant, <1>1, <1>2, PTL DEF Spec, OutboxSpec, Queue!Spec
=============================================================================
