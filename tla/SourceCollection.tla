-------------------------- MODULE SourceCollection --------------------------
(****************************************************************************)
(* Collection of offers from the trackers (scraper.scrape_all) under a      *)
(* lease per tracker (sources.py).  A collector reserves a tracker, fetches *)
(* it with no transaction open, and applies the snapshot in one transaction *)
(* under the lock "scrape-lock", unless another collector has reserved the  *)
(* tracker since.  An offer is in several trackers: each keeps a source     *)
(* record of its own, and the offer is open while one of them is.           *)
(*                                                                          *)
(* A lease is identified by its tracker and generation, which stand for the *)
(* random token.  The season is fixed.  An offer and its source records     *)
(* carry one version that stands for all they publish.  The matching queue  *)
(* (module DurableJobs) is reduced to one job per offer.                    *)
(****************************************************************************)
EXTENDS Integers, Sequences

CONSTANTS
    Trackers,
    Offers,
    Versions,      \* what a tracker may publish about an offer
    Collectors,    \* processes that may run scrape_all
    NoTracker,
    NoRevision,    \* what the matching job has seen before it first runs
    MaxRuns,       \* bound on the runs of scrape_all
    MaxFaults      \* bound on errors and crashes

ASSUME SourceCollectionAssumption ==
    /\ NoTracker \notin Trackers /\ Versions # {}
    /\ MaxRuns \in Nat /\ MaxFaults \in Nat

VARIABLES
    snapshot,   \* source_snapshots, the platform rows
    health,     \* last_error of the rows "source/..." of worker_state
    source,     \* offer_sources
    offer,      \* offers
    match,      \* durable_jobs "match-offer/..."
    collector,
    fetched,    \* per tracker, how often it was fetched
    applied,    \* per tracker, the number of the fetch applied last
    history,    \* per tracker, the offers in the last two snapshots applied
    runs,
    faults

catalogue == <<source, offer, match>>
ghosts == <<applied, history>>
bounds == <<runs, faults>>
vars == <<snapshot, health, catalogue, collector, fetched, ghosts, bounds>>

----------------------------------------------------------------------------
(* Types. *)

Generations == Nat

Snapshots == UNION {[published -> Versions] : published \in SUBSET Offers}

Lease == [generation : Generations, leased : BOOLEAN]

\* An open source has been missing at most once.
Source == {s \in [exists : BOOLEAN, open : BOOLEAN, missing : 0..2, about : Versions] :
             s.open => s.exists /\ s.missing < 2}

Offer == [exists : BOOLEAN, open : BOOLEAN, about : Versions]

\* The variable "claim" of scrape_all: not bound yet, None, or a reservation.
Unbound == [tracker |-> NoTracker, generation |-> 0]
NoClaim == [tracker |-> NoTracker, generation |-> 1]
Claims == [tracker : Trackers, generation : Generations] \cup {Unbound, NoClaim}

Collector == [pc    : {"idle", "loop", "reserved", "fetched", "failing"},
              todo  : SUBSET Trackers,
              at    : Trackers \cup {NoTracker},
              claim : Claims,
              raw   : Snapshots,
              number : Nat]       \* of the fetch

\* _offer_revision: all that matching and presentation depend on.
Revision(o) ==
    [open   |-> offer[o].open,
     about  |-> offer[o].about,
     scope  |-> [t \in {u \in Trackers : source[o][u].exists} |->
                   <<source[o][t].open, source[o][t].about>>]]

TypeOK ==
    /\ snapshot \in [Trackers -> Lease]
    /\ health \in [Trackers -> {"unknown", "ok", "failed"}]
    /\ source \in [Offers -> [Trackers -> Source]]
    /\ offer \in [Offers -> Offer]
    /\ \A o \in Offers : match[o].status \in {"absent", "pending", "done"}
    /\ collector \in [Collectors -> Collector]
    /\ fetched \in [Trackers -> Nat] /\ applied \in [Trackers -> Nat]
    /\ history \in [Trackers -> Seq(SUBSET Offers)] /\ \A t \in Trackers : Len(history[t]) \in 0..2
    /\ runs \in 0..MaxRuns /\ faults \in 0..MaxFaults

AnyVersion == CHOOSE v \in Versions : TRUE
NoSource == [exists |-> FALSE, open |-> FALSE, missing |-> 0, about |-> AnyVersion]
NoOffer == [exists |-> FALSE, open |-> FALSE, about |-> AnyVersion]
NothingFetched == [o \in {} |-> AnyVersion]
IdleCollector == [pc |-> "idle", todo |-> {}, at |-> NoTracker, claim |-> Unbound,
                  raw |-> NothingFetched, number |-> 0]

Init ==
    /\ snapshot = [t \in Trackers |-> [generation |-> 0, leased |-> FALSE]]
    /\ health = [t \in Trackers |-> "unknown"]
    /\ source = [o \in Offers |-> [t \in Trackers |-> NoSource]]
    /\ offer = [o \in Offers |-> NoOffer]
    /\ match = [o \in Offers |-> [status |-> "absent", seen |-> NoRevision]]
    /\ collector = [c \in Collectors |-> IdleCollector]
    /\ fetched = [t \in Trackers |-> 0] /\ applied = [t \in Trackers |-> 0]
    /\ history = [t \in Trackers |-> <<>>]
    /\ runs = 0 /\ faults = 0

----------------------------------------------------------------------------
(* A collector's loop. *)

MayFail == faults < MaxFaults /\ faults' = faults + 1

\* scrape_all of every tracker, or of the one of TRACKR_SOURCE_INDEX.
Start(c) ==
    /\ runs < MaxRuns /\ runs' = runs + 1
    /\ collector[c].pc = "idle"
    /\ \E todo \in {Trackers} \cup {{t} : t \in Trackers} :
         collector' = [collector EXCEPT ![c] = [IdleCollector EXCEPT !.pc = "loop", !.todo = todo]]
    /\ UNCHANGED <<snapshot, health, catalogue, fetched, ghosts, faults>>

\* The end of the loop, or its deadline.
Finish(c) ==
    /\ collector[c].pc = "loop"
    /\ collector' = [collector EXCEPT ![c] = IdleCollector]
    /\ UNCHANGED <<snapshot, health, catalogue, fetched, ghosts, bounds>>

\* The next tracker; what remains of the others is the variable "claim".
GoOn(c, t, pc, claim) ==
    collector' = [collector EXCEPT ![c] = [IdleCollector EXCEPT
        !.pc = pc, !.todo = collector[c].todo \ {t}, !.at = t, !.claim = claim]]

Continue(c) == GoOn(c, collector[c].at, "loop", collector[c].claim)

\* sources.reserve: a tracker that is leased is left out.
Reserve(c, t) ==
    /\ collector[c].pc = "loop" /\ t \in collector[c].todo
    /\ IF snapshot[t].leased
         THEN /\ GoOn(c, t, "loop", NoClaim)
              /\ UNCHANGED snapshot
         ELSE LET generation == snapshot[t].generation + 1 IN
              /\ snapshot' = [snapshot EXCEPT ![t] = [generation |-> generation, leased |-> TRUE]]
              /\ GoOn(c, t, "reserved", [tracker |-> t, generation |-> generation])
    /\ UNCHANGED <<health, catalogue, fetched, ghosts, bounds>>

\* An exception in reserve finds the claim of the tracker before.
ReserveRaises(c, t) ==
    /\ MayFail
    /\ collector[c].pc = "loop" /\ t \in collector[c].todo
    /\ GoOn(c, t, "failing", collector[c].claim)
    /\ UNCHANGED <<snapshot, health, catalogue, fetched, ghosts, runs>>

\* A complete snapshot; one without offers counts if it is declared to be empty.
Fetch(c, raw) ==
    LET t == collector[c].at IN
    /\ collector[c].pc = "reserved"
    /\ fetched' = [fetched EXCEPT ![t] = @ + 1]
    /\ collector' = [collector EXCEPT ![c] =
         [collector[c] EXCEPT !.pc = "fetched", !.raw = raw, !.number = fetched[t] + 1]]
    /\ UNCHANGED <<snapshot, health, catalogue, ghosts, bounds>>

\* The fetch fails or is incomplete, or the snapshot is ambiguous or malformed,
\* or the transaction that applies it fails.
Raise(c) ==
    /\ MayFail
    /\ collector[c].pc \in {"reserved", "fetched"}
    /\ collector' = [collector EXCEPT ![c] =
         [collector[c] EXCEPT !.pc = "failing", !.number = 0, !.raw = NothingFetched]]
    /\ UNCHANGED <<snapshot, health, catalogue, fetched, ghosts, runs>>

\* Faulty variant: every collector takes itself for the owner.
OwnedByAny(c) == TRUE

\* sources.owned.
Owned(c) ==
    collector[c].claim = [tracker    |-> collector[c].at,
                          generation |-> snapshot[collector[c].at].generation]

----------------------------------------------------------------------------
(* Applying a snapshot. *)

\* Faulty variant: a source is closed when it is missing once.
MissedEager(s) == [s EXCEPT !.missing = @ + 1, !.open = FALSE]

\* A source that the snapshot lacks is closed the second time.
Missed(s) == [s EXCEPT !.missing = @ + 1, !.open = s.missing + 1 < 2]

\* The source record of tracker t after a snapshot.
Collected(s, raw, o) ==
    IF o \in DOMAIN raw THEN [exists |-> TRUE, open |-> TRUE, missing |-> 0, about |-> raw[o]]
    ELSE IF s.open THEN Missed(s) ELSE s

\* Faulty variant: an offer closes with the source that was missing.
OpenAfterOwn(o, t, s) == s.open

\* An offer is open while one of its sources is.
OpenAfter(o, t, s) == s.open \/ \E u \in Trackers \ {t} : source[o][u].open

\* Faulty variant: the source records are left out of the revision.
ChangedItself(o) == offer'[o] # offer[o]

\* The revision differs from the one before.
Changed(o) == Revision(o)' # Revision(o)

\* The snapshot is applied, and every offer that changed is queued for matching.
Apply(c) ==
    LET t == collector[c].at
        raw == collector[c].raw
        new(o) == Collected(source[o][t], raw, o)
    IN
    /\ collector[c].pc = "fetched" /\ Owned(c)
    /\ source' = [o \in Offers |-> [source[o] EXCEPT ![t] = new(o)]]
    /\ offer' = [o \in Offers |->
         IF o \in DOMAIN raw THEN [exists |-> TRUE, open |-> TRUE, about |-> raw[o]]
         ELSE IF source[o][t].open THEN [offer[o] EXCEPT !.open = OpenAfter(o, t, new(o))]
         ELSE offer[o]]
    /\ match' = [o \in Offers |->
         IF Changed(o) THEN [match[o] EXCEPT !.status = "pending"] ELSE match[o]]
    /\ snapshot' = [snapshot EXCEPT ![t].leased = FALSE]
    /\ health' = [health EXCEPT ![t] = "ok"]
    /\ applied' = [applied EXCEPT ![t] = collector[c].number]
    /\ history' = [history EXCEPT ![t] =
         IF history[t] = <<>> THEN <<DOMAIN raw>> ELSE <<DOMAIN raw, Head(history[t])>>]
    /\ Continue(c)
    /\ UNCHANGED <<fetched, bounds>>

\* Another collector has reserved the tracker since.
Discard(c) ==
    /\ collector[c].pc = "fetched" /\ ~Owned(c)
    /\ Continue(c)
    /\ UNCHANGED <<snapshot, health, catalogue, fetched, ghosts, bounds>>

\* The except clause: the failure is recorded and the lease released, unless the
\* claim was lost or is another tracker's.  Without a claim there is no lease; a
\* claim that was never bound ends the process with an error of its own.
RecordFailure(c) ==
    LET t == collector[c].at IN
    /\ collector[c].pc = "failing"
    /\ \/ /\ Owned(c)
          /\ snapshot' = [snapshot EXCEPT ![t].leased = FALSE]
          /\ health' = [health EXCEPT ![t] = "failed"]
          /\ Continue(c)
       \/ /\ collector[c].claim = NoClaim
          /\ health' = [health EXCEPT ![t] = "failed"]
          /\ Continue(c)
          /\ UNCHANGED snapshot
       \/ /\ ~Owned(c) /\ collector[c].claim \notin {NoClaim, Unbound}
          /\ Continue(c)
          /\ UNCHANGED <<snapshot, health>>
       \/ /\ collector[c].claim = Unbound
          /\ collector' = [collector EXCEPT ![c] = IdleCollector]
          /\ UNCHANGED <<snapshot, health>>
    /\ UNCHANGED <<catalogue, fetched, ghosts, bounds>>

\* The process is killed, or the except clause fails.
Crash(c) ==
    /\ MayFail
    /\ collector[c].pc # "idle"
    /\ collector' = [collector EXCEPT ![c] = IdleCollector]
    /\ UNCHANGED <<snapshot, health, catalogue, fetched, ghosts, runs>>

\* Five minutes pass, whether the collector still runs or not.
LeaseLapses(t) ==
    /\ snapshot[t].leased
    /\ snapshot' = [snapshot EXCEPT ![t].leased = FALSE]
    /\ UNCHANGED <<health, catalogue, collector, fetched, ghosts, bounds>>

\* The matching job of an offer runs, and finds it as it is now.
MatchOffer(o) ==
    /\ match[o].status = "pending"
    /\ match' = [match EXCEPT ![o] = [status |-> "done", seen |-> Revision(o)]]
    /\ UNCHANGED <<snapshot, health, source, offer, collector, fetched, ghosts, bounds>>

----------------------------------------------------------------------------

CollectorStep(c) ==
    \/ Start(c) \/ Finish(c)
    \/ \E t \in Trackers : Reserve(c, t) \/ ReserveRaises(c, t)
    \/ (\E raw \in Snapshots : Fetch(c, raw)) \/ Raise(c)
    \/ Apply(c) \/ Discard(c) \/ RecordFailure(c) \/ Crash(c)

Next ==
    \/ \E c \in Collectors : CollectorStep(c)
    \/ \E t \in Trackers : LeaseLapses(t)
    \/ \E o \in Offers : MatchOffer(o)

Spec == Init /\ [][Next]_vars

----------------------------------------------------------------------------
(* Properties. *)

\* A source record is open exactly while one of the last two complete snapshots
\* of its tracker has the offer, whatever failed, was discarded or overlapped.
ClosedAfterTwoMisses ==
    \A o \in Offers, t \in Trackers :
      source[o][t].open <=> \E i \in 1..Len(history[t]) : o \in history[t][i]

\* "The last source must disappear": an offer is open exactly while one of its
\* sources is, also when several trackers collect it at the same time.
OpenWhileListed ==
    \A o \in Offers : offer[o].open <=> \E t \in Trackers : source[o][t].open

\* An offer that waits for no matching is as the last matching saw it.
MatchedAsPublished ==
    \A o \in Offers : offer[o].exists /\ match[o].status # "pending" =>
                        match[o].seen = Revision(o)

\* A collector that lost its reservation changes nothing and reports nothing: no
\* snapshot replaces one that was fetched after it, and the outcome recorded for a
\* tracker is that of a collector which held the newest reservation, or which could
\* not reserve it.
SupersededIsSilent ==
    [][\A t \in Trackers :
         /\ applied'[t] >= applied[t]
         /\ health'[t] # health[t] => \E c \in Collectors :
           /\ collector[c].at = t /\ collector'[c] # collector[c]
           /\ collector[c].claim \in
                {[tracker |-> t, generation |-> snapshot[t].generation], NoClaim}]_vars
=============================================================================
