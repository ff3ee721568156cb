------------------------ MODULE SourceCollectionProofs ------------------------
(****************************************************************************)
(* Collection of offers, for any trackers, offers, versions and collectors, *)
(* any number of runs and faults.  The first part is about one response     *)
(* (module Acquisition), the second about the catalogue and the leases.     *)
(*                                                                          *)
(* The catalogue is proved from what the columns of a source record say of  *)
(* the last two snapshots of its tracker (HistorySound), and the silence of *)
(* a superseded collector from the fact that no two collectors hold the     *)
(* same generation, and that the holder of the newest one fetched last      *)
(* (LeasesSound).                                                           *)
(****************************************************************************)
EXTENDS SourceCollection, Acquisition, WellFoundedInduction, TLAPS

----------------------------------------------------------------------------
(* A response: an offer that a collector counts missing is not open at the *)
(* tracker, and an offer has one address.                                  *)

(* The values that stand for nothing are no values. *)
NothingIsApart ==
    /\ None \notin Int \cup Address \cup Ids /\ Malformed \notin Int \cup Programme
    /\ None # Malformed

(* Every set of naturals that is not empty has a least element. *)
LEMMA LeastElement ==
    ASSUME NEW S \in SUBSET Nat, S # {}
    PROVE  \E x \in S : \A y \in S : x <= y
<1>1. PICK x \in S : \A y \in S : ~ (<<y, x>> \in OpToRel(<, Nat))
  BY NatLessThanWellFounded, WFMin
<1>2. \A y \in S : ~(y < x)
  BY <1>1 DEF OpToRel
<1> QED
  BY <1>2

(* An address written in another case, with slashes at the end or the parameters of a
   campaign leads to the same key, and nothing else does; a key is the key of itself,
   so that an offer stored under it is found again. *)
THEOREM KeysAreCanonical ==
    ASSUME NothingIsApart, NEW a \in Address, NEW b \in Address,
           CanonicalOfferUrl(a) # None, CanonicalOfferUrl(b) # None
    PROVE  /\ CanonicalOfferUrl(a) \in Address
           /\ CanonicalOfferUrl(CanonicalOfferUrl(a)) = CanonicalOfferUrl(a)
           /\ CanonicalOfferUrl(a) = CanonicalOfferUrl(b) <=>
                /\ a.scheme = b.scheme /\ a.host = b.host /\ a.path = b.path
                /\ a.query = b.query /\ a.fragment = b.fragment
<1>1. a # None /\ b # None
  BY DEF NothingIsApart
<1>2. a.scheme # "other" /\ a.host # None /\ a.plain /\ b.scheme # "other" /\ b.host # None /\ b.plain
  BY <1>1 DEF CanonicalOfferUrl
<1> DEFINE Plain(c) == [scheme |-> c.scheme, host |-> c.host, plain |-> TRUE, lower |-> TRUE,
                        path |-> c.path, slashes |-> IF c.path = Root THEN 1 ELSE 0,
                        query |-> c.query, tracking |-> FALSE, fragment |-> c.fragment]
<1>3. CanonicalOfferUrl(a) = Plain(a) /\ CanonicalOfferUrl(b) = Plain(b)
  BY <1>1, <1>2 DEF CanonicalOfferUrl
<1>4. Plain(a) \in Address
  BY DEF Address
<1>5. Plain(a) # None
  BY <1>4 DEF NothingIsApart
<1>6. CanonicalOfferUrl(Plain(a)) = Plain(Plain(a))
  BY <1>2, <1>5 DEF CanonicalOfferUrl, Address
<1>7. Plain(Plain(a)) = Plain(a)
  BY DEF Address
<1>8. Plain(a) = Plain(b) <=> /\ a.scheme = b.scheme /\ a.host = b.host /\ a.path = b.path
                              /\ a.query = b.query /\ a.fragment = b.fragment
  OBVIOUS
<1> QED
  BY <1>3, <1>4, <1>6, <1>7, <1>8

(* A collector sees each address once, and none that it could not store. *)
THEOREM OffersAreDistinct ==
    ASSUME NEW found, DOMAIN found \subseteq Nat,
           NEW i \in Deduplicated(found), NEW j \in Deduplicated(found),
           Key(found, i) = Key(found, j)
    PROVE  i = j /\ Key(found, i) # None
<1>1. i \in Nat /\ j \in Nat
  BY DEF Deduplicated
<1> QED
  BY <1>1 DEF Deduplicated

(* Leaving out duplicates loses no address. *)
LEMMA DuplicatesAreListed ==
    ASSUME NEW found, DOMAIN found \subseteq Nat,
           NEW i \in DOMAIN found, Key(found, i) # None
    PROVE  Key(found, i) \in Listed(found)
<1> DEFINE same == {j \in DOMAIN found : Key(found, j) = Key(found, i)}
<1>1. same \in SUBSET Nat /\ same # {}
  OBVIOUS
<1> HIDE DEF same
<1>2. PICK first \in same : \A j \in same : first <= j
  BY <1>1, LeastElement
<1>3. first \in DOMAIN found /\ Key(found, first) = Key(found, i)
  BY <1>2 DEF same
<1>4. ASSUME NEW j \in DOMAIN found, j < first PROVE Key(found, j) # Key(found, first)
  <2>1. j \notin same
    BY <1>1, <1>2, <1>4
  <2> QED
    BY <1>3, <2>1 DEF same
<1>5. first \in Deduplicated(found)
  BY <1>3, <1>4 DEF Deduplicated
<1> QED
  BY <1>3, <1>5 DEF Listed

(* What is counted missing is missing: of a response that is accepted, every programme
   that is open is listed under its address, and the response did not announce more
   than it has. *)
THEOREM AbsenceIsReal ==
    ASSUME NEW response \in Response, Accepted(response),
           NEW i \in DOMAIN response.items, IsOpen(response.items[i])
    PROVE  /\ CanonicalOfferUrl(Destination(response.items[i]))
                \in Listed(OpenProgrammes(response)) \ {None}
           /\ response.object => ~response.partial /\ \A n \in response.totals : n <= Len(response.items)
<1> DEFINE found == OpenProgrammes(response)
           item == response.items[i]
<1>1. response.items \in Seq(Programme \cup {Malformed}) /\ response.totals \subseteq Nat
  BY DEF Response
<1>2. DOMAIN found \subseteq Nat /\ i \in DOMAIN found /\ found[i] = Destination(item)
  BY <1>1 DEF OpenProgrammes
<1>3. Key(found, i) # None
  BY <1>2 DEF Accepted, Incomplete, IsOpen, Key
<1>4. Key(found, i) \in Listed(found)
  BY <1>2, <1>3, DuplicatesAreListed
<1>5. response.object => ~response.partial /\ \A n \in response.totals : n <= Len(response.items)
  BY <1>1 DEF Accepted, Partial
<1> QED
  BY <1>2, <1>3, <1>4, <1>5 DEF Key

(* "Trackr occasionally answers successfully with an empty payload": nothing is held to
   be listed only on the word of the tracker, that there are no programmes or that none
   of those it sent is open. *)
THEOREM EmptyIsExplicit ==
    ASSUME NEW response \in Response, Accepted(response),
           Listed(OpenProgrammes(response)) = {}
    PROVE  \/ ExplicitlyEmpty(response)
           \/ response.items # <<>> /\ \A i \in DOMAIN response.items : ~IsOpen(response.items[i])
<1>1. \A i \in DOMAIN response.items : ~IsOpen(response.items[i])
  BY AbsenceIsReal
<1> QED
  BY <1>1 DEF Accepted

(* A spring week is listed unless it ended, under the place of its record on the
   listing page, and two records have two places. *)
THEOREM SpringWeeksAreListed ==
    ASSUME NothingIsApart, PageUrl \in Address, CanonicalOfferUrl(PageUrl) # None,
           NEW items \in Seq(SpringWeek \cup {Malformed}), AcceptedSpringWeeks(items),
           NEW i \in DOMAIN items, ~SpringWeekIsClosed(items[i]), items[i] \in SpringWeek
    PROVE  /\ CanonicalOfferUrl(Anchor(items[i].id)) \in Listed(OpenSpringWeeks(items))
           /\ \A j \in DOMAIN items : items[j] \in SpringWeek /\ items[j].id # items[i].id =>
                CanonicalOfferUrl(Anchor(items[j].id)) # CanonicalOfferUrl(Anchor(items[i].id))
<1> DEFINE found == OpenSpringWeeks(items)
<1>1. ASSUME NEW j \in DOMAIN items, items[j] \in SpringWeek
      PROVE  /\ Anchor(items[j].id) \in Address
             /\ Anchor(items[j].id).fragment = items[j].id
             /\ CanonicalOfferUrl(Anchor(items[j].id)) # None
  <2>1. items[j].id \in Ids /\ PageUrl # None
    BY <1>1 DEF AcceptedSpringWeeks, SpringWeek, NothingIsApart
  <2>2. Anchor(items[j].id) = [PageUrl EXCEPT !.fragment = items[j].id]
    BY <2>1 DEF Anchor, NothingIsApart
  <2>3. Anchor(items[j].id) \in Address
    BY <2>1, <2>2 DEF Address
  <2>4. Anchor(items[j].id) # None
    BY <2>3 DEF NothingIsApart
  <2>5. PageUrl.scheme # "other" /\ PageUrl.host # None /\ PageUrl.plain
    BY <2>1 DEF CanonicalOfferUrl
  <2>6. /\ Anchor(items[j].id).scheme # "other" /\ Anchor(items[j].id).host # None
        /\ Anchor(items[j].id).plain /\ Anchor(items[j].id).fragment = items[j].id
    BY <2>2, <2>5 DEF Address
  <2>7. CanonicalOfferUrl(Anchor(items[j].id)) \in Address
    BY <2>3, <2>4, <2>6 DEF CanonicalOfferUrl, Address
  <2> QED
    BY <2>3, <2>6, <2>7 DEF NothingIsApart
<1>2. DOMAIN found \subseteq Nat /\ i \in DOMAIN found /\ found[i] = Anchor(items[i].id)
  BY DEF OpenSpringWeeks
<1>3. CanonicalOfferUrl(Anchor(items[i].id)) \in Listed(found)
  BY <1>1, <1>2, DuplicatesAreListed DEF Key
<1>4. ASSUME NEW j \in DOMAIN items, items[j] \in SpringWeek, items[j].id # items[i].id
      PROVE  CanonicalOfferUrl(Anchor(items[j].id)) # CanonicalOfferUrl(Anchor(items[i].id))
  BY <1>1, <1>4, KeysAreCanonical
<1> QED
  BY <1>3, <1>4

----------------------------------------------------------------------------
(* The catalogue and the leases. *)

MatchShape ==
    /\ DOMAIN match = Offers
    /\ \A o \in Offers : match[o] = [status |-> match[o].status, seen |-> match[o].seen]

\* What the columns of a source say of the last two snapshots of its tracker.
HistorySound ==
    \A o \in Offers, t \in Trackers :
      LET s == source[o][t]  h == history[t] IN
      /\ s.open /\ s.missing = 0 <=> Len(h) >= 1 /\ o \in h[1]
      /\ s.open /\ s.missing = 1 <=> Len(h) = 2 /\ o \notin h[1] /\ o \in h[2]

OpenExists == \A o \in Offers : offer[o].open => offer[o].exists

CatalogueSound == HistorySound /\ OpenExists /\ OpenWhileListed /\ MatchedAsPublished

\* The collector holds a reservation of t, perhaps not the newest one.
Reserved(c, t) == collector[c].claim.tracker = t

LeasesSound ==
    /\ \A t \in Trackers : applied[t] <= fetched[t]
    /\ \A c \in Collectors, t \in Trackers :
         Reserved(c, t) => /\ collector[c].claim.generation <= snapshot[t].generation
                           /\ \A d \in Collectors \ {c} : collector[d].claim # collector[c].claim
    /\ \A c \in Collectors :
         /\ collector[c].pc \in {"reserved", "fetched"} =>
              collector[c].at \in Trackers /\ Reserved(c, collector[c].at)
         /\ collector[c].pc = "fetched" =>
              /\ collector[c].number <= fetched[collector[c].at]
              /\ Owned(c) => collector[c].number > applied[collector[c].at]

Inv == TypeOK /\ MatchShape /\ CatalogueSound /\ LeasesSound

LEMMA NothingIsTyped ==
    /\ AnyVersion \in Versions /\ NothingFetched \in Snapshots
    /\ Unbound \in Claims /\ NoClaim \in Claims
    /\ IdleCollector \in Collector /\ NoSource \in Source /\ NoOffer \in Offer
<1>1. AnyVersion \in Versions
  BY SourceCollectionAssumption DEF AnyVersion
<1>2. NothingFetched \in Snapshots
  <2>1. NothingFetched \in [{} -> Versions] /\ {} \in SUBSET Offers
    BY DEF NothingFetched
  <2> QED
    BY <2>1 DEF Snapshots
<1>3. Unbound \in Claims /\ NoClaim \in Claims
  BY DEF Claims
<1>4. IdleCollector \in Collector
  BY <1>2, <1>3 DEF IdleCollector, Collector
<1>5. NoSource \in Source /\ NoOffer \in Offer
  BY <1>1 DEF NoSource, NoOffer, Source, Offer
<1> QED
  BY <1>1, <1>2, <1>3, <1>4, <1>5

LEMMA InitHolds == Init => Inv
<1> SUFFICES ASSUME Init PROVE Inv
  OBVIOUS
<1>1. TypeOK
  <2>1. <<>> \in Seq(SUBSET Offers) /\ Len(<<>>) = 0
    OBVIOUS
  <2>2. [generation |-> 0, leased |-> FALSE] \in Lease
    BY DEF Lease, Generations
  <2> QED
    BY <2>1, <2>2, NothingIsTyped, SourceCollectionAssumption DEF Init, TypeOK
<1>2. MatchShape
  BY DEF Init, MatchShape
<1>3. CatalogueSound
  BY DEF Init, CatalogueSound, HistorySound, OpenExists, OpenWhileListed, MatchedAsPublished,
         NoSource, NoOffer
<1>4. LeasesSound
  BY SourceCollectionAssumption DEF Init, LeasesSound, Reserved, IdleCollector, Unbound
<1> QED
  BY <1>1, <1>2, <1>3, <1>4 DEF Inv

----------------------------------------------------------------------------
(* The catalogue. *)

(* The sources of one tracker after a snapshot. *)
LEMMA CollectedSource ==
    ASSUME NEW s \in Source, NEW raw \in Snapshots, NEW o
    PROVE  /\ Collected(s, raw, o) \in Source
           /\ o \in DOMAIN raw => Collected(s, raw, o).open /\ Collected(s, raw, o).missing = 0
           /\ o \notin DOMAIN raw =>
                /\ ~s.open => Collected(s, raw, o) = s
                /\ s.open => /\ Collected(s, raw, o).missing = s.missing + 1
                             /\ Collected(s, raw, o).open = (s.missing = 0)
<1>1. CASE o \in DOMAIN raw
  <2> DEFINE v == raw[o]
             r == [exists |-> TRUE, open |-> TRUE, missing |-> 0, about |-> v]
  <2>1. v \in Versions
    BY <1>1 DEF Snapshots
  <2>2. Collected(s, raw, o) = r
    BY <1>1 DEF Collected
  <2> HIDE DEF v
  <2>3. r \in Source /\ r.open /\ r.missing = 0
    BY <2>1 DEF Source
  <2> QED
    BY <1>1, <2>2, <2>3
<1>2. CASE o \notin DOMAIN raw /\ s.open
  <2> DEFINE n == s.missing + 1
             open == n < 2
             r == [s EXCEPT !.missing = n, !.open = open]
  <2>1. s.missing \in 0..2 /\ s.missing < 2 /\ s.exists /\ n \in 0..2
    BY <1>2 DEF Source
  <2>2. Collected(s, raw, o) = r
    BY <1>2 DEF Collected, Missed
  <2>3. open \in BOOLEAN /\ (open => n < 2) /\ open = (s.missing = 0) /\ n = s.missing + 1
    BY <2>1
  <2> HIDE DEF n, open
  <2>4. r \in Source /\ r.missing = n /\ r.open = open
    BY <2>1, <2>3 DEF Source
  <2> QED
    BY <1>2, <2>2, <2>3, <2>4
<1>3. CASE o \notin DOMAIN raw /\ ~s.open
  BY <1>3 DEF Collected
<1> QED
  BY <1>1, <1>2, <1>3

(* What Apply commits, offer by offer and tracker by tracker. *)
LEMMA Applied ==
    ASSUME TypeOK, NEW c \in Collectors, Apply(c), collector[c].at \in Trackers
    PROVE  LET t == collector[c].at  raw == collector[c].raw IN
           /\ raw \in Snapshots
           /\ source' \in [Offers -> [Trackers -> Source]] /\ offer' \in [Offers -> Offer]
           /\ \A o \in Offers : /\ source'[o][t] = Collected(source[o][t], raw, o)
                                /\ \A u \in Trackers \ {t} : source'[o][u] = source[o][u]
           /\ history'[t] \in Seq(SUBSET Offers) /\ Len(history'[t]) \in 1..2
           /\ history'[t][1] = DOMAIN raw
           /\ Len(history'[t]) = 2 => Len(history[t]) >= 1 /\ history'[t][2] = history[t][1]
           /\ Len(history'[t]) = 1 => Len(history[t]) = 0
           /\ \A u \in Trackers \ {t} : history'[u] = history[u]
<1> DEFINE t == collector[c].at
           raw == collector[c].raw
<1>0. /\ t \in Trackers /\ raw \in Snapshots /\ source \in [Offers -> [Trackers -> Source]]
      /\ offer \in [Offers -> Offer] /\ history \in [Trackers -> Seq(SUBSET Offers)]
  BY DEF TypeOK, Collector
<1>1. source' = [o \in Offers |-> [source[o] EXCEPT ![t] = Collected(source[o][t], raw, o)]]
  BY DEF Apply
<1>2. offer' = [o \in Offers |->
         IF o \in DOMAIN raw THEN [exists |-> TRUE, open |-> TRUE, about |-> raw[o]]
         ELSE IF source[o][t].open
                THEN [offer[o] EXCEPT !.open = OpenAfter(o, t, Collected(source[o][t], raw, o))]
         ELSE offer[o]]
  BY DEF Apply
<1>3. \A o \in Offers : Collected(source[o][t], raw, o) \in Source
  BY <1>0, CollectedSource
<1>4. offer' \in [Offers -> Offer]
  <2>1. ASSUME NEW o \in Offers PROVE offer'[o] \in Offer
    <3> DEFINE r == offer[o]
               open == OpenAfter(o, t, Collected(source[o][t], raw, o))
    <3>1. r \in Offer
      BY <1>0
    <3>2. open \in BOOLEAN
      BY <1>3 DEF OpenAfter, Source
    <3>3. offer'[o] \in {[exists |-> TRUE, open |-> TRUE, about |-> raw[o]],
                        [r EXCEPT !.open = open], r}
      BY <1>2
    <3>4. o \in DOMAIN raw => raw[o] \in Versions
      BY <1>0 DEF Snapshots
    <3>5. [r EXCEPT !.open = open] \in Offer
      <4> HIDE DEF r, open
      <4> QED
        BY <3>1, <3>2 DEF Offer
    <3>6. o \in DOMAIN raw => [exists |-> TRUE, open |-> TRUE, about |-> raw[o]] \in Offer
      BY <3>4 DEF Offer
    <3> QED
      BY <1>2, <3>1, <3>5, <3>6
  <2> QED
    BY <1>2, <2>1
<1>5. source' \in [Offers -> [Trackers -> Source]]
      /\ \A o \in Offers : /\ source'[o][t] = Collected(source[o][t], raw, o)
                           /\ \A u \in Trackers \ {t} : source'[o][u] = source[o][u]
  BY <1>0, <1>1, <1>3
<1>6. DOMAIN raw \in SUBSET Offers
  BY <1>0 DEF Snapshots
<1>7. /\ history'[t] = IF history[t] = <<>> THEN <<DOMAIN raw>> ELSE <<DOMAIN raw, Head(history[t])>>
      /\ \A u \in Trackers \ {t} : history'[u] = history[u]
  BY <1>0 DEF Apply
<1>8. /\ history'[t] \in Seq(SUBSET Offers) /\ Len(history'[t]) \in 1..2
      /\ history'[t][1] = DOMAIN raw
      /\ Len(history'[t]) = 2 => Len(history[t]) >= 1 /\ history'[t][2] = history[t][1]
      /\ Len(history'[t]) = 1 => Len(history[t]) = 0
  <2> DEFINE h == history[t]  D == DOMAIN raw
  <2>1. h \in Seq(SUBSET Offers) /\ D \in SUBSET Offers
    BY <1>0, <1>6
  <2>2. CASE h = <<>>
    <3>1. history'[t] = <<D>>
      BY <1>7, <2>2
    <3> QED
      BY <2>1, <2>2, <3>1
  <2>3. CASE h # <<>>
    <3>1. history'[t] = <<D, Head(h)>>
      BY <1>7, <2>3
    <3>2. Head(h) = h[1] /\ Head(h) \in SUBSET Offers /\ Len(h) >= 1
      BY <2>1, <2>3
    <3> QED
      BY <2>1, <3>1, <3>2
  <2> QED
    BY <2>2, <2>3
<1> QED
  BY <1>0, <1>4, <1>5, <1>7, <1>8

LEMMA HistoryStays ==
    ASSUME TypeOK, HistorySound, NEW c \in Collectors, Apply(c), collector[c].at \in Trackers
    PROVE  HistorySound'
<1> DEFINE t == collector[c].at
           raw == collector[c].raw
<1>0. /\ t \in Trackers /\ raw \in Snapshots /\ source \in [Offers -> [Trackers -> Source]]
      /\ history \in [Trackers -> Seq(SUBSET Offers)] /\ Len(history[t]) \in 0..2
  BY DEF TypeOK, Collector
<1>1. /\ \A o \in Offers : /\ source'[o][t] = Collected(source[o][t], raw, o)
                           /\ \A u \in Trackers \ {t} : source'[o][u] = source[o][u]
      /\ history'[t] \in Seq(SUBSET Offers) /\ Len(history'[t]) \in 1..2
      /\ history'[t][1] = DOMAIN raw
      /\ Len(history'[t]) = 2 => Len(history[t]) >= 1 /\ history'[t][2] = history[t][1]
      /\ Len(history'[t]) = 1 => Len(history[t]) = 0
      /\ \A u \in Trackers \ {t} : history'[u] = history[u]
  BY Applied
<1> DEFINE Sound(s, h, o) == /\ s.open /\ s.missing = 0 <=> Len(h) >= 1 /\ o \in h[1]
                             /\ s.open /\ s.missing = 1 <=> Len(h) = 2 /\ o \notin h[1] /\ o \in h[2]
<1>2. ASSUME NEW o \in Offers PROVE Sound(source'[o][t], history'[t], o)
  <2> DEFINE s == source[o][t]  s1 == source'[o][t]  h == history[t]  h1 == history'[t]
  <2>1. s \in Source /\ s1 = Collected(s, raw, o) /\ Sound(s, h, o)
    BY <1>0, <1>1 DEF HistorySound
  <2>a. Len(h) \in 0..2
    BY <1>0
  <2>b. /\ h1[1] = DOMAIN raw /\ Len(h1) \in 1..2
        /\ Len(h1) = 2 => Len(h) >= 1 /\ h1[2] = h[1]
        /\ Len(h1) = 1 => Len(h) = 0
    BY <1>1
  <2>2. /\ s1 \in Source
        /\ o \in DOMAIN raw => s1.open /\ s1.missing = 0
        /\ o \notin DOMAIN raw /\ ~s.open => s1 = s
        /\ o \notin DOMAIN raw /\ s.open =>
             s1.missing = s.missing + 1 /\ s1.open = (s.missing = 0)
    BY <1>0, <2>1, CollectedSource
  <2>3. /\ s.missing \in 0..2 /\ (s.open => s.missing < 2) /\ s1.missing \in 0..2
        /\ s.open \in BOOLEAN /\ s1.open \in BOOLEAN
    BY <2>1, <2>2 DEF Source
  <2>4. /\ h1[1] = DOMAIN raw /\ Len(h1) \in {1, 2} /\ Len(h) \in 0..2
        /\ Len(h1) = 2 => Len(h) >= 1 /\ h1[2] = h[1]
        /\ Len(h1) = 1 => Len(h) = 0
    <3> HIDE DEF h, h1
    <3>1. Len(h1) \in {1, 2}
      BY <2>b
    <3> QED
      BY <2>a, <2>b, <3>1, Zenon
  <2> HIDE DEF s, s1, h, h1
  <2>5. ASSUME o \in DOMAIN raw PROVE Sound(s1, h1, o)
    BY <2>2, <2>3, <2>4, <2>5
  <2>6. ASSUME o \notin DOMAIN raw /\ ~s.open PROVE Sound(s1, h1, o)
    <3>a. ~s1.open
      BY <2>2, <2>6
    <3>b. ~(Len(h) >= 1 /\ o \in h[1])
      BY <2>1, <2>6, Zenon
    <3>1. ~s1.open /\ ~(Len(h) >= 1 /\ o \in h[1])
      BY <3>a, <3>b
    <3>2. o \notin h1[1] /\ (Len(h1) = 2 => o \notin h1[2])
      BY <2>4, <2>6, <3>1
    <3> QED
      BY <3>1, <3>2
  <2>7. ASSUME o \notin DOMAIN raw /\ s.open PROVE Sound(s1, h1, o)
    <3>1. s.missing \in {0, 1}
      BY <2>3, <2>7
    <3>2. CASE s.missing = 0
      BY <2>1, <2>2, <2>3, <2>4, <2>7, <3>2
    <3>3. CASE s.missing = 1
      BY <2>1, <2>2, <2>3, <2>4, <2>7, <3>3
    <3> QED
      BY <3>1, <3>2, <3>3
  <2>8. Sound(s1, h1, o)
    BY <2>5, <2>6, <2>7
  <2> QED
    BY <2>8 DEF s1, h1
<1>3. ASSUME NEW o \in Offers, NEW u \in Trackers \ {t} PROVE Sound(source'[o][u], history'[u], o)
  <2>1. Sound(source[o][u], history[u], o)
    BY DEF HistorySound
  <2> QED
    BY <1>1, <2>1
<1> QED
  BY <1>0, <1>2, <1>3 DEF HistorySound

LEMMA OpenStaysListed ==
    ASSUME TypeOK, OpenWhileListed, OpenExists, NEW c \in Collectors, Apply(c),
           collector[c].at \in Trackers
    PROVE  OpenWhileListed' /\ OpenExists'
<1> DEFINE t == collector[c].at
           raw == collector[c].raw
<1>0. /\ t \in Trackers /\ raw \in Snapshots /\ source \in [Offers -> [Trackers -> Source]]
      /\ offer \in [Offers -> Offer]
  BY DEF TypeOK, Collector
<1> SUFFICES ASSUME NEW o \in Offers
             PROVE  /\ offer'[o].open <=> \E u \in Trackers : source'[o][u].open
                    /\ offer'[o].open => offer'[o].exists
  BY DEF OpenWhileListed, OpenExists
<1> DEFINE s == source[o][t]  s1 == Collected(s, raw, o)  r == offer[o]
<1>1. /\ source'[o][t] = s1 /\ \A u \in Trackers \ {t} : source'[o][u] = source[o][u]
      /\ s \in Source
  BY <1>0, Applied
<1>2. /\ s1 \in Source
      /\ o \in DOMAIN raw => s1.open
      /\ o \notin DOMAIN raw /\ ~s.open => s1 = s
  BY <1>0, <1>1, CollectedSource
<1>3. offer'[o] = IF o \in DOMAIN raw THEN [exists |-> TRUE, open |-> TRUE, about |-> raw[o]]
                  ELSE IF s.open THEN [r EXCEPT !.open = OpenAfter(o, t, s1)] ELSE r
  BY DEF Apply
<1>4. r \in Offer /\ (r.open <=> \E u \in Trackers : source[o][u].open) /\ (r.open => r.exists)
  BY <1>0 DEF OpenWhileListed, OpenExists
<1>5. OpenAfter(o, t, s1) <=> s1.open \/ \E u \in Trackers \ {t} : source[o][u].open
  BY DEF OpenAfter
<1>6. (\E u \in Trackers : source'[o][u].open) <=>
        s1.open \/ \E u \in Trackers \ {t} : source[o][u].open
  BY <1>0, <1>1
<1>7. CASE o \in DOMAIN raw
  BY <1>2, <1>3, <1>6, <1>7
<1>8. CASE o \notin DOMAIN raw /\ s.open
  <2> DEFINE open == OpenAfter(o, t, s1)
  <2>1. r.exists /\ r \in Offer
    BY <1>0, <1>4, <1>8
  <2>2. offer'[o] = [r EXCEPT !.open = open]
    BY <1>3, <1>8
  <2> HIDE DEF open, r
  <2>3. offer'[o].open = open /\ offer'[o].exists
    BY <2>1, <2>2 DEF Offer
  <2> QED
    BY <1>5, <1>6, <2>3 DEF open
<1>9. CASE o \notin DOMAIN raw /\ ~s.open
  <2>1. offer'[o] = r /\ s1 = s
    BY <1>2, <1>3, <1>9
  <2> QED
    BY <1>0, <1>4, <1>6, <2>1
<1> QED
  BY <1>7, <1>8, <1>9

(* What changes is queued, and what is not queued did not change. *)
LEMMA MatchStays ==
    ASSUME TypeOK, MatchShape, OpenExists, MatchedAsPublished, NEW c \in Collectors, Apply(c)
    PROVE  MatchShape' /\ MatchedAsPublished'
<1>1. match' = [o \in Offers |-> IF Changed(o) THEN [match[o] EXCEPT !.status = "pending"] ELSE match[o]]
  BY DEF Apply
<1>2. ASSUME NEW o \in Offers, Changed(o)
      PROVE  match'[o] = [status |-> "pending", seen |-> match[o].seen]
  BY <1>1, <1>2 DEF MatchShape
<1>3. ASSUME NEW o \in Offers, ~Changed(o)
      PROVE  match'[o] = match[o] /\ Revision(o)' = Revision(o)
  BY <1>1, <1>3 DEF Changed
<1>4. MatchShape'
  BY <1>1, <1>2, <1>3 DEF MatchShape
<1>5. ASSUME NEW o \in Offers, offer'[o].exists, ~Changed(o) PROVE offer[o].exists
  <2>1. Revision(o)'.open = Revision(o).open
    BY <1>3, <1>5
  <2>2. offer'[o].open = offer[o].open
    BY <2>1 DEF Revision
  <2>3. /\ o \in DOMAIN collector[c].raw => offer'[o].open
        /\ o \notin DOMAIN collector[c].raw => offer'[o].exists = offer[o].exists
    BY DEF Apply, TypeOK, Offer
  <2> QED
    BY <1>5, <2>2, <2>3 DEF OpenExists
<1>6. MatchedAsPublished'
  <2> SUFFICES ASSUME NEW o \in Offers, offer'[o].exists, match'[o].status # "pending"
               PROVE  match'[o].seen = Revision(o)'
    BY DEF MatchedAsPublished
  <2>1. ~Changed(o)
    <3>1. Changed(o) => match'[o].status = "pending"
      <4>1. [status |-> "pending", seen |-> match[o].seen].status = "pending"
        OBVIOUS
      <4> QED
        BY <1>2, <4>1
    <3> QED
      BY <3>1
  <2> QED
    BY <1>3, <1>5, <2>1 DEF MatchedAsPublished
<1> QED
  BY <1>4, <1>6

----------------------------------------------------------------------------
(* The collectors. *)

(* The loop goes on, with the claim of the last tracker or another. *)
LEMMA GoesOn ==
    ASSUME TypeOK, NEW c \in Collectors, NEW t \in Trackers \cup {NoTracker},
           NEW pc \in {"idle", "loop", "reserved", "fetched", "failing"}, NEW claim \in Claims,
           GoOn(c, t, pc, claim)
    PROVE  /\ collector' \in [Collectors -> Collector]
           /\ collector'[c].pc = pc /\ collector'[c].at = t /\ collector'[c].claim = claim
           /\ \A d \in Collectors \ {c} : collector'[d] = collector[d]
<1> DEFINE r == IdleCollector
           todo == collector[c].todo \ {t}
           s == [r EXCEPT !.pc = pc, !.todo = todo, !.at = t, !.claim = claim]
<1>1. r \in Collector /\ collector \in [Collectors -> Collector]
  BY NothingIsTyped DEF TypeOK
<1>2. todo \in SUBSET Trackers
  BY <1>1 DEF Collector
<1>3. collector' = [collector EXCEPT ![c] = s]
  BY DEF GoOn
<1> HIDE DEF r, todo
<1>4. s \in Collector /\ s.pc = pc /\ s.at = t /\ s.claim = claim
  BY <1>1, <1>2 DEF Collector
<1> HIDE DEF s
<1> QED
  BY <1>1, <1>3, <1>4

(* A collector is idle, or in the loop, with no claim or the one it had. *)
AtRest(c) ==
    /\ collector' \in [Collectors -> Collector]
    /\ \A d \in Collectors \ {c} : collector'[d] = collector[d]
    /\ collector'[c].pc \in {"idle", "loop", "failing"}
    /\ collector'[c].claim \in {collector[c].claim, Unbound, NoClaim}

\* No tracker is reserved.
SameGenerations ==
    /\ snapshot' \in [Trackers -> Lease]
    /\ \A t \in Trackers : snapshot'[t].generation = snapshot[t].generation

LEMMA GoesOnAtRest ==
    ASSUME TypeOK, NEW c \in Collectors, NEW t \in Trackers \cup {NoTracker},
           NEW pc \in {"loop", "failing"}, NEW claim \in {collector[c].claim, NoClaim},
           GoOn(c, t, pc, claim)
    PROVE  AtRest(c)
<1>1. claim \in Claims
  BY NothingIsTyped DEF TypeOK, Collector
<1> QED
  BY <1>1, GoesOn DEF AtRest

LEMMA ContinueAtRest ==
    ASSUME TypeOK, NEW c \in Collectors, Continue(c)
    PROVE  AtRest(c)
<1>1. collector[c].at \in Trackers \cup {NoTracker}
  BY DEF TypeOK, Collector
<1> QED
  BY <1>1, GoesOnAtRest DEF Continue

LEMMA IdleAtRest ==
    ASSUME TypeOK, NEW c \in Collectors, collector' = [collector EXCEPT ![c] = IdleCollector]
    PROVE  AtRest(c)
BY NothingIsTyped DEF TypeOK, AtRest, IdleCollector

LEMMA StartAtRest ==
    ASSUME TypeOK, NEW c \in Collectors, Start(c)
    PROVE  AtRest(c)
<1>1. PICK todo \in {Trackers} \cup {{t} : t \in Trackers} :
         collector' = [collector EXCEPT ![c] = [IdleCollector EXCEPT !.pc = "loop", !.todo = todo]]
  BY DEF Start
<1> DEFINE r == IdleCollector  s == [r EXCEPT !.pc = "loop", !.todo = todo]
<1>2. r \in Collector /\ r.claim = Unbound /\ collector \in [Collectors -> Collector]
      /\ todo \in SUBSET Trackers
  BY <1>1, NothingIsTyped DEF TypeOK, IdleCollector
<1>3. collector' = [collector EXCEPT ![c] = s]
  BY <1>1
<1> HIDE DEF r
<1>4. s \in Collector /\ s.pc = "loop" /\ s.claim = Unbound
  BY <1>2 DEF Collector
<1> HIDE DEF s
<1> QED
  BY <1>2, <1>3, <1>4 DEF AtRest

LEMMA RaiseAtRest ==
    ASSUME TypeOK, NEW c \in Collectors, Raise(c)
    PROVE  AtRest(c)
<1> DEFINE r == collector[c]
           s == [r EXCEPT !.pc = "failing", !.number = 0, !.raw = NothingFetched]
<1>1. r \in Collector /\ collector \in [Collectors -> Collector]
  BY DEF TypeOK
<1>2. collector' = [collector EXCEPT ![c] = s]
  BY DEF Raise
<1>3. r.claim = collector[c].claim
  OBVIOUS
<1> HIDE DEF r
<1>4. s \in Collector /\ s.pc = "failing" /\ s.claim = r.claim
  BY <1>1, NothingIsTyped DEF Collector
<1> HIDE DEF s
<1> QED
  BY <1>1, <1>2, <1>3, <1>4 DEF AtRest

(* A lease that is given up, or lapses, keeps its generation. *)
LEMMA ReleaseIsTyped ==
    ASSUME TypeOK, NEW t, snapshot' = [snapshot EXCEPT ![t].leased = FALSE]
    PROVE  SameGenerations
<1>1. snapshot \in [Trackers -> Lease]
  BY DEF TypeOK
<1>2. CASE t \in Trackers
  <2> DEFINE r == snapshot[t]
  <2>1. r \in Lease /\ snapshot' = [snapshot EXCEPT ![t] = [r EXCEPT !.leased = FALSE]]
    BY <1>1, <1>2
  <2>2. r.generation = snapshot[t].generation
    OBVIOUS
  <2> HIDE DEF r
  <2>3. [r EXCEPT !.leased = FALSE] \in Lease /\ [r EXCEPT !.leased = FALSE].generation = r.generation
    BY <2>1 DEF Lease
  <2> QED
    BY <1>1, <2>1, <2>2, <2>3 DEF SameGenerations
<1>3. CASE t \notin Trackers
  BY <1>1, <1>3 DEF SameGenerations
<1> QED
  BY <1>2, <1>3

(* Leases are untouched by a step that reserves nothing and fetches nothing. *)
LEMMA RestKeepsLeases ==
    ASSUME TypeOK, LeasesSound, NEW c \in Collectors, AtRest(c), SameGenerations,
           fetched' = fetched,
           \/ applied' = applied
           \/ /\ collector[c].pc = "fetched" /\ Owned(c)
              /\ applied' = [applied EXCEPT ![collector[c].at] = collector[c].number]
    PROVE  LeasesSound'
<1>0. /\ collector \in [Collectors -> Collector] /\ collector' \in [Collectors -> Collector]
      /\ applied \in [Trackers -> Nat] /\ fetched \in [Trackers -> Nat]
      /\ snapshot \in [Trackers -> Lease]
  BY DEF TypeOK, AtRest
<1>1. \A t \in Trackers : applied'[t] <= fetched'[t]
  <2>1. CASE applied' = applied
    BY <2>1 DEF LeasesSound
  <2>2. CASE applied' # applied
    <3>1. collector[c].number <= fetched[collector[c].at]
      BY <2>2 DEF LeasesSound
    <3> QED
      BY <1>0, <2>2, <3>1 DEF LeasesSound
  <2> QED
    BY <2>1, <2>2
<1>2. ASSUME NEW d \in Collectors, NEW t \in Trackers, Reserved(d, t)'
      PROVE  collector'[d].claim = collector[d].claim /\ Reserved(d, t)
  BY <1>2, SourceCollectionAssumption DEF AtRest, Reserved, Unbound, NoClaim
<1>3. ASSUME NEW d \in Collectors, NEW t \in Trackers, Reserved(d, t)'
      PROVE  /\ collector'[d].claim.generation <= snapshot'[t].generation
             /\ \A e \in Collectors \ {d} : collector'[e].claim # collector'[d].claim
  <2>1. /\ collector'[d].claim = collector[d].claim /\ collector[d].claim.tracker = t
        /\ collector[d].claim.generation <= snapshot'[t].generation
    BY <1>2, <1>3 DEF LeasesSound, SameGenerations, Reserved
  <2>2. ASSUME NEW e \in Collectors \ {d}, collector'[e].claim = collector'[d].claim PROVE FALSE
    <3>1. Reserved(e, t)'
      BY <1>3, <2>2 DEF Reserved
    <3>2. collector'[e].claim = collector[e].claim
      BY <1>2, <3>1
    <3> QED
      BY <1>2, <1>3, <2>1, <2>2, <3>2 DEF LeasesSound
  <2> QED
    BY <2>1, <2>2
<1>4. ASSUME NEW d \in Collectors, collector'[d].pc \in {"reserved", "fetched"}
      PROVE  d # c /\ collector'[d] = collector[d] /\ collector[d].at \in Trackers
             /\ Reserved(d, collector[d].at)
  BY <1>4 DEF AtRest, LeasesSound
<1>6. ASSUME NEW d \in Collectors, collector'[d].pc = "fetched"
      PROVE  collector'[d].number <= fetched'[collector'[d].at]
  BY <1>4, <1>6 DEF LeasesSound
<1>5. ASSUME NEW d \in Collectors, collector'[d].pc = "fetched", Owned(d)'
      PROVE  collector'[d].number > applied'[collector'[d].at]
  <2>1. Owned(d) /\ d # c /\ collector'[d] = collector[d] /\ collector[d].at \in Trackers
    BY <1>4, <1>5 DEF Owned, SameGenerations
  <2>2. collector[d].number > applied[collector[d].at]
    BY <1>5, <2>1 DEF LeasesSound
  <2>3. CASE applied' = applied
    BY <2>1, <2>2, <2>3
  <2>4. CASE applied' # applied
    <3>1. collector[c].pc = "fetched" /\ Owned(c) /\ collector[c].at \in Trackers
          /\ applied' = [applied EXCEPT ![collector[c].at] = collector[c].number]
      BY <2>4 DEF LeasesSound
    <3>2. collector[d].at # collector[c].at
      BY <1>2, <2>1, <3>1 DEF LeasesSound, Owned, Reserved
    <3> QED
      BY <1>0, <2>1, <2>2, <3>1, <3>2
  <2> QED
    BY <2>3, <2>4
<1> QED
  BY <1>1, <1>3, <1>4, <1>5, <1>6 DEF LeasesSound, Reserved

(* A new reservation is newer than any that is held. *)
LEMMA ReserveKeepsLeases ==
    ASSUME TypeOK, LeasesSound, NEW c \in Collectors, NEW t \in Trackers, Reserve(c, t)
    PROVE  /\ LeasesSound' /\ collector' \in [Collectors -> Collector]
           /\ snapshot' \in [Trackers -> Lease]
<1>0. /\ collector \in [Collectors -> Collector] /\ snapshot \in [Trackers -> Lease]
      /\ UNCHANGED <<fetched, applied>>
  BY DEF TypeOK, Reserve, ghosts
<1>1. CASE snapshot[t].leased
  <2>1. GoOn(c, t, "loop", NoClaim) /\ UNCHANGED snapshot
    BY <1>1 DEF Reserve
  <2>2. AtRest(c)
    BY <2>1, GoesOnAtRest
  <2>3. SameGenerations
    BY <1>0, <2>1 DEF SameGenerations
  <2> QED
    BY <1>0, <2>1, <2>2, <2>3, RestKeepsLeases DEF AtRest
<1>2. CASE ~snapshot[t].leased
  <2> DEFINE generation == snapshot[t].generation + 1
             claim == [tracker |-> t, generation |-> generation]
  <2>1. GoOn(c, t, "reserved", claim)
        /\ snapshot' = [snapshot EXCEPT ![t] = [generation |-> generation, leased |-> TRUE]]
    BY <1>2 DEF Reserve
  <2>2. generation \in Generations /\ snapshot[t].generation \in Nat
    BY <1>0 DEF Lease, Generations
  <2>3. claim \in Claims
    BY <2>2 DEF Claims
  <2>4. [generation |-> generation, leased |-> TRUE] \in Lease
    BY <2>2 DEF Lease
  <2>5. /\ collector' \in [Collectors -> Collector]
        /\ collector'[c].pc = "reserved" /\ collector'[c].at = t /\ collector'[c].claim = claim
        /\ \A d \in Collectors \ {c} : collector'[d] = collector[d]
    BY <2>1, <2>3, GoesOn
  <2>6. /\ snapshot' \in [Trackers -> Lease] /\ snapshot'[t].generation = generation
        /\ \A u \in Trackers \ {t} : snapshot'[u] = snapshot[u]
    BY <1>0, <2>1, <2>4
  <2>7. claim.tracker = t /\ claim.generation = generation /\ generation = snapshot[t].generation + 1
    OBVIOUS
  <2> HIDE DEF generation, claim
  <2>8. ASSUME NEW d \in Collectors \ {c}, collector[d].claim = claim PROVE FALSE
    <3>1. collector[d].claim.generation <= snapshot[t].generation
      BY <2>7, <2>8 DEF LeasesSound, Reserved
    <3> QED
      BY <2>2, <2>7, <2>8, <3>1 DEF Generations
  <2>9. ASSUME NEW d \in Collectors, NEW u \in Trackers, Reserved(d, u)'
        PROVE  /\ collector'[d].claim.generation <= snapshot'[u].generation
               /\ \A e \in Collectors \ {d} : collector'[e].claim # collector'[d].claim
    <3>1. CASE d = c
      <4>1. u = t
        BY <2>5, <2>7, <2>9, <3>1 DEF Reserved
      <4> QED
        BY <2>2, <2>5, <2>6, <2>7, <2>8, <3>1, <4>1 DEF Generations
    <3>2. CASE d # c
      <4>1. collector'[d] = collector[d] /\ Reserved(d, u)
        BY <2>5, <2>9, <3>2 DEF Reserved
      <4>2. /\ collector[d].claim.generation <= snapshot[u].generation
            /\ collector[d].claim.generation \in Nat
        BY <1>0, <4>1, SourceCollectionAssumption
           DEF LeasesSound, Collector, Claims, Generations, Reserved, Unbound, NoClaim
      <4>3. snapshot[u].generation <= snapshot'[u].generation
        BY <1>0, <2>2, <2>6, <2>7 DEF Lease, Generations
      <4>4. snapshot[u].generation \in Nat /\ snapshot'[u].generation \in Nat
        BY <1>0, <2>6 DEF Lease, Generations
      <4>5. \A e \in Collectors \ {d, c} : collector'[e].claim # collector'[d].claim
        BY <2>5, <4>1 DEF LeasesSound
      <4> QED
        BY <2>5, <2>8, <3>2, <4>1, <4>2, <4>3, <4>4, <4>5
    <3> QED
      BY <3>1, <3>2
  <2>10. ASSUME NEW d \in Collectors
         PROVE  /\ collector'[d].pc \in {"reserved", "fetched"} =>
                     collector'[d].at \in Trackers /\ Reserved(d, collector[d].at)'
                /\ collector'[d].pc = "fetched" =>
                     /\ collector'[d].number <= fetched'[collector'[d].at]
                     /\ Owned(d)' => collector'[d].number > applied'[collector'[d].at]
    <3>1. CASE d = c
      BY <2>5, <2>7, <3>1 DEF Reserved
    <3>2. CASE d # c
      <4>1. collector'[d] = collector[d]
        BY <2>5, <3>2
      <4>2. collector[d].pc = "fetched" /\ Owned(d)' => Owned(d)
        <5>1. ASSUME collector[d].pc = "fetched", Owned(d)' PROVE collector[d].at # t
          <6>1. collector[d].at = t => collector[d].claim = claim
            BY <2>6, <2>7, <4>1, <5>1 DEF Owned, claim
          <6> QED
            BY <2>8, <3>2, <6>1
        <5> QED
          BY <2>6, <4>1, <5>1 DEF Owned, LeasesSound
      <4> QED
        BY <1>0, <4>1, <4>2 DEF LeasesSound, Reserved
    <3> QED
      BY <3>1, <3>2
  <2>11. \A u \in Trackers : applied'[u] <= fetched'[u]
    BY <1>0 DEF LeasesSound
  <2> QED
    BY <2>5, <2>6, <2>9, <2>10, <2>11 DEF LeasesSound
<1> QED
  BY <1>1, <1>2

(* A fetch is newer than what was applied. *)
LEMMA FetchKeepsLeases ==
    ASSUME TypeOK, LeasesSound, NEW c \in Collectors, NEW raw \in Snapshots, Fetch(c, raw)
    PROVE  /\ LeasesSound' /\ collector' \in [Collectors -> Collector]
           /\ fetched' \in [Trackers -> Nat]
<1> DEFINE r == collector[c]
           t == r.at
           n == fetched[t] + 1
           s == [r EXCEPT !.pc = "fetched", !.raw = raw, !.number = n]
<1>0. /\ collector \in [Collectors -> Collector] /\ fetched \in [Trackers -> Nat]
      /\ applied \in [Trackers -> Nat] /\ r \in Collector
      /\ t \in Trackers /\ Reserved(c, t) /\ n \in Nat
      /\ UNCHANGED <<snapshot, applied>>
  BY DEF TypeOK, Fetch, LeasesSound, ghosts
<1>1. collector' = [collector EXCEPT ![c] = s] /\ fetched' = [fetched EXCEPT ![t] = n]
  BY DEF Fetch
<1>2. fetched' \in [Trackers -> Nat] /\ fetched'[t] = n /\ n > fetched[t]
      /\ \A u \in Trackers : fetched[u] <= fetched'[u]
  BY <1>0, <1>1
<1>3. r = collector[c] /\ t = collector[c].at /\ t = r.at
  OBVIOUS
<1> HIDE DEF n, r, t
<1>4. s \in Collector /\ s.pc = "fetched" /\ s.at = t /\ s.claim = r.claim /\ s.number = n
  BY <1>0, <1>3 DEF Collector
<1> HIDE DEF s
<1>5. /\ collector' \in [Collectors -> Collector] /\ collector'[c] = s
      /\ \A d \in Collectors \ {c} : collector'[d] = collector[d]
  BY <1>0, <1>1, <1>4
<1>6. \A d \in Collectors : collector'[d].claim = collector[d].claim /\ collector'[d].at = collector[d].at
  BY <1>3, <1>4, <1>5
<1>7. \A u \in Trackers : applied'[u] <= fetched'[u]
  BY <1>0, <1>2 DEF LeasesSound
<1>8. \A d \in Collectors, u \in Trackers :
        Reserved(d, u)' => /\ collector'[d].claim.generation <= snapshot'[u].generation
                          /\ \A e \in Collectors \ {d} : collector'[e].claim # collector'[d].claim
  BY <1>0, <1>6 DEF LeasesSound, Reserved
<1>9. ASSUME NEW d \in Collectors
      PROVE  /\ collector'[d].pc \in {"reserved", "fetched"} =>
                  collector'[d].at \in Trackers /\ Reserved(d, collector[d].at)'
             /\ collector'[d].pc = "fetched" =>
                  /\ collector'[d].number <= fetched'[collector'[d].at]
                  /\ Owned(d)' => collector'[d].number > applied'[collector'[d].at]
  <2>1. CASE d = c
    <3>1. collector'[d].at = t /\ collector'[d].number = n /\ Reserved(d, collector[d].at)'
      BY <1>0, <1>3, <1>4, <1>5, <2>1 DEF Reserved
    <3>2. n <= fetched'[t] /\ n > applied'[t]
      BY <1>0, <1>2 DEF LeasesSound
    <3> QED
      BY <1>0, <3>1, <3>2
  <2>2. CASE d # c
    <3>1. collector'[d] = collector[d]
      BY <1>5, <2>2
    <3>2. Owned(d)' <=> Owned(d)
      BY <1>0, <3>1 DEF Owned
    <3>3. collector[d].pc = "fetched" =>
            collector[d].at \in Trackers /\ collector[d].number <= fetched'[collector[d].at]
      <4>1. collector[d].number \in Nat
        BY <1>0 DEF Collector
      <4> QED
        BY <1>0, <1>2, <4>1 DEF LeasesSound
    <3> QED
      BY <1>0, <3>1, <3>2, <3>3 DEF LeasesSound, Reserved
  <2> QED
    BY <2>1, <2>2
<1> QED
  BY <1>2, <1>5, <1>7, <1>8, <1>9 DEF LeasesSound

----------------------------------------------------------------------------
(* Invariance. *)

\* The rest of the types.
Plain ==
    /\ health' \in [Trackers -> {"unknown", "ok", "failed"}]
    /\ runs' \in 0..MaxRuns /\ faults' \in 0..MaxFaults

LEMMA PlainStays == TypeOK /\ [Next]_vars => Plain
<1> SUFFICES ASSUME TypeOK, [Next]_vars PROVE Plain
  OBVIOUS
<1>0. /\ health \in [Trackers -> {"unknown", "ok", "failed"}]
      /\ runs \in 0..MaxRuns /\ faults \in 0..MaxFaults
  BY DEF TypeOK
<1> USE DEF bounds
<1> DEFINE Counts == (runs' = runs \/ (runs < MaxRuns /\ runs' = runs + 1)) /\ (faults' = faults \/ MayFail)
           Reports == \/ health' = health
                      \/ \E t \in Trackers \cup {NoTracker}, outcome \in {"ok", "failed"} :
                           health' = [health EXCEPT ![t] = outcome]
<1>a. ASSUME NEW c \in Collectors, CollectorStep(c) PROVE Counts /\ Reports
  <2>0. collector[c].at \in Trackers \cup {NoTracker}
    BY DEF TypeOK, Collector
  <2>1. CASE Start(c) \/ Finish(c) \/ \E t \in Trackers : Reserve(c, t) \/ ReserveRaises(c, t)
    BY <2>1 DEF Start, Finish, Reserve, ReserveRaises
  <2>2. CASE (\E raw \in Snapshots : Fetch(c, raw)) \/ Raise(c) \/ Discard(c) \/ Crash(c)
    BY <2>2 DEF Fetch, Raise, Discard, Crash
  <2>3. CASE Apply(c)
    BY <2>0, <2>3 DEF Apply
  <2>4. CASE RecordFailure(c)
    BY <2>0, <2>4 DEF RecordFailure
  <2> QED
    BY <1>a, <2>1, <2>2, <2>3, <2>4 DEF CollectorStep
<1>b. Counts /\ Reports
  BY <1>a DEF Next, vars, LeaseLapses, MatchOffer
<1>1. Counts
  BY <1>b
<1>2. Reports
  BY <1>b
<1>3. runs' \in 0..MaxRuns /\ faults' \in 0..MaxFaults
  BY <1>0, <1>1, SourceCollectionAssumption DEF MayFail
<1>4. health' \in [Trackers -> {"unknown", "ok", "failed"}]
  BY <1>0, <1>2
<1> QED
  BY <1>3, <1>4 DEF Plain

(* Steps that leave the catalogue alone. *)
LEMMA CatalogueRests ==
    ASSUME CatalogueSound, MatchShape, UNCHANGED <<catalogue, history>>
    PROVE  CatalogueSound' /\ MatchShape'
BY DEF CatalogueSound, HistorySound, OpenExists, OpenWhileListed, MatchedAsPublished, MatchShape,
       Revision, catalogue

LEMMA ApplyKeeps ==
    ASSUME Inv, Plain, NEW c \in Collectors, Apply(c)
    PROVE  Inv'
<1>0. /\ TypeOK /\ MatchShape /\ CatalogueSound /\ LeasesSound
      /\ collector[c].at \in Trackers /\ collector[c].pc = "fetched" /\ Owned(c)
      /\ collector[c].number \in Nat
  BY DEF Inv, Apply, LeasesSound, TypeOK, Collector
<1>1. /\ source' \in [Offers -> [Trackers -> Source]] /\ offer' \in [Offers -> Offer]
      /\ history'[collector[c].at] \in Seq(SUBSET Offers) /\ Len(history'[collector[c].at]) \in 1..2
      /\ \A u \in Trackers \ {collector[c].at} : history'[u] = history[u]
  BY <1>0, Applied
<1>2. CatalogueSound' /\ MatchShape'
  BY <1>0, HistoryStays, OpenStaysListed, MatchStays DEF CatalogueSound
<1>3. /\ AtRest(c) /\ SameGenerations /\ fetched' = fetched
      /\ applied' = [applied EXCEPT ![collector[c].at] = collector[c].number]
  BY <1>0, ContinueAtRest, ReleaseIsTyped DEF Apply
<1>4. LeasesSound'
  BY <1>0, <1>3, RestKeepsLeases
<1>5. history' \in [Trackers -> Seq(SUBSET Offers)] /\ \A t \in Trackers : Len(history'[t]) \in 0..2
  <2>1. history \in [Trackers -> Seq(SUBSET Offers)] /\ \A t \in Trackers : Len(history[t]) \in 0..2
    BY <1>0 DEF TypeOK
  <2>2. DOMAIN history' = Trackers /\ history' = [t \in Trackers |-> history'[t]]
    BY <2>1 DEF Apply
  <2>3. \A t \in Trackers : history'[t] \in Seq(SUBSET Offers) /\ Len(history'[t]) \in 0..2
    BY <1>1, <2>1
  <2> QED
    BY <2>2, <2>3
<1>6. \A o \in Offers : match'[o].status \in {"absent", "pending", "done"}
  <2>1. match' = [o \in Offers |->
                   IF Changed(o) THEN [match[o] EXCEPT !.status = "pending"] ELSE match[o]]
    BY DEF Apply
  <2>2. \A o \in Offers : /\ match[o].status \in {"absent", "pending", "done"}
                         /\ match[o] = [status |-> match[o].status, seen |-> match[o].seen]
    BY <1>0 DEF TypeOK, MatchShape
  <2> QED
    BY <2>1, <2>2
<1>7. applied' \in [Trackers -> Nat]
  BY <1>0, <1>3 DEF TypeOK
<1> QED
  BY <1>0, <1>1, <1>2, <1>3, <1>4, <1>5, <1>6, <1>7 DEF Inv, TypeOK, Plain, AtRest, SameGenerations

LEMMA MatchKeeps ==
    ASSUME Inv, Plain, NEW o \in Offers, MatchOffer(o)
    PROVE  Inv'
<1>0. /\ TypeOK /\ MatchShape /\ CatalogueSound /\ LeasesSound
      /\ UNCHANGED <<snapshot, health, source, offer, collector, fetched, applied, history>>
      /\ match' = [match EXCEPT ![o] = [status |-> "done", seen |-> Revision(o)]]
  BY DEF Inv, MatchOffer, ghosts
<1>1. /\ match'[o] = [status |-> "done", seen |-> Revision(o)] /\ DOMAIN match' = Offers
      /\ \A p \in Offers \ {o} : match'[p] = match[p]
  BY <1>0 DEF MatchShape
<1>2. \A p \in Offers : Revision(p)' = Revision(p)
  BY <1>0 DEF Revision
<1>3. MatchedAsPublished' /\ MatchShape'
  BY <1>0, <1>1, <1>2 DEF MatchedAsPublished, MatchShape, CatalogueSound
<1>4. HistorySound' /\ OpenExists' /\ OpenWhileListed'
  BY <1>0 DEF CatalogueSound, HistorySound, OpenExists, OpenWhileListed
<1>5. LeasesSound'
  BY <1>0 DEF LeasesSound, Owned, Reserved
<1>6. TypeOK'
  BY <1>0, <1>1 DEF TypeOK, Plain
<1> QED
  BY <1>3, <1>4, <1>5, <1>6 DEF Inv, CatalogueSound

(* A collector that neither reserves nor fetches nor applies. *)
LEMMA RestKeeps ==
    ASSUME Inv, Plain, NEW c \in Collectors, AtRest(c), SameGenerations,
           UNCHANGED <<catalogue, fetched, ghosts>>
    PROVE  Inv'
<1>1. CatalogueSound' /\ MatchShape'
  BY CatalogueRests DEF Inv, ghosts
<1>2. LeasesSound'
  BY RestKeepsLeases DEF Inv, ghosts
<1>3. TypeOK'
  BY DEF Inv, TypeOK, Plain, AtRest, SameGenerations, catalogue, ghosts
<1> QED
  BY <1>1, <1>2, <1>3 DEF Inv

LEMMA FailureRests ==
    ASSUME TypeOK, NEW c \in Collectors, RecordFailure(c)
    PROVE  AtRest(c) /\ SameGenerations
<1>1. AtRest(c)
  BY ContinueAtRest, IdleAtRest DEF RecordFailure
<1>2. SameGenerations
  <2>1. snapshot' = snapshot \/ snapshot' = [snapshot EXCEPT ![collector[c].at].leased = FALSE]
    BY DEF RecordFailure
  <2>2. snapshot' = snapshot => SameGenerations
    BY DEF TypeOK, SameGenerations
  <2> QED
    BY <2>1, <2>2, ReleaseIsTyped
<1> QED
  BY <1>1, <1>2

LEMMA InvStays == Inv /\ [Next]_vars => Inv'
<1> SUFFICES ASSUME Inv, [Next]_vars PROVE Inv'
  OBVIOUS
<1>0. TypeOK /\ LeasesSound /\ CatalogueSound /\ MatchShape /\ Plain
  BY PlainStays DEF Inv
<1>s. snapshot' = snapshot => SameGenerations
  BY <1>0 DEF TypeOK, SameGenerations
<1>1. CASE UNCHANGED vars
  BY <1>0, <1>1, CatalogueRests
     DEF Inv, TypeOK, LeasesSound, Reserved, Owned, vars, ghosts, bounds, catalogue
<1>2. ASSUME NEW c \in Collectors, CollectorStep(c) PROVE Inv'
  <2>1. CASE Start(c)
    BY <1>0, <1>s, <2>1, StartAtRest, RestKeeps DEF Start
  <2>2. CASE Finish(c)
    BY <1>0, <1>s, <2>2, IdleAtRest, RestKeeps DEF Finish
  <2>3. ASSUME NEW t \in Trackers, Reserve(c, t) PROVE Inv'
    <3>1. /\ LeasesSound' /\ collector' \in [Collectors -> Collector]
          /\ snapshot' \in [Trackers -> Lease]
      BY <1>0, <2>3, ReserveKeepsLeases
    <3>2. UNCHANGED <<catalogue, fetched, applied, history>>
      BY <2>3 DEF Reserve, ghosts
    <3>3. CatalogueSound' /\ MatchShape'
      BY <1>0, <3>2, CatalogueRests
    <3> QED
      BY <1>0, <3>1, <3>2, <3>3 DEF Inv, TypeOK, Plain, catalogue
  <2>4. ASSUME NEW t \in Trackers, ReserveRaises(c, t) PROVE Inv'
    <3>1. AtRest(c)
      BY <1>0, <2>4, GoesOnAtRest DEF ReserveRaises
    <3> QED
      BY <1>0, <1>s, <2>4, <3>1, RestKeeps DEF ReserveRaises
  <2>5. ASSUME NEW raw \in Snapshots, Fetch(c, raw) PROVE Inv'
    <3>1. /\ LeasesSound' /\ collector' \in [Collectors -> Collector]
          /\ fetched' \in [Trackers -> Nat]
      BY <1>0, <2>5, FetchKeepsLeases
    <3>2. UNCHANGED <<catalogue, snapshot, applied, history>>
      BY <2>5 DEF Fetch, ghosts
    <3>3. CatalogueSound' /\ MatchShape'
      BY <1>0, <3>2, CatalogueRests
    <3> QED
      BY <1>0, <3>1, <3>2, <3>3 DEF Inv, TypeOK, Plain, catalogue
  <2>6. CASE Raise(c)
    BY <1>0, <1>s, <2>6, RaiseAtRest, RestKeeps DEF Raise
  <2>7. CASE Apply(c)
    BY <1>0, <2>7, ApplyKeeps
  <2>8. CASE Discard(c)
    BY <1>0, <1>s, <2>8, ContinueAtRest, RestKeeps DEF Discard
  <2>9. CASE RecordFailure(c)
    BY <1>0, <2>9, FailureRests, RestKeeps DEF RecordFailure
  <2>10. CASE Crash(c)
    BY <1>0, <1>s, <2>10, IdleAtRest, RestKeeps DEF Crash
  <2> QED
    BY <1>2, <2>1, <2>2, <2>3, <2>4, <2>5, <2>6, <2>7, <2>8, <2>9, <2>10 DEF CollectorStep
<1>3. ASSUME NEW t \in Trackers, LeaseLapses(t) PROVE Inv'
  <2>1. SameGenerations /\ UNCHANGED <<catalogue, collector, fetched, applied, history>>
    BY <1>0, <1>3, ReleaseIsTyped DEF LeaseLapses, ghosts
  <2>2. CatalogueSound' /\ MatchShape'
    BY <1>0, <2>1, CatalogueRests
  <2>3. \A c \in Collectors : collector[c].at \in Trackers => (Owned(c)' <=> Owned(c))
    BY <2>1 DEF Owned, SameGenerations
  <2>4. LeasesSound'
    BY <1>0, <2>1, <2>3 DEF LeasesSound, Reserved, SameGenerations
  <2> QED
    BY <1>0, <2>1, <2>2, <2>4 DEF Inv, TypeOK, Plain, SameGenerations, catalogue
<1> QED
  BY <1>0, <1>1, <1>2, <1>3, MatchKeeps DEF Next

(* The inductive invariant. *)
THEOREM Invariant == Spec => []Inv
  BY InitHolds, InvStays, PTL DEF Spec

(* Every variable has its type. *)
THEOREM TypeCorrect == Spec => []TypeOK
<1>1. Inv => TypeOK
  BY DEF Inv
<1> QED
  BY Invariant, <1>1, PTL

(* A source is closed exactly when two complete snapshots in a row lack the offer. *)
THEOREM ClosesAfterTwoMisses == Spec => []ClosedAfterTwoMisses
<1>1. Inv => ClosedAfterTwoMisses
  <2> SUFFICES ASSUME Inv, NEW o \in Offers, NEW t \in Trackers
               PROVE  source[o][t].open <=> \E i \in 1..Len(history[t]) : o \in history[t][i]
    BY DEF ClosedAfterTwoMisses
  <2> DEFINE s == source[o][t]  h == history[t]
  <2>1. /\ s.open /\ s.missing = 0 <=> Len(h) >= 1 /\ o \in h[1]
        /\ s.open /\ s.missing = 1 <=> Len(h) = 2 /\ o \notin h[1] /\ o \in h[2]
        /\ s \in Source /\ Len(h) \in 0..2
    BY DEF Inv, TypeOK, CatalogueSound, HistorySound
  <2>2. s.open => s.missing \in {0, 1}
    BY <2>1 DEF Source
  <2> HIDE DEF s, h
  <2>3. Len(h) \in {0, 1, 2}
    BY <2>1
  <2>4. (\E i \in 1..Len(h) : o \in h[i]) <=>
          \/ Len(h) >= 1 /\ o \in h[1]
          \/ Len(h) = 2 /\ o \in h[2]
    BY <2>3
  <2>5. s.open <=> \E i \in 1..Len(h) : o \in h[i]
    BY <2>1, <2>2, <2>3, <2>4
  <2> QED
    BY <2>5 DEF s, h
<1> QED
  BY Invariant, <1>1, PTL

(* An offer is open exactly while one of its sources is. *)
THEOREM OpensWhileListed == Spec => []OpenWhileListed
<1>1. Inv => OpenWhileListed
  BY DEF Inv, CatalogueSound
<1> QED
  BY Invariant, <1>1, PTL

(* Matching knows of every change that is not queued for it. *)
THEOREM MatchesAsPublished == Spec => []MatchedAsPublished
<1>1. Inv => MatchedAsPublished
  BY DEF Inv, CatalogueSound
<1> QED
  BY Invariant, <1>1, PTL

(* A collector that was superseded applies nothing and reports nothing. *)
LEMMA Silent ==
    ASSUME Inv, [Next]_vars, NEW t \in Trackers
    PROVE  /\ applied'[t] >= applied[t]
           /\ health'[t] # health[t] => \E c \in Collectors :
             /\ collector[c].at = t /\ collector'[c] # collector[c]
             /\ collector[c].claim \in
                  {[tracker |-> t, generation |-> snapshot[t].generation], NoClaim}
<1>0. /\ TypeOK /\ LeasesSound /\ applied \in [Trackers -> Nat]
      /\ collector \in [Collectors -> Collector]
      /\ health \in [Trackers -> {"unknown", "ok", "failed"}]
  BY DEF Inv, TypeOK
<1>1. CASE UNCHANGED <<applied, health>>
  BY <1>0, <1>1
<1>2. ASSUME NEW c \in Collectors, Apply(c)
      PROVE  /\ applied'[t] >= applied[t]
             /\ health'[t] # health[t] =>
                  /\ collector[c].at = t /\ collector'[c] # collector[c]
                  /\ collector[c].claim = [tracker |-> t, generation |-> snapshot[t].generation]
  <2>1. AtRest(c) /\ collector[c].pc = "fetched"
    BY <1>0, <1>2, ContinueAtRest DEF Apply
  <2>2. collector[c].number > applied[collector[c].at] /\ collector[c].number \in Nat
    BY <1>0, <1>2 DEF Apply, LeasesSound, Collector
  <2>3. applied'[t] >= applied[t]
    BY <1>0, <1>2, <2>2 DEF Apply
  <2>4. health'[t] # health[t] => collector[c].at = t
    BY <1>0, <1>2 DEF Apply
  <2> QED
    BY <1>2, <2>1, <2>3, <2>4 DEF Apply, AtRest, Owned
<1>3. ASSUME NEW c \in Collectors, RecordFailure(c)
      PROVE  /\ applied' = applied
             /\ health'[t] # health[t] =>
                  /\ collector[c].at = t /\ collector'[c] # collector[c]
                  /\ collector[c].claim \in
                       {[tracker |-> t, generation |-> snapshot[t].generation], NoClaim}
  <2>1. \/ health' = health
        \/ Owned(c) /\ health' = [health EXCEPT ![collector[c].at] = "failed"] /\ Continue(c)
        \/ /\ collector[c].claim = NoClaim /\ Continue(c)
           /\ health' = [health EXCEPT ![collector[c].at] = "failed"]
    BY <1>3 DEF RecordFailure
  <2>2. health'[t] # health[t] => collector[c].at = t /\ Continue(c)
    BY <1>0, <2>1
  <2>3. Continue(c) => collector'[c] # collector[c]
    <3>1. collector[c].at \in Trackers \cup {NoTracker} /\ collector[c].claim \in Claims
      BY <1>0 DEF Collector
    <3>2. Continue(c) => collector'[c].pc = "loop"
      BY <1>0, <3>1, GoesOn DEF Continue
    <3> QED
      BY <1>3, <3>2 DEF RecordFailure
  <2> QED
    BY <1>3, <2>1, <2>2, <2>3 DEF RecordFailure, Owned, ghosts
<1>4. \/ UNCHANGED <<applied, health>>
      \/ \E c \in Collectors : Apply(c) \/ RecordFailure(c)
  BY DEF Next, vars, CollectorStep, Start, Finish, Reserve, ReserveRaises, Fetch, Raise, Discard,
         Crash, LeaseLapses, MatchOffer, ghosts
<1> QED
  BY <1>0, <1>1, <1>2, <1>3, <1>4

THEOREM SupersededAreSilent == Spec => SupersededIsSilent
<1>1. Inv /\ [Next]_vars =>
        [\A t \in Trackers :
           /\ applied'[t] >= applied[t]
           /\ health'[t] # health[t] => \E c \in Collectors :
             /\ collector[c].at = t /\ collector'[c] # collector[c]
             /\ collector[c].claim \in
                  {[tracker |-> t, generation |-> snapshot[t].generation], NoClaim}]_vars
  BY Silent
<1> QED
  BY Invariant, <1>1, PTL DEF Spec, SupersededIsSilent
=============================================================================
