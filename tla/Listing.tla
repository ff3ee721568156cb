-------------------------------- MODULE Listing --------------------------------
(****************************************************************************)
(* Which offers a subscriber is told of, previews and browses.  The same    *)
(* selection is written several times: in Python for one offer              *)
(* (preferences.offer_matches and offer_is_open, asked before an alert or a *)
(* page is queued or sent), in SQL for all of them (matching_query, for the *)
(* matching of a user and the preview), and again in SQL and Python for the *)
(* dashboard (opportunities.browse_database), with filters, an order and    *)
(* pages of twenty.  The theorems of AlertDeliveryProofs are about their    *)
(* agreement.                                                               *)
(*                                                                          *)
(* An offer has source records, or none (an import that was not migrated),  *)
(* and is then its own.  A date is an integer or None.  The text search is  *)
(* left out: it narrows the offers of the user before anything else.        *)
(****************************************************************************)
EXTENDS Integers, Sequences

CONSTANTS
    Today,
    Season,    \* settings.season
    Seasons, Regions, Types, Terms,
    None       \* null

Source == [open : BOOLEAN, season : Seasons,
           region : Regions, type : Types, term : Terms \cup {None},
           opening : Int \cup {None}, closing : Int \cup {None}]

Offer == [open : BOOLEAN, sources : SUBSET Source,
          region : Regions, type : Types, term : Terms \cup {None},
          opening : Int \cup {None}, closing : Int \cup {None}]

Preference == [regions : SUBSET Regions, types : SUBSET Types, terms : SUBSET Terms]

\* Of the dashboard: None, or the one value to show.
Filter == [region : Regions \cup {None}, type : Types \cup {None}, term : Terms \cup {None}]
NoFilter == [region |-> None, type |-> None, term |-> None]

----------------------------------------------------------------------------
(* In Python. *)

DatesAreOpen(s) ==
    /\ s.opening = None \/ s.opening <= Today
    /\ s.closing = None \/ s.closing >= Today

Current(s) == s.open /\ s.season = Season

Suits(s, pref) ==
    /\ s.region \in pref.regions /\ s.type \in pref.types
    /\ s.type # "off-cycle" \/ pref.terms = {} \/ s.term \in pref.terms

OfferMatches(offer, pref) ==
    IF offer.sources = {} THEN Suits(offer, pref) /\ DatesAreOpen(offer)
    ELSE \E s \in offer.sources : Suits(s, pref) /\ Current(s) /\ DatesAreOpen(s)

OfferIsOpen(offer) ==
    /\ offer.open
    /\ IF offer.sources = {} THEN DatesAreOpen(offer)
       ELSE \E s \in offer.sources : Current(s) /\ DatesAreOpen(s)

\* source_open, also of an offer that is its own source: it has no season.
SourceOpen(s) ==
    s.open /\ ("season" \in DOMAIN s => s.season = Season) /\ DatesAreOpen(s)

RelevantSources(offer, pref, history) ==
    {s \in IF offer.sources = {} THEN {offer} ELSE offer.sources :
       history \/ (SourceOpen(s) /\ Suits(s, pref))}

SourceMatches(s, filter) ==
    \A key \in {"region", "type", "term"} : filter[key] = None \/ s[key] = filter[key]

\* The sources a card of the dashboard is made from.
Shown(offer, pref, filter, history) ==
    {s \in RelevantSources(offer, pref, history) : SourceMatches(s, filter)}

Earliest(dates) ==
    IF dates = {} THEN None
    ELSE CHOOSE d \in dates : \A e \in dates : d <= e

\* opportunity_card: its deadline, and whether it says open.
CardDeadline(offer, sources) ==
    Earliest({s.closing : s \in {t \in sources : /\ SourceOpen(t) /\ t.closing # None
                                                 /\ offer.open}})

CardIsOpen(offer, sources) == OfferIsOpen(offer) /\ \E s \in sources : SourceOpen(s)

----------------------------------------------------------------------------
(* In SQL.  A comparison with null holds of nothing. *)

IsOneOf(value, values) == value # None /\ value \in values

Started(m) == m.opening = None \/ (m.opening # None /\ m.opening <= Today)
Ends(m) == m.closing # None /\ m.closing >= Today

\* The predicates both queries share; "terms" adds one if there are any.
InScope(m, pref) ==
    /\ IsOneOf(m.region, pref.regions) /\ IsOneOf(m.type, pref.types)
    /\ Started(m) /\ (m.closing = None \/ Ends(m))
    /\ pref.terms # {} => m.type # "off-cycle" \/ IsOneOf(m.term, pref.terms)

MatchingQuery(offers, pref) ==
    {offer \in offers :
       /\ offer.open
       /\ \/ \E s \in offer.sources : s.season = Season /\ InScope(s, pref) /\ s.open
          \/ offer.sources = {} /\ InScope(offer, pref) /\ offer.open}

Equals(m, filter) ==
    \A key \in {"region", "type", "term"} :
      filter[key] # None => m[key] # None /\ m[key] = filter[key]

SourceScope(s, pref, history) ==
    history \/ (s.open /\ s.season = Season /\ InScope(s, pref))

Selected(s, pref, filter, history) == SourceScope(s, pref, history) /\ Equals(s, filter)

\* browse_database, of the offers matched for the user.
Browse(offers, pref, filter, history) ==
    {offer \in offers :
       /\ history \/ offer.open
       /\ \/ \E s \in offer.sources : Selected(s, pref, filter, history)
          \/ offer.sources = {} /\ (history \/ InScope(offer, pref)) /\ Equals(offer, filter)}

\* The choices the dashboard offers for a filter, the one in force included.
Options(offers, pref, filter, history, key) ==
    {value \in Regions \cup Types \cup Terms :
       \/ value = filter[key]
       \/ \E offer \in offers :
            /\ history \/ offer.open
            /\ \/ \E s \in offer.sources : SourceScope(s, pref, history) /\ s[key] = value
               \/ /\ offer.sources = {} /\ offer[key] = value
                  /\ history \/ InScope(offer, pref)}

\* The key of the order by deadline, nulls last.
SortDeadline(offer, pref, filter, history) ==
    IF offer.sources = {}
      THEN IF offer.open /\ Started(offer) /\ Ends(offer) THEN offer.closing ELSE None
      ELSE Earliest({s.closing : s \in {t \in offer.sources :
             Selected(t, pref, filter, history) /\ Current(t) /\ Started(t) /\ Ends(t)}})

----------------------------------------------------------------------------
(* Pages. *)

PageSize == 20

Pages(total) == LET full == (total + PageSize - 1) \div PageSize IN IF full < 1 THEN 1 ELSE full

\* The page shown for the one asked for.
PageShown(page, total) ==
    LET low == IF page < Pages(total) THEN page ELSE Pages(total) IN IF low < 1 THEN 1 ELSE low

\* OFFSET and LIMIT: the places of the order that a page shows.
OnPage(page, total) == {i \in 1..total : (page - 1) * PageSize < i /\ i <= (page - 1) * PageSize + PageSize}

FirstLabel(page, total) == IF total # 0 THEN (page - 1) * PageSize + 1 ELSE 0
LastLabel(page, total) == IF page * PageSize < total THEN page * PageSize ELSE total
===============================================================================
