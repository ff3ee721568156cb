------------------------------ MODULE Acquisition ------------------------------
(****************************************************************************)
(* What a collector makes of a tracker's response (trackr_common.py): the   *)
(* response is rejected as a whole, or taken for the complete list of what  *)
(* is open, one offer per canonical address.  Modules SourceCollection and  *)
(* LegacyTasks start from there: an offer that is not in the list is        *)
(* counted missing, and closed the second time.                             *)
(*                                                                          *)
(* A response of the programmes interface is an object or a list; that of   *)
(* the spring weeks is a list.  Descriptions are left out, but for whether  *)
(* they are well formed.                                                    *)
(****************************************************************************)
EXTENDS Integers, Sequences

CONSTANTS
    Today,
    Hosts, Paths, Queries, Fragments, Ids,
    Root,     \* the empty path
    PageUrl,  \* the listing page the tracker is configured with, None if it has none
    Malformed, None

----------------------------------------------------------------------------
(* Addresses. *)

\* An address, in the parts that canonicalisation tells apart: a path and the slashes
\* after it, the query parameters in order and whether there are tracking ones besides.
Address == [scheme   : {"http", "https", "other"},
            host     : Hosts \cup {None},
            plain    : BOOLEAN,   \* without credentials, and the port is a number
            lower    : BOOLEAN,   \* scheme and host are in lower case
            path     : Paths,
            slashes  : Nat,
            query    : Queries,
            tracking : BOOLEAN,
            fragment : Fragments \cup Ids]

\* canonical_offer_url; None is the empty string.
CanonicalOfferUrl(address) ==
    IF address = None THEN None
    ELSE IF address.scheme = "other" \/ address.host = None \/ ~address.plain THEN None
    ELSE [scheme |-> address.scheme, host |-> address.host, plain |-> TRUE, lower |-> TRUE,
          path |-> address.path, slashes |-> IF address.path = Root THEN 1 ELSE 0,
          query |-> address.query, tracking |-> FALSE, fragment |-> address.fragment]

\* A record without an address of its own has a place on the listing page.
Anchor(id) == IF PageUrl = None \/ id = None THEN None ELSE [PageUrl EXCEPT !.fragment = id]

----------------------------------------------------------------------------
(* Responses. *)

\* A date that iso_to_date does not parse is Malformed.
Dates == Int \cup {None, Malformed}

\* "sound": company and categories are of the type they should be.
Programme == [url : Address \cup {None}, id : Ids \cup {None}, named : BOOLEAN,
              opening : Dates, closing : Dates, sound : BOOLEAN]

\* "listed": a bare list, or an object with a list under one of the known keys, which
\* "items" are.  Of an object: some part of it announces more; the totals it declares.
Response == [object : BOOLEAN, listed : BOOLEAN, items : Seq(Programme \cup {Malformed}),
             partial : BOOLEAN, totals : SUBSET Nat]

\* "ended": its status or a flag says it is closed.
SpringWeek == [id : Ids \cup {None}, named : BOOLEAN, ended : BOOLEAN, closing : Dates]

DatesAreOpen(opening, closing) ==
    /\ opening = None \/ opening <= Today
    /\ closing = None \/ closing >= Today

Destination(item) == IF item.url # None THEN item.url ELSE Anchor(item.id)

\* The programmes that have an opening date, of which much is required.
Incomplete(item) ==
    \/ CanonicalOfferUrl(Destination(item)) = None \/ ~item.named
    \/ item.opening = Malformed \/ item.closing = Malformed

IsOpen(item) == item.opening # None /\ DatesAreOpen(item.opening, item.closing)

\* "A paginated or explicitly partial response is not a complete snapshot."
Partial(response) ==
    response.object /\ (response.partial \/ \E n \in response.totals : n > Len(response.items))

ExplicitlyEmpty(response) == response.object /\ response.listed /\ 0 \in response.totals

\* scrape_open_programmes takes the response, or raises an error.
Accepted(response) ==
    /\ ~Partial(response)
    /\ response.items = <<>> => ExplicitlyEmpty(response)
    /\ \A i \in DOMAIN response.items : LET item == response.items[i] IN
         /\ item # Malformed
         /\ item.opening # None => ~Incomplete(item)
         /\ item.opening # None /\ IsOpen(item) => item.sound

\* The offers it returns: the positions in the response, and their addresses.
OpenProgrammes(response) ==
    [i \in {j \in DOMAIN response.items : IsOpen(response.items[j])} |->
       Destination(response.items[i])]

\* _spring_week_offers, of a list.
AcceptedSpringWeeks(items) ==
    \A i \in DOMAIN items : items[i] # Malformed /\ items[i].id # None /\ items[i].named

SpringWeekIsClosed(item) ==
    item.ended \/ (item.closing \notin {None, Malformed} /\ ~DatesAreOpen(None, item.closing))

OpenSpringWeeks(items) ==
    [i \in {j \in DOMAIN items : ~SpringWeekIsClosed(items[j])} |-> Anchor(items[i].id)]

----------------------------------------------------------------------------
(* deduplicate_offers: the first offer of each canonical address. *)

Key(found, i) == CanonicalOfferUrl(found[i])

Deduplicated(found) ==
    {i \in DOMAIN found :
       /\ Key(found, i) # None
       /\ \A j \in DOMAIN found : j < i => Key(found, j) # Key(found, i)}

\* What a collector then holds to be listed.
Listed(found) == {Key(found, i) : i \in Deduplicated(found)}
===============================================================================
