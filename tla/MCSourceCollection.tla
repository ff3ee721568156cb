-------------------------- MODULE MCSourceCollection --------------------------
(* Instances of SourceCollection for TLC. *)
EXTENDS SourceCollection, TLC, FiniteSets

Interchangeable ==
    Permutations(Trackers) \cup Permutations(Offers) \cup Permutations(Collectors)

\* Generations matter only in so far as a claim still is the newest one, and the
\* numbers of the fetches only by their order, so states that agree on these are
\* one state for TLC.
ClaimView(c) ==
    LET claim == collector[c].claim IN
    <<claim.tracker,
      IF claim.tracker = NoTracker THEN claim = NoClaim
        ELSE claim.generation = snapshot[claim.tracker].generation>>

Earlier(c) ==
    {d \in Collectors : /\ collector[d].pc = "fetched" /\ collector[d].at = collector[c].at
                        /\ collector[d].number < collector[c].number}

FetchView(c) ==
    IF collector[c].pc = "fetched"
      THEN <<Cardinality(Earlier(c)), collector[c].number > applied[collector[c].at]>>
      ELSE <<0, FALSE>>

OrderView ==
    <<[t \in Trackers |-> snapshot[t].leased], health, catalogue, history, bounds,
      [c \in Collectors |-> <<collector[c].pc, collector[c].todo, collector[c].at,
                              collector[c].raw, ClaimView(c), FetchView(c)>>]>>
=============================================================================
