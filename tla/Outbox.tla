-------------------------------- MODULE Outbox --------------------------------
(****************************************************************************)
(* What the queues of the platform promise of work done by a remote call    *)
(* (alerts, account mail, personal pages, historical tasks).  A worker      *)
(* claims rows, calls without a lock, and records the outcome on the rows   *)
(* it still holds: a row is done only by the worker that holds its claim,   *)
(* and only after that worker's call was accepted.  Anybody may withdraw    *)
(* rows at any time: revocation, a lapsed lease, a new version, a purge.    *)
(****************************************************************************)
CONSTANTS Rows, Workers, Nobody

VARIABLES
    holder,    \* whose claim is on each row
    work,      \* the rows each worker claimed and has not finished with
    answered,  \* the workers whose call was accepted
    done       \* the rows recorded as sent

vars == <<holder, work, answered, done>>

Init ==
    /\ holder = [r \in Rows |-> Nobody]
    /\ work = [w \in Workers |-> {}]
    /\ answered = {} /\ done = {}

Claim(w, S) ==
    /\ work[w] = {} /\ S # {}
    /\ S \cap done = {} /\ \A r \in S : holder[r] = Nobody
    /\ holder' = [r \in Rows |-> IF r \in S THEN w ELSE holder[r]]
    /\ work' = [work EXCEPT ![w] = S]
    /\ UNCHANGED <<answered, done>>

Answer(w) ==
    /\ work[w] # {} /\ w \notin answered
    /\ answered' = answered \cup {w}
    /\ UNCHANGED <<holder, work, done>>

Held(w) == {r \in work[w] : holder[r] = w}

\* The worker records D as done and gives up the claims on S, also those it has
\* lost to another; what it leaves, dying, stays claimed until it is withdrawn.
Finish(w, S, D) ==
    /\ S \subseteq work[w]
    /\ D \subseteq S \cap Held(w) /\ (D # {} => w \in answered)
    /\ done' = done \cup D
    /\ holder' = [r \in Rows |-> IF r \in S THEN Nobody ELSE holder[r]]
    /\ work' = [work EXCEPT ![w] = {}]
    /\ answered' = answered \ {w}

Withdraw(S) ==
    /\ holder' = [r \in Rows |-> IF r \in S THEN Nobody ELSE holder[r]]
    /\ done' = done \ S
    /\ UNCHANGED <<work, answered>>

Next ==
    \/ \E S \in SUBSET Rows : Withdraw(S)
    \/ \E w \in Workers : Answer(w)
    \/ \E w \in Workers, S \in SUBSET Rows : Claim(w, S)
    \/ \E w \in Workers : \E S \in SUBSET work[w] : \E D \in SUBSET S : Finish(w, S, D)

Spec == Init /\ [][Next]_vars
=============================================================================
