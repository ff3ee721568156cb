---------------------------- MODULE MCMatchQueue ----------------------------
(* Instances of MatchQueue for TLC. *)
EXTENDS MatchQueue, TLC

WorkerSymmetry == Permutations(Workers)

\* Tokens are only compared for equality, so states that differ in the names of
\* tokens, or in a token nobody holds any more, are the same state.
TokenView ==
    <<tables, edits, faults,
      [k \in Keys |-> [job[k] EXCEPT !.token =
         {w \in Workers : Running(w) /\ worker[w].token = job[k].token}]],
      [w \in Workers |-> [worker[w] EXCEPT !.token = NoToken]]>>
=============================================================================
