---------------------------- MODULE MCLegacyTasks ----------------------------
(* The instance of LegacyTasks for TLC. *)
EXTENDS LegacyTasks

\* Everything on, the recipients missing, and everything off.
SomeSettings ==
    {[email |-> on, notion |-> on, recipients |-> on] : on \in BOOLEAN}
      \cup {[email |-> TRUE, notion |-> TRUE, recipients |-> FALSE]}

\* The selected versions are alike, and so are the others: one of each may be
\* published first.
FirstVersions ==
    {CHOOSE v \in Selected : TRUE} \cup {CHOOSE v \in Versions \ Selected : TRUE}

FirstInit == Init /\ listing \in [Offers -> FirstVersions]
FirstSpec == FirstInit /\ [][Next]_vars /\ Fairness
=============================================================================
