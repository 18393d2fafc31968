--------------------------- MODULE MCAppConnection ---------------------------
(* Small instances of AppConnection for TLC.                                *)
EXTENDS AppConnection, TLC

\* The requests of one handler are interchangeable, and so are the sessions.
Symmetric ==
    Permutations(Sessions) \cup Permutations(Choices) \cup Permutations(Connects)
        \cup Permutations(Refreshes)

=============================================================================
