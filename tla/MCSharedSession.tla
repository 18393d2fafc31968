--------------------------- MODULE MCSharedSession ---------------------------
(* Small instances of SharedSession for TLC.                                *)
EXTENDS SharedSession, TLC

CONSTANTS c1, c2, m1, m2

\* Both methods at the first client, only the first at the second.
MCOffered == (c1 :> Methods) @@ (c2 :> {m1})

\* One method at each client.
MCOneEach == (c1 :> {m1}) @@ (c2 :> {m2})

\* The requests of one handler are interchangeable, and so are the people.
Symmetric ==
    Permutations(SignIns) \cup Permutations(Answers) \cup Permutations(People)

=============================================================================
