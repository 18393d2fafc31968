---------------------------- MODULE MCSignInFlow ----------------------------
(* Small instances of SignInFlow for TLC.                                   *)
EXTENDS SignInFlow, TLC

CONSTANTS c2, scan, directory, u1, u2

\* The directory's provider offers it alone; the first provider offers the rest.
MCProviderOf == [m \in Methods \ {Card} |-> IF m = directory THEN u2 ELSE u1]

\* The second client takes the card only.
MCOffered == [c \in Clients |-> IF c = c2 THEN {Card} ELSE Methods]

\* Browsers, tabs and returns are interchangeable, and so are the two providers, each
\* with its one way.
Swap == (scan :> directory) @@ (directory :> scan) @@ (u1 :> u2) @@ (u2 :> u1)

Symmetric == Permutations(Browsers) \cup Permutations(Tabs) \cup Permutations(Returns) \cup {Swap}

=============================================================================
