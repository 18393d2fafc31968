-------------------------- MODULE MCBrokeredSignIn --------------------------
(* Small instances of BrokeredSignIn for TLC: the eParaksts profile, which   *)
(* is trusted with codes, signs a person in again when asked and publishes   *)
(* no keys; a directory of an organisation, which states when its people     *)
(* authenticated and answers from its own session whatever it is asked; and  *)
(* the card.                                                                 *)
EXTENDS BrokeredSignIn, TLC

CONSTANTS ann, bob, eParaksts, directory, LV, n1, u1, u2, iss, authority,
          mobile, scan, entra, high, low

MCCode == [h \in People |-> IF h = ann THEN [country |-> LV, digits |-> n1] ELSE None]

MCAccounts == [pv \in Providers |-> IF pv = eParaksts THEN {ann} ELSE People]

\* A handle is unique at its provider only.
MCHandle == [pv \in Providers |->
                [h \in People |-> IF (h = ann) = (pv = eParaksts) THEN u1 ELSE u2]]

\* eParaksts writes bare codes, of its own country; the card names the country;
\* the directory says that everyone is ann.
MCClaim == [w \in Ways |-> [h \in People |->
              IF h # ann /\ w # directory THEN None
              ELSE [country |-> IF w = eParaksts THEN None ELSE LV, digits |-> n1]]]

MCGuests == [pv \in Providers |-> {}]

MCIssuer == [pv \in Providers |-> IF pv = directory THEN iss ELSE None]

MCAuthority == [pv \in Providers |-> authority]

MCCountry == [pv \in Providers |-> IF pv = eParaksts THEN LV ELSE None]

MCWords == {"mobile-eid", "mobileid", "level:low"}

MCEntry(w, l, r, v) == [word |-> w, len |-> l, rank |-> r, value |-> v]

MCMethodPolicy ==
    [pv \in Providers |-> {k \in {MCEntry("mobile-eid", 10, 1, scan), MCEntry("mobileid", 8, 2, mobile)} :
                             pv = eParaksts}]

MCLoAPolicy ==
    [pv \in Providers |-> {k \in {MCEntry("mobile-eid", 10, 2, high), MCEntry("mobileid", 8, 3, high),
                                  MCEntry("level:low", 9, 1, low)} :
                             pv = eParaksts \/ k.word = "level:low"}]

MCSays == [pv \in Providers |->
              IF pv = eParaksts THEN {{"mobileid"}, {"mobile-eid", "mobileid"}} ELSE {{}}]

MCMethodDefault == [pv \in Providers |-> IF pv = eParaksts THEN NoMethod ELSE entra]

MCLoADefault == [pv \in Providers |-> low]

MCMethodsAllowed == [pv \in Providers |-> IF pv = eParaksts THEN {mobile, scan} ELSE {entra}]

MCOffset == [pv \in Providers |-> IF pv = directory THEN -Skew ELSE 0]

MCSymmetry == Permutations(Flows)

MCNamed == {{mobile}, {entra}, {CardMethod}}

MCAsks == [login : {FALSE}, maxAge : {None, 0}] \cup [login : {TRUE}, maxAge : {None}]

=============================================================================
