----------------------------- MODULE KeyRotation -----------------------------
(***************************************************************************)
(* The token-signing keys (keys/keys.go) of the running instances, each     *)
(* with a Manager of its own in memory, and the reloader that polls the     *)
(* secret store and rotates (startSigningKeyRotation, app.go).  A key       *)
(* stands for its kid, the thumbprint of the public key; a token is what    *)
(* Sign stamps and a verifier needs of it.                                  *)
(***************************************************************************)
EXTENDS Integers, FiniteSets

CONSTANTS
    Instances,    \* the instances of the service
    Keys,         \* the signing keys an operator may put in the secret store
    None,
    TokenTTL,     \* the lifetime of a token, in ticks
    MaxTime,      \* the bound on the clock
    MaxRestarts,  \* the bound on the starts of an instance after its first
    MaxTokens     \* the bound on the tokens signed

ASSUME KeysAssumption ==
    /\ None \notin Keys
    /\ TokenTTL \in Nat \ {0}
    /\ MaxTime \in Nat
    /\ MaxRestarts \in Nat
    /\ MaxTokens \in Nat

VARIABLES
    now,       \* the clock
    secret,    \* TOKEN_SIGNING_KEY as the secret store holds it
    active,    \* Manager.active, by instance
    retired,   \* Manager.retired, with when each was retired
    read,      \* the secret the reloader has read, before it rotates
    boot,      \* how often the instance was started again
    signing,   \* the key a signing under way has read
    tokens     \* the tokens signed

vars == <<now, secret, active, retired, read, boot, signing, tokens>>

Retired == [kid : Keys, at : Nat]

Token == [kid : Keys, by : Instances, boot : Nat, exp : Nat]

TypeOK ==
    /\ now \in Nat
    /\ secret \in Keys
    /\ active \in [Instances -> Keys]
    /\ retired \in [Instances -> SUBSET Retired]
    /\ read \in [Instances -> Keys \cup {None}]
    /\ boot \in [Instances -> Nat]
    /\ signing \in [Instances -> Keys \cup {None}]
    /\ tokens \in SUBSET Token

\* The keys of an instance's JWKS, and those PublicKeyByKID answers.
JWKS(i) == {active[i]} \cup {e.kid : e \in retired[i]}

\* Every instance has started with the key the secret store holds.
Init ==
    /\ now = 0
    /\ secret \in Keys
    /\ active = [i \in Instances |-> secret]
    /\ retired = [i \in Instances |-> {}]
    /\ read = [i \in Instances |-> None]
    /\ boot = [i \in Instances |-> 0]
    /\ signing = [i \in Instances |-> None]
    /\ tokens = {}

\* An operator stores another key.
WriteSecret(k) ==
    /\ secret' = k
    /\ UNCHANGED <<now, active, retired, read, boot, signing, tokens>>

\* The reloader, on a tick, reads the secret.  (One that cannot be read, or is
\* empty, is left for the next tick.)
ReadSecret(i) ==
    /\ read[i] = None
    /\ read' = [read EXCEPT ![i] = secret]
    /\ UNCHANGED <<now, secret, active, retired, boot, signing, tokens>>

\* Mutants: only the last key is retained; a key once held is not taken again.
MaybeRotate_KeepsOne(i) ==
    /\ read[i] # None
    /\ read' = [read EXCEPT ![i] = None]
    /\ active' = [active EXCEPT ![i] = read[i]]
    /\ retired' = IF read[i] = active[i] THEN retired
                  ELSE [retired EXCEPT ![i] = {[kid |-> active[i], at |-> now]}]
    /\ UNCHANGED <<now, secret, boot, signing, tokens>>

MaybeRotate_NeverBack(i) ==
    /\ read[i] # None
    /\ read' = [read EXCEPT ![i] = None]
    /\ IF read[i] \in JWKS(i)
       THEN UNCHANGED <<active, retired>>
       ELSE /\ active' = [active EXCEPT ![i] = read[i]]
            /\ retired' = [retired EXCEPT ![i] = @ \cup {[kid |-> active[i], at |-> now]}]
    /\ UNCHANGED <<now, secret, boot, signing, tokens>>

\* MaybeRotate, with the key the reloader read: an unchanged key is left alone;
\* another becomes active, and the one before it joins the retired ones.
MaybeRotate(i) ==
    /\ read[i] # None
    /\ read' = [read EXCEPT ![i] = None]
    /\ IF read[i] = active[i]
       THEN UNCHANGED <<active, retired>>
       ELSE /\ active' = [active EXCEPT ![i] = read[i]]
            /\ retired' = [retired EXCEPT ![i] = @ \cup {[kid |-> active[i], at |-> now]}]
    /\ UNCHANGED <<now, secret, boot, signing, tokens>>

\* SignTyped, first half: the active key is read under the lock,
SignReads(i) ==
    /\ signing[i] = None
    /\ signing' = [signing EXCEPT ![i] = active[i]]
    /\ UNCHANGED <<now, secret, active, retired, read, boot, tokens>>

\* and the token is signed with it after the unlock, under its kid.
SignStamps(i) ==
    /\ signing[i] # None
    /\ Cardinality(tokens) < MaxTokens
    /\ tokens' = tokens \cup {[kid |-> signing[i], by |-> i, boot |-> boot[i],
                               exp |-> now + TokenTTL]}
    /\ signing' = [signing EXCEPT ![i] = None]
    /\ UNCHANGED <<now, secret, active, retired, read, boot>>

\* The instance is started again: New, with the key the secret store holds.
Restart(i) ==
    /\ boot[i] < MaxRestarts
    /\ boot' = [boot EXCEPT ![i] = @ + 1]
    /\ active' = [active EXCEPT ![i] = secret]
    /\ retired' = [retired EXCEPT ![i] = {}]
    /\ read' = [read EXCEPT ![i] = None]
    /\ signing' = [signing EXCEPT ![i] = None]
    /\ UNCHANGED <<now, secret, tokens>>

Tick ==
    /\ now < MaxTime
    /\ now' = now + 1
    /\ UNCHANGED <<secret, active, retired, read, boot, signing, tokens>>

Next ==
    \/ \E k \in Keys : WriteSecret(k)
    \/ \E i \in Instances :
          ReadSecret(i) \/ MaybeRotate(i) \/ SignReads(i) \/ SignStamps(i) \/ Restart(i)
    \/ Tick

Spec == Init /\ [][Next]_vars

\* The reloader's ticker goes on firing.
FairSpec ==
    Spec /\ \A i \in Instances : WF_vars(ReadSecret(i)) /\ WF_vars(MaybeRotate(i))

-----------------------------------------------------------------------------
(* What is checked.                                                         *)

\* A verifier with the JWKS of instance i can check token t.
Verifies(i, t) == now < t.exp => t.kid \in JWKS(i)

\* Overlapping rotation: the instance that signed a token verifies it however
\* often it rotated since, and in the middle of the signing, until it is started
\* again (MaybeRotate keeps the key it replaces).
SignerVerifies ==
    \A t \in tokens : t.boot = boot[t.by] => Verifies(t.by, t)

\* "Verifiers (including this service verifying a token-exchange subject token)
\* never see a gap" (README, Keys): every instance verifies every valid token.
NoGap == \A t \in tokens, i \in Instances : Verifies(i, t)

\* "Retains the previous one in the JWKS until tokens signed under it expire";
\* "active + retired-within-window" (README, Keys): a retired key is dropped once
\* every token it can have signed has expired.
RetiredWithinWindow ==
    \A i \in Instances : \A e \in retired[i] :
        (\E t \in tokens : t.kid = e.kid /\ now < t.exp) \/ now <= e.at + TokenTTL

\* Once the secret no longer changes every instance comes to sign with it, from
\* whatever keys it held before, one it had retired included.
Converges ==
    \A i \in Instances, k \in Keys : <>[](secret = k) => <>[](active[i] = k)

=============================================================================
