-------------------------- MODULE KeyRotationProofs --------------------------
(* Theorems about KeyRotation, for any number of instances and keys and any *)
(* bounds.                                                                  *)
EXTENDS KeyRotation, TLAPS

\* The key a signing under way has read is still published by its instance.
SigningPublished == \A i \in Instances : signing[i] # None => signing[i] \in JWKS(i)

\* A token names no start of its instance that has not been, and since the
\* instance's last start its key is published, expired or not.
SignedPublished ==
    \A t \in tokens :
        /\ t.boot <= boot[t.by]
        /\ t.boot = boot[t.by] => t.kid \in JWKS(t.by)

IInv == TypeOK /\ SigningPublished /\ SignedPublished

-----------------------------------------------------------------------------
\* Every state has the types of the Manager's fields, the secret's and the
\* tokens' (keys.go), whatever the instances and the operator do.
THEOREM TypeCorrect == Spec => []TypeOK
<1>1. Init => TypeOK
  BY DEF Init, TypeOK
<1>2. TypeOK /\ [Next]_vars => TypeOK'
  <2> SUFFICES ASSUME TypeOK, [Next]_vars PROVE TypeOK'
    OBVIOUS
  <2> USE KeysAssumption DEF TypeOK
  <2>1. ASSUME NEW k \in Keys, WriteSecret(k) PROVE TypeOK'
    BY <2>1 DEF WriteSecret
  <2>2. ASSUME NEW i \in Instances, ReadSecret(i) PROVE TypeOK'
    BY <2>2 DEF ReadSecret
  <2>3. ASSUME NEW i \in Instances, MaybeRotate(i) PROVE TypeOK'
    <3>1. [kid |-> active[i], at |-> now] \in Retired
      BY DEF Retired
    <3>2. retired' \in [Instances -> SUBSET Retired]
      BY <2>3, <3>1 DEF MaybeRotate
    <3> QED BY <2>3, <3>2 DEF MaybeRotate
  <2>4. ASSUME NEW i \in Instances, SignReads(i) PROVE TypeOK'
    BY <2>4 DEF SignReads
  <2>5. ASSUME NEW i \in Instances, SignStamps(i) PROVE TypeOK'
    <3>1. [kid |-> signing[i], by |-> i, boot |-> boot[i], exp |-> now + TokenTTL] \in Token
      BY <2>5 DEF SignStamps, Token
    <3>2. tokens' \in SUBSET Token
      BY <2>5, <3>1 DEF SignStamps
    <3> QED BY <2>5, <3>2 DEF SignStamps
  <2>6. ASSUME NEW i \in Instances, Restart(i) PROVE TypeOK'
    BY <2>6 DEF Restart
  <2>7. CASE Tick
    BY <2>7 DEF Tick
  <2>8. CASE UNCHANGED vars
    BY <2>8 DEF vars
  <2> QED BY <2>1, <2>2, <2>3, <2>4, <2>5, <2>6, <2>7, <2>8 DEF Next
<1> QED BY <1>1, <1>2, PTL DEF Spec

-----------------------------------------------------------------------------
\* Neither rotation nor signing takes a key out of an instance's JWKS; only a
\* start of the instance does (Rotate appends to retired and nothing removes).
LEMMA PublishedGrows ==
    ASSUME TypeOK, NEW i \in Instances,
           [Next]_vars, boot'[i] = boot[i]
    PROVE  JWKS(i) \subseteq JWKS(i)'
<1> USE DEF TypeOK
<1>1. ASSUME NEW j \in Instances, MaybeRotate(j) PROVE JWKS(i) \subseteq JWKS(i)'
  <2>1. CASE j = i /\ read[j] # active[j]
    <3>1. active'[i] = read[i]
      BY <1>1, <2>1 DEF MaybeRotate
    <3>2. retired'[i] = retired[i] \cup {[kid |-> active[i], at |-> now]}
      BY <1>1, <2>1 DEF MaybeRotate
    <3>3. [kid |-> active[i], at |-> now] \in retired'[i] /\ retired[i] \subseteq retired'[i]
      BY <3>2
    <3>4. active[i] \in {e.kid : e \in retired'[i]}
      BY <3>3
    <3> QED BY <3>3, <3>4 DEF JWKS
  <2>2. CASE j # i \/ read[j] = active[j]
    BY <1>1, <2>2 DEF MaybeRotate, JWKS
  <2> QED BY <2>1, <2>2
<1>2. ASSUME NEW j \in Instances, Restart(j) PROVE JWKS(i) \subseteq JWKS(i)'
  <2>1. j # i
    BY <1>2 DEF Restart
  <2> QED BY <1>2, <2>1 DEF Restart, JWKS
<1>3. ASSUME UNCHANGED <<active, retired>> PROVE JWKS(i) \subseteq JWKS(i)'
  BY <1>3 DEF JWKS
<1> QED BY <1>1, <1>2, <1>3
        DEF Next, WriteSecret, ReadSecret, SignReads, SignStamps, Tick, vars

\* An instance is started again or it is not; the count never goes back.
LEMMA BootGrows ==
    ASSUME TypeOK, [Next]_vars, NEW i \in Instances
    PROVE  boot[i] <= boot'[i]
BY DEF TypeOK, Next, WriteSecret, ReadSecret, MaybeRotate, SignReads, SignStamps,
       Restart, Tick, vars

\* A signing under way keeps its key, or ends, or has just read the active key.
LEMMA SigningStep ==
    ASSUME TypeOK, [Next]_vars, NEW i \in Instances, signing'[i] # None
    PROVE  /\ boot'[i] = boot[i]
           /\ \/ signing'[i] = signing[i]
              \/ signing'[i] = active[i]
BY DEF TypeOK, Next, WriteSecret, ReadSecret, MaybeRotate, SignReads, SignStamps,
       Restart, Tick, vars

\* A token that was not there is stamped with the key its signing had read, by an
\* instance that is not started again in that step.
LEMMA TokenStep ==
    ASSUME TypeOK, [Next]_vars, NEW t \in tokens', t \notin tokens
    PROVE  /\ t.by \in Instances
           /\ signing[t.by] # None /\ t.kid = signing[t.by]
           /\ t.boot = boot[t.by] /\ boot' = boot
<1>1. PICK i \in Instances : SignStamps(i)
  BY DEF Next, WriteSecret, ReadSecret, MaybeRotate, SignReads, Restart, Tick, vars
<1>2. t = [kid |-> signing[i], by |-> i, boot |-> boot[i], exp |-> now + TokenTTL]
  BY <1>1 DEF SignStamps
<1> QED BY <1>1, <1>2 DEF SignStamps

-----------------------------------------------------------------------------
\* Overlapping rotation, for any number of instances, keys, rotations and starts:
\* an instance verifies every valid token it has signed since its last start, the
\* ones whose key was replaced in the middle of the signing included (SignTyped
\* against MaybeRotate, keys.go).
THEOREM OverlappingRotation == Spec => []SignerVerifies
<1>1. Init => IInv
  BY DEF Init, IInv, TypeOK, SigningPublished, SignedPublished
<1>2. IInv /\ TypeOK' /\ [Next]_vars => IInv'
  <2> SUFFICES ASSUME IInv, TypeOK', [Next]_vars PROVE SigningPublished' /\ SignedPublished'
    BY DEF IInv
  <2> USE DEF IInv
  <2>1. SigningPublished'
    <3> SUFFICES ASSUME NEW i \in Instances, signing'[i] # None
                 PROVE  signing'[i] \in JWKS(i)'
      BY DEF SigningPublished
    <3>1. /\ boot'[i] = boot[i]
          /\ signing'[i] = signing[i] \/ signing'[i] = active[i]
      BY SigningStep
    <3>2. signing'[i] \in JWKS(i)
      BY <3>1 DEF SigningPublished, JWKS
    <3>3. JWKS(i) \subseteq JWKS(i)'
      BY <3>1, PublishedGrows
    <3> QED BY <3>2, <3>3
  <2>2. SignedPublished'
    <3> SUFFICES ASSUME NEW t \in tokens'
                 PROVE  /\ t.boot <= boot'[t.by]
                        /\ t.boot = boot'[t.by] => t.kid \in JWKS(t.by)'
      BY DEF SignedPublished
    <3>0. t.by \in Instances /\ t.boot \in Nat /\ boot[t.by] \in Nat /\ boot'[t.by] \in Nat
      BY DEF TypeOK, Token
    <3>1. CASE t \in tokens
      <4>1. t.boot <= boot[t.by] /\ boot[t.by] <= boot'[t.by]
        BY <3>0, <3>1, BootGrows DEF SignedPublished
      <4>2. ASSUME t.boot = boot'[t.by] PROVE t.kid \in JWKS(t.by)'
        <5>1. boot[t.by] = boot'[t.by] /\ t.boot = boot[t.by]
          BY <3>0, <4>1, <4>2
        <5>2. t.kid \in JWKS(t.by)
          BY <3>1, <5>1 DEF SignedPublished
        <5> QED BY <3>0, <5>1, <5>2, PublishedGrows
      <4> QED BY <3>0, <4>1, <4>2
    <3>2. CASE t \notin tokens
      <4>1. /\ signing[t.by] # None /\ t.kid = signing[t.by]
            /\ t.boot = boot[t.by] /\ boot' = boot
        BY <3>2, TokenStep
      <4>2. t.kid \in JWKS(t.by)
        BY <3>0, <4>1 DEF SigningPublished
      <4>3. JWKS(t.by) \subseteq JWKS(t.by)'
        BY <3>0, <4>1, PublishedGrows
      <4> QED BY <3>0, <4>1, <4>2, <4>3
    <3> QED BY <3>1, <3>2
  <2> QED BY <2>1, <2>2
<1>3. IInv => SignerVerifies
  BY DEF IInv, SignedPublished, SignerVerifies, Verifies
<1> QED BY <1>1, <1>2, <1>3, TypeCorrect, PTL DEF Spec

=============================================================================
