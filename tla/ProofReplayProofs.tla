-------------------------- MODULE ProofReplayProofs --------------------------
(***************************************************************************)
(* Proofs about ProofReplay: its types, and how far apart one proof can be   *)
(* accepted twice, for every number of instances, clients and handlers,     *)
(* every lifetime and every clock.                                          *)
(***************************************************************************)
EXTENDS ProofReplay, TLAPS

-----------------------------------------------------------------------------
(* Types.                                                                   *)

LEMMA AskingTypes ==
    ASSUME TypeOK, NEW c \in Calls, call[c] # Idle
    PROVE  call[c] \in Asking
BY DEF TypeOK

LEMMA FaultType ==
    ASSUME TypeOK, Fault
    PROVE  faults' \in Nat
BY DEF TypeOK, Fault

LEMMA DeliveredType ==
    ASSUME TypeOK, NEW p \in Proofs, NEW own \in BOOLEAN, NEW i \in Instances,
           Delivered(p, own, i)
    PROVE  /\ faults' \in Nat
           /\ proof[p] \in Signed
BY DEF TypeOK, Delivered, Fault

LEMMA AnsweredType ==
    ASSUME TypeOK, NEW p \in Proofs, NEW own \in BOOLEAN, Answered(p, own)
    PROVE  asked' \in [Clients -> Proofs \cup {None}]
BY ProofAssumption DEF TypeOK, Answered

LEMMA IssueType ==
    ASSUME TypeOK, NEW i \in Instances
    PROVE  Issue(i) \in Nonces
BY DEF TypeOK, Issue, Nonces

LEMMA SeenType ==
    ASSUME TypeOK, NEW p \in Proofs,
           seen' = seen \/ seen' = [seen EXCEPT ![p] = now + MaxAge + Leeway]
    PROVE  seen' \in [Proofs -> Nat]
<1>1. seen \in [Proofs -> Nat] /\ now \in Nat
  BY DEF TypeOK
<1>2. now + MaxAge + Leeway \in Nat
  BY <1>1, ProofAssumption
<1> QED
  BY <1>1, <1>2

LEMMA SignType ==
    ASSUME TypeOK, NEW cl \in Clients, NEW skew \in -Behind..Ahead, Sign(cl, skew)
    PROVE  TypeOK'
<1> DEFINE p == CHOOSE q \in Unsigned(cl) : TRUE
           n == [iat |-> now + skew, nonce |-> held[cl]]
<1>1. p \in Proofs
  BY DEF Sign, Unsigned
<1>2. n \in Signed
  BY ProofAssumption DEF TypeOK, Signed
<1>3. proof' = [proof EXCEPT ![p] = n] /\ asked' = [asked EXCEPT ![cl] = p]
  BY DEF Sign
<1> HIDE DEF p, n
<1>4. proof' \in [Proofs -> Signed \cup {None}] /\ asked' \in [Clients -> Proofs \cup {None}]
  BY <1>1, <1>2, <1>3 DEF TypeOK
<1> QED
  BY <1>4 DEF TypeOK, Sign

LEMMA RefuseType ==
    ASSUME TypeOK, NEW p \in Proofs, NEW own \in BOOLEAN, NEW i \in Instances,
           Refuse(p, own, i)
    PROVE  TypeOK'
<1>1. faults' \in Nat
  BY DeliveredType DEF Refuse
<1>2. asked' \in [Clients -> Proofs \cup {None}]
  BY AnsweredType DEF Refuse
<1> QED
  BY <1>1, <1>2 DEF TypeOK, Refuse

LEMMA ChallengeType ==
    ASSUME TypeOK, NEW p \in Proofs, NEW own \in BOOLEAN, NEW i \in Instances,
           Challenge(p, own, i)
    PROVE  TypeOK'
<1>1. faults' \in Nat
  BY DeliveredType DEF Challenge
<1>2. asked' \in [Clients -> Proofs \cup {None}]
  BY AnsweredType DEF Challenge
<1>3. held' \in [Clients -> Nonces \cup {None}]
  BY IssueType, ProofAssumption DEF TypeOK, Challenge
<1> QED
  BY <1>1, <1>2, <1>3 DEF TypeOK, Challenge

LEMMA AdmitType ==
    ASSUME TypeOK, NEW c \in Calls, NEW p \in Proofs, NEW own \in BOOLEAN,
           NEW i \in Instances, Admit(c, p, own, i)
    PROVE  TypeOK'
<1>1. faults' \in Nat
  BY DeliveredType DEF Admit
<1>2. call' \in [Calls -> Asking \cup {Idle}]
  BY DEF TypeOK, Admit, Asking
<1> QED
  BY <1>1, <1>2 DEF TypeOK, Admit

LEMMA CheckAndSetType ==
    ASSUME TypeOK, NEW c \in Calls, CheckAndSet(c)
    PROVE  TypeOK'
<1> DEFINE p == call[c].proof
           own == call[c].own
           a == [admitted |-> call[c].admitted, at |-> now]
<1>1. p \in Proofs /\ own \in BOOLEAN
  BY AskingTypes DEF CheckAndSet, Asking
<1>2. /\ Answered(p, own)
      /\ \/ UNCHANGED <<seen, accepted, served>>
         \/ /\ seen' = [seen EXCEPT ![p] = now + MaxAge + Leeway]
            /\ accepted' = [accepted EXCEPT ![p] = Append(@, a)]
            /\ served' = IF Hears(p, own) THEN served \cup {Owner[p]} ELSE served
  BY DEF CheckAndSet, Accept
<1>3. a \in Acceptance
  BY AskingTypes DEF CheckAndSet, Asking, Acceptance, TypeOK
<1> HIDE DEF p, own, a
<1>4. asked' \in [Clients -> Proofs \cup {None}]
  BY <1>1, <1>2, AnsweredType
<1>5. seen' \in [Proofs -> Nat]
  BY <1>1, <1>2, SeenType
<1>6. accepted' \in [Proofs -> Seq(Acceptance)]
  <2>1. accepted \in [Proofs -> Seq(Acceptance)]
    BY DEF TypeOK
  <2>2. Append(accepted[p], a) \in Seq(Acceptance)
    BY <1>1, <1>3, <2>1
  <2> QED BY <1>1, <1>2, <2>1, <2>2
<1>7. served' \in SUBSET Clients
  BY <1>1, <1>2, ProofAssumption DEF TypeOK
<1>8. call' \in [Calls -> Asking \cup {Idle}]
  BY DEF TypeOK, CheckAndSet
<1> QED
  BY <1>4, <1>5, <1>6, <1>7, <1>8 DEF TypeOK, CheckAndSet

LEMMA CheckAndSetFailsType ==
    ASSUME TypeOK, NEW c \in Calls, CheckAndSetFails(c)
    PROVE  TypeOK'
<1> DEFINE p == call[c].proof
           own == call[c].own
<1>1. p \in Proofs /\ own \in BOOLEAN
  BY AskingTypes DEF CheckAndSetFails, Asking
<1>2. /\ Answered(p, own)
      /\ seen' = seen \/ seen' = [seen EXCEPT ![p] = now + MaxAge + Leeway]
  BY DEF CheckAndSetFails
<1> HIDE DEF p, own
<1>3. asked' \in [Clients -> Proofs \cup {None}]
  BY <1>1, <1>2, AnsweredType
<1>4. seen' \in [Proofs -> Nat]
  BY <1>1, <1>2, SeenType
<1>5. faults' \in Nat
  BY FaultType DEF CheckAndSetFails
<1>6. call' \in [Calls -> Asking \cup {Idle}]
  BY DEF TypeOK, CheckAndSetFails
<1> QED
  BY <1>3, <1>4, <1>5, <1>6 DEF TypeOK, CheckAndSetFails

LEMMA RestartType ==
    ASSUME TypeOK, NEW i \in Instances, Restart(i)
    PROVE  TypeOK'
<1>1. boot' \in [Instances -> Nat]
  BY DEF TypeOK, Restart
<1>2. call' \in [Calls -> Asking \cup {Idle}]
  BY DEF TypeOK, Restart
<1>3. asked' \in [Clients -> Proofs \cup {None}]
  BY DEF TypeOK, Restart
<1>4. faults' \in Nat
  BY FaultType DEF Restart
<1> QED
  BY <1>1, <1>2, <1>3, <1>4 DEF TypeOK, Restart

LEMMA GiveUpType ==
    ASSUME TypeOK, NEW cl \in Clients, GiveUp(cl)
    PROVE  TypeOK'
BY FaultType DEF TypeOK, GiveUp

LEMMA TickType ==
    ASSUME TypeOK, Tick
    PROVE  TypeOK'
BY DEF TypeOK, Tick

LEMMA TypeInit == Init => TypeOK
BY DEF Init, TypeOK, Never

LEMMA TypeStep == TypeOK /\ [Next]_vars => TypeOK'
<1> SUFFICES ASSUME TypeOK, [Next]_vars
             PROVE  TypeOK'
  OBVIOUS
<1>1. ASSUME NEW cl \in Clients, (\E skew \in -Behind..Ahead : Sign(cl, skew)) \/ GiveUp(cl)
      PROVE  TypeOK'
  BY <1>1, SignType, GiveUpType
<1>2. ASSUME NEW p \in Proofs, NEW own \in BOOLEAN, Present(p, own)
      PROVE  TypeOK'
  BY <1>2, RefuseType, ChallengeType, AdmitType DEF Present
<1>3. ASSUME NEW c \in Calls, CheckAndSet(c) \/ CheckAndSetFails(c)
      PROVE  TypeOK'
  BY <1>3, CheckAndSetType, CheckAndSetFailsType
<1>4. CASE UNCHANGED vars
  BY <1>4 DEF TypeOK, vars
<1> QED
  BY <1>1, <1>2, <1>3, <1>4, RestartType, TickType DEF Next

\* Every variable keeps its type, whatever the bounds.
THEOREM TypeCorrect == Spec => []TypeOK
<1>1. Init => TypeOK
  BY TypeInit
<1>2. TypeOK /\ [Next]_vars => TypeOK'
  BY TypeStep
<1> QED
  BY <1>1, <1>2, PTL DEF Spec

-----------------------------------------------------------------------------
(* Acceptances.                                                             *)

\* An entry is kept for the age and the leeway.
Kept == MaxAge + Leeway

\* A handler between Verify and CheckAndSet admitted a signed proof while it was timely.
AdmittedInTime ==
    \A c \in Calls : call[c] # Idle =>
        LET p == call[c].proof
        IN  proof[p] # None /\ call[c].admitted <= proof[p].iat + Kept

\* Every acceptance was admitted in time, and the entry outlasts it by Kept.
Remembered ==
    \A p \in Proofs : \A i \in DOMAIN accepted[p] :
        /\ proof[p] # None
        /\ accepted[p][i].admitted <= proof[p].iat + Kept
        /\ accepted[p][i].at + Kept <= seen[p]

\* Of two acceptances the later follows the end of the earlier one's entry.
Apart ==
    \A p \in Proofs : \A i, j \in DOMAIN accepted[p] :
        i < j => accepted[p][j].at >= accepted[p][i].at + Kept

IInv == TypeOK /\ AdmittedInTime /\ Remembered /\ Apart

\* What a step that signs nothing, accepts nothing and admits nothing keeps.
LEMMA Quiet ==
    ASSUME IInv, UNCHANGED <<proof, accepted>>, seen' \in [Proofs -> Nat],
           \A p \in Proofs : seen'[p] >= seen[p],
           \A c \in Calls : call'[c] \in {call[c], Idle}
    PROVE  AdmittedInTime' /\ Remembered' /\ Apart'
<1>1. AdmittedInTime'
  BY DEF IInv, AdmittedInTime
<1>2. Remembered'
  <2>1. ASSUME NEW p \in Proofs, NEW i \in DOMAIN accepted[p]
        PROVE  accepted[p][i].at + Kept <= seen'[p]
    <3>1. accepted[p][i].at + Kept <= seen[p] /\ seen'[p] >= seen[p]
      BY DEF IInv, Remembered
    <3>2. accepted[p] \in Seq(Acceptance) /\ seen[p] \in Nat /\ seen' \in [Proofs -> Nat]
      BY DEF IInv, TypeOK
    <3>3. accepted[p][i] \in Acceptance
      BY <3>2
    <3>4. accepted[p][i].at \in Nat /\ Kept \in Nat
      BY <3>3, ProofAssumption DEF Acceptance, Kept
    <3> QED BY <3>1, <3>2, <3>4
  <2> QED BY <2>1 DEF IInv, Remembered
<1>3. Apart'
  BY DEF IInv, Apart
<1> QED BY <1>1, <1>2, <1>3

LEMMA SignKeeps ==
    ASSUME IInv, NEW cl \in Clients, NEW skew \in -Behind..Ahead, Sign(cl, skew)
    PROVE  AdmittedInTime' /\ Remembered' /\ Apart'
<1> DEFINE p == CHOOSE q \in Unsigned(cl) : TRUE
           n == [iat |-> now + skew, nonce |-> held[cl]]
<1>1. p \in Proofs /\ proof[p] = None
  BY DEF Sign, Unsigned
<1>2. /\ proof' = [proof EXCEPT ![p] = n]
      /\ UNCHANGED <<seen, call, accepted>>
  BY DEF Sign
<1> HIDE DEF p, n
<1>3. \A q \in Proofs : proof[q] # None => proof'[q] = proof[q]
  BY <1>1, <1>2 DEF IInv, TypeOK
<1>4. AdmittedInTime'
  BY <1>2, <1>3, AskingTypes DEF IInv, AdmittedInTime, Asking
<1>5. Remembered'
  BY <1>2, <1>3 DEF IInv, Remembered
<1>6. Apart'
  BY <1>2 DEF IInv, Apart
<1> QED BY <1>4, <1>5, <1>6

LEMMA AdmitKeeps ==
    ASSUME IInv, NEW c \in Calls, NEW p \in Proofs, NEW own \in BOOLEAN,
           NEW i \in Instances, Admit(c, p, own, i)
    PROVE  AdmittedInTime' /\ Remembered' /\ Apart'
<1> DEFINE n == [proof |-> p, own |-> own, by |-> i, admitted |-> now]
<1>1. /\ call' = [call EXCEPT ![c] = n]
      /\ UNCHANGED <<now, proof, seen, accepted>>
      /\ proof[p] # None
      /\ now <= proof[p].iat + MaxAge + Leeway
  BY DEF Admit, Delivered, Timely
<1>2. proof[p].iat \in Int /\ now \in Nat
  BY <1>1 DEF IInv, TypeOK, Signed
<1>3. n.proof = p /\ n.admitted = now
  OBVIOUS
<1> HIDE DEF n
<1>4. now <= proof[p].iat + Kept
  BY <1>1, <1>2, ProofAssumption DEF Kept
<1>5. AdmittedInTime'
  BY <1>1, <1>3, <1>4 DEF IInv, TypeOK, AdmittedInTime
<1> QED BY <1>1, <1>5 DEF IInv, Remembered, Apart

LEMMA CheckAndSetKeeps ==
    ASSUME IInv, NEW c \in Calls, CheckAndSet(c)
    PROVE  AdmittedInTime' /\ Remembered' /\ Apart'
<1> DEFINE p == call[c].proof
           a == [admitted |-> call[c].admitted, at |-> now]
<1>1. call[c] \in Asking
  BY AskingTypes DEF IInv, CheckAndSet
<1>2. /\ p \in Proofs /\ proof[p] # None
      /\ a.at = now /\ a.admitted <= proof[p].iat + Kept
  BY <1>1 DEF IInv, AdmittedInTime, CheckAndSet, Asking
<1>3. /\ UNCHANGED <<now, proof>>
      /\ call' = [call EXCEPT ![c] = Idle]
      /\ \/ UNCHANGED <<seen, accepted>>
         \/ /\ ~Held(p)
            /\ seen' = [seen EXCEPT ![p] = now + MaxAge + Leeway]
            /\ accepted' = [accepted EXCEPT ![p] = Append(@, a)]
  BY DEF CheckAndSet, Accept
<1>4. /\ now \in Nat /\ seen \in [Proofs -> Nat] /\ accepted \in [Proofs -> Seq(Acceptance)]
      /\ call \in [Calls -> Asking \cup {Idle}] /\ Kept \in Nat
  BY ProofAssumption DEF IInv, TypeOK, Kept
<1>5. \A d \in Calls : call'[d] \in {call[d], Idle}
  BY <1>3, <1>4
<1> HIDE DEF p, a
<1>6. CASE UNCHANGED <<seen, accepted>>
  BY <1>3, <1>4, <1>5, <1>6, Quiet
<1>7. CASE /\ ~Held(p)
           /\ seen' = [seen EXCEPT ![p] = now + MaxAge + Leeway]
           /\ accepted' = [accepted EXCEPT ![p] = Append(@, a)]
  <2> DEFINE s == accepted[p]
  <2>1. s \in Seq(Acceptance) /\ seen[p] <= now /\ seen'[p] = now + Kept
    BY <1>2, <1>4, <1>7, ProofAssumption DEF Held, Kept
  <2>2. /\ \A q \in Proofs \ {p} : accepted'[q] = accepted[q] /\ seen'[q] = seen[q]
        /\ accepted'[p] = Append(s, a)
    BY <1>2, <1>4, <1>7
  <2>3. /\ DOMAIN Append(s, a) = 1..(Len(s) + 1) /\ DOMAIN s = 1..Len(s) /\ Len(s) \in Nat
        /\ \A i \in DOMAIN s : Append(s, a)[i] = s[i] /\ s[i] \in Acceptance
        /\ Append(s, a)[Len(s) + 1] = a
    BY <2>1
  <2>4. \A i \in DOMAIN s : s[i].at + Kept <= now /\ s[i].at \in Nat
    <3>1. \A i \in DOMAIN s : s[i].at + Kept <= seen[p]
      BY <1>2 DEF IInv, Remembered
    <3> QED BY <1>2, <1>4, <2>1, <2>3, <3>1 DEF Acceptance
  <2> HIDE DEF s
  <2>5. AdmittedInTime'
    BY <1>3, <1>5 DEF IInv, AdmittedInTime
  <2>6. Remembered'
    <3>1. ASSUME NEW i \in DOMAIN Append(s, a)
          PROVE  /\ Append(s, a)[i].admitted <= proof[p].iat + Kept
                 /\ Append(s, a)[i].at + Kept <= seen'[p]
      <4>1. CASE i \in DOMAIN s
        <5>1. s[i].admitted <= proof[p].iat + Kept
          BY <1>2, <4>1 DEF IInv, Remembered, s
        <5> QED BY <1>4, <2>1, <2>3, <2>4, <4>1, <5>1
      <4>2. CASE i = Len(s) + 1
        BY <1>2, <1>4, <2>1, <2>3, <4>2
      <4> QED BY <2>3, <3>1, <4>1, <4>2
    <3> QED BY <1>2, <1>3, <2>2, <3>1 DEF IInv, Remembered
  <2>7. Apart'
    <3>1. ASSUME NEW i \in DOMAIN Append(s, a), NEW j \in DOMAIN Append(s, a), i < j
          PROVE  Append(s, a)[j].at >= Append(s, a)[i].at + Kept
      <4>1. i \in DOMAIN s
        BY <2>3, <3>1
      <4>2. CASE j \in DOMAIN s
        BY <1>2, <2>3, <3>1, <4>1, <4>2 DEF IInv, Apart, s
      <4>3. CASE j = Len(s) + 1
        BY <1>2, <2>3, <2>4, <4>1, <4>3
      <4> QED BY <2>3, <3>1, <4>2, <4>3
    <3> QED BY <1>2, <2>2, <3>1 DEF IInv, Apart
  <2> QED BY <2>5, <2>6, <2>7
<1> QED BY <1>3, <1>6, <1>7

LEMMA CheckAndSetFailsKeeps ==
    ASSUME IInv, NEW c \in Calls, CheckAndSetFails(c)
    PROVE  AdmittedInTime' /\ Remembered' /\ Apart'
<1> DEFINE p == call[c].proof
<1>1. p \in Proofs
  BY AskingTypes DEF IInv, CheckAndSetFails, Asking
<1>2. /\ UNCHANGED <<proof, accepted>>
      /\ call' = [call EXCEPT ![c] = Idle]
      /\ seen' = seen \/ (~Held(p) /\ seen' = [seen EXCEPT ![p] = now + MaxAge + Leeway])
  BY DEF CheckAndSetFails
<1> HIDE DEF p
<1>3. seen \in [Proofs -> Nat] /\ now \in Nat /\ seen' \in [Proofs -> Nat]
  BY <1>1, <1>2, SeenType DEF IInv, TypeOK
<1>4. \A q \in Proofs : seen'[q] >= seen[q]
  BY <1>1, <1>2, <1>3, ProofAssumption DEF Held
<1>5. \A d \in Calls : call'[d] \in {call[d], Idle}
  BY <1>2 DEF IInv, TypeOK
<1> QED BY <1>2, <1>3, <1>4, <1>5, Quiet

\* The store is as it was.
LEMMA SeenSame ==
    ASSUME IInv, seen' = seen
    PROVE  seen' \in [Proofs -> Nat] /\ \A p \in Proofs : seen'[p] >= seen[p]
BY DEF IInv, TypeOK

LEMMA RestartKeeps ==
    ASSUME IInv, NEW i \in Instances, Restart(i)
    PROVE  AdmittedInTime' /\ Remembered' /\ Apart'
<1>1. \A c \in Calls : call'[c] \in {call[c], Idle}
  BY DEF Restart
<1> QED BY <1>1, SeenSame, Quiet DEF Restart

LEMMA IInvInit == Init => IInv
<1> SUFFICES ASSUME Init PROVE IInv
  OBVIOUS
<1>1. \A p \in Proofs : DOMAIN accepted[p] = {}
  BY DEF Init
<1> QED BY <1>1, TypeInit DEF Init, IInv, AdmittedInTime, Remembered, Apart

LEMMA IInvStep == IInv /\ [Next]_vars => IInv'
<1> SUFFICES ASSUME IInv, [Next]_vars
             PROVE  AdmittedInTime' /\ Remembered' /\ Apart'
  BY TypeStep DEF IInv
<1> DEFINE Goal == AdmittedInTime' /\ Remembered' /\ Apart'
<1>1. ASSUME NEW cl \in Clients, (\E skew \in -Behind..Ahead : Sign(cl, skew)) \/ GiveUp(cl)
      PROVE  Goal
  <2>1. CASE GiveUp(cl)
    BY <2>1, SeenSame, Quiet DEF GiveUp
  <2> QED BY <1>1, <2>1, SignKeeps
<1>2. ASSUME NEW p \in Proofs, NEW own \in BOOLEAN, Present(p, own)
      PROVE  Goal
  <2>1. ASSUME NEW i \in Instances, Refuse(p, own, i) \/ Challenge(p, own, i)
        PROVE  Goal
    BY <2>1, SeenSame, Quiet DEF Refuse, Challenge
  <2> QED BY <1>2, <2>1, AdmitKeeps DEF Present
<1>3. ASSUME NEW c \in Calls, CheckAndSet(c) \/ CheckAndSetFails(c)
      PROVE  Goal
  BY <1>3, CheckAndSetKeeps, CheckAndSetFailsKeeps
<1>4. CASE Tick \/ UNCHANGED vars
  BY <1>4, SeenSame, Quiet DEF Tick, vars
<1> QED BY <1>1, <1>2, <1>3, <1>4, RestartKeeps DEF Next

\* One proof is accepted once while its entry is kept, by however many instances at
\* once, and afterwards only by a handler that had admitted it before or by a clock
\* that ran ahead when it was signed: for any lifetimes, clocks, copies, outages and
\* restarts, and however slow the handlers are (verifyEndpointDPoP, CheckAndSet).
THEOREM AcceptedAgain == Spec => []AcceptedAgainLate
<1>1. IInv => AcceptedAgainLate
  <2> SUFFICES ASSUME IInv, NEW p \in Proofs, NEW i \in DOMAIN accepted[p],
                      NEW j \in DOMAIN accepted[p], i < j
               PROVE  LET first == accepted[p][i]
                          again == accepted[p][j]
                          end   == first.at + MaxAge + Leeway
                      IN  /\ again.at >= end
                          /\ again.admitted <= end \/ proof[p].iat > first.at
    BY DEF AcceptedAgainLate
  <2> DEFINE first == accepted[p][i]
             again == accepted[p][j]
  <2>1. accepted[p] \in Seq(Acceptance)
    BY DEF IInv, TypeOK
  <2>2. first \in Acceptance /\ again \in Acceptance
    BY <2>1
  <2>3. first.at \in Nat /\ again.at \in Nat /\ again.admitted \in Nat
    BY <2>2 DEF Acceptance
  <2>4. proof[p] # None /\ again.admitted <= proof[p].iat + Kept /\ again.at >= first.at + Kept
    BY DEF IInv, Remembered, Apart
  <2>5. proof[p].iat \in Int
    BY <2>4 DEF IInv, TypeOK, Signed
  <2> HIDE DEF first, again
  <2>6. /\ again.at >= first.at + MaxAge + Leeway
        /\ again.admitted <= first.at + MaxAge + Leeway \/ proof[p].iat > first.at
    BY <2>3, <2>4, <2>5, ProofAssumption DEF Kept
  <2> QED BY <2>6 DEF first, again
<1> QED
  BY <1>1, IInvInit, IInvStep, PTL DEF Spec

=============================================================================
