----------------------------- MODULE ProofReplay -----------------------------
(***************************************************************************)
(* The DPoP proof of an issuance hop (verifyEndpointDPoP, routes/dpop.go):  *)
(* a proof is checked against the clock, against the nonce this instance    *)
(* issued and against the proofs every instance has accepted, which the     *)
(* shared cache remembers (ProofReplay, session/replay.go).  The clock is   *)
(* read by dpop.Verify and the cache is asked afterwards, so time passes,   *)
(* and the instances' handlers interleave, between the two.                 *)
(*                                                                          *)
(* Clients, the dpop and the nonce library and the cache are outside the    *)
(* repository: a client signs proofs with a clock of its own, presents one, *)
(* and on any refusal signs another with the last nonce it was given.  The  *)
(* network may deliver a proof again, to any instance.                      *)
(***************************************************************************)
EXTENDS Integers, Sequences

CONSTANTS
    Instances,    \* the instances of the service
    Clients,      \* the clients that ask for a token
    Proofs,       \* the proofs, each for its jti
    Owner,        \* the client whose key signs a proof
    Home,         \* the instance a client's requests reach, None for any
    Calls,        \* the handlers that may run at once
    None,
    NonceEnabled, \* DPOP_NONCE_ENABLED
    MaxAge,       \* DPOP_PROOF_MAX_AGE
    Leeway,       \* TOKEN_CLOCK_SKEW_LEEWAY
    NonceTTL,     \* DPOP_NONCE_TTL
    Ahead,        \* how far a client's clock may run ahead of the service's
    Behind,       \* and behind it
    MaxTime,      \* the bound on the clock
    MaxFaults     \* the bound on outages, lost answers, copies and restarts

\* The age is positive and the leeway may be zero (config.go).  Nothing bounds the
\* clients' clocks, or the time a handler takes between Verify and CheckAndSet.
ASSUME ProofAssumption ==
    /\ Owner \in [Proofs -> Clients]
    /\ Home \in [Clients -> Instances \cup {None}]
    /\ None \notin Instances \cup Proofs
    /\ NonceEnabled \in BOOLEAN
    /\ MaxAge \in Nat \ {0} /\ Leeway \in Nat /\ NonceTTL \in Nat
    /\ Ahead \in Nat /\ Behind \in Nat
    /\ MaxTime \in Nat /\ MaxFaults \in Nat

VARIABLES
    now,       \* the clock
    boot,      \* how often an instance was started again: the nonce key it holds
    proof,     \* the proofs that were signed
    seen,      \* dpop-proofs:{jti}, when the entry expires
    call,      \* the handlers
    held,      \* the nonce a client was given last
    asked,     \* the proof a client waits on
    served,    \* the clients that were answered a token
    accepted,  \* the handlers that accepted a proof, in their order
    faults     \* the faults so far

vars == <<now, boot, proof, seen, call, held, asked, served, accepted, faults>>

Nonces == [by : Instances, boot : Nat, at : Nat]

Signed == [iat : Int, nonce : Nonces \cup {None}]

Never == 0

Idle == [proof |-> None]

\* A handler between Verify and CheckAndSet, which admitted its proof at this time.
Asking == [proof : Proofs, own : BOOLEAN, by : Instances, admitted : Nat]

\* When a handler admitted a proof, and when the cache let it accept.
Acceptance == [admitted : Nat, at : Nat]

TypeOK ==
    /\ now \in Nat
    /\ boot \in [Instances -> Nat]
    /\ proof \in [Proofs -> Signed \cup {None}]
    /\ seen \in [Proofs -> Nat]
    /\ call \in [Calls -> Asking \cup {Idle}]
    /\ held \in [Clients -> Nonces \cup {None}]
    /\ asked \in [Clients -> Proofs \cup {None}]
    /\ served \in SUBSET Clients
    /\ accepted \in [Proofs -> Seq(Acceptance)]
    /\ faults \in Nat

Init ==
    /\ now = 0
    /\ boot = [i \in Instances |-> 0]
    /\ proof = [p \in Proofs |-> None]
    /\ seen = [p \in Proofs |-> Never]
    /\ call = [c \in Calls |-> Idle]
    /\ held = [cl \in Clients |-> None]
    /\ asked = [cl \in Clients |-> None]
    /\ served = {}
    /\ accepted = [p \in Proofs |-> <<>>]
    /\ faults = 0

Fault ==
    /\ faults < MaxFaults
    /\ faults' = faults + 1

\* The proofs a client has left to sign.
Unsigned(cl) == {p \in Proofs : Owner[p] = cl /\ proof[p] = None}

\* A client signs the next proof, at what its clock says, with the nonce it was
\* given last.
Sign(cl, skew) ==
    /\ cl \notin served
    /\ asked[cl] = None
    /\ Unsigned(cl) # {}
    /\ LET p == CHOOSE q \in Unsigned(cl) : TRUE
       IN  /\ proof' = [proof EXCEPT ![p] = [iat |-> now + skew, nonce |-> held[cl]]]
           /\ asked' = [asked EXCEPT ![cl] = p]
    /\ UNCHANGED <<now, boot, seen, call, held, served, accepted, faults>>

\* The client's own request, with the proof it waits on, has not arrived yet.
Waiting(p) ==
    /\ asked[Owner[p]] = p
    /\ \A c \in Calls : call[c] # Idle => ~(call[c].proof = p /\ call[c].own)

\* The proof is delivered to instance i: as the client's own request, or as a
\* copy the network makes of it.
Delivered(p, own, i) ==
    /\ proof[p] # None
    /\ IF own
       THEN Waiting(p) /\ Home[Owner[p]] \in {None, i} /\ UNCHANGED faults
       ELSE Fault

\* dpop.Verify, on iat: not from the future and not too old, each by the Leeway it
\* is handed beside MaxAge.
Timely(p) ==
    /\ proof[p].iat <= now + Leeway
    /\ now <= proof[p].iat + MaxAge + Leeway

\* Mutant: a nonce that is not bound to the key the instance holds.
Issue_NoKey(i) == [by |-> i, at |-> now]

\* nonce.Issue, and its Verify: the instance's own, by the key it holds in memory
\* since it was started, and not expired.
Issue(i) == [by |-> i, boot |-> boot[i], at |-> now]

NonceValid(n, i) ==
    /\ n # None
    /\ n.by = i
    /\ n.boot = boot[i]
    /\ now <= n.at + NonceTTL + Leeway

\* An answer reaches the client that still waits for it; the answer to a copy
\* reaches nobody.
Hears(p, own) == own /\ asked[Owner[p]] = p

Answered(p, own) ==
    asked' = IF Hears(p, own) THEN [asked EXCEPT ![Owner[p]] = None] ELSE asked

\* dpopError: 401 invalid_dpop_proof.
Refuse(p, own, i) ==
    /\ Delivered(p, own, i)
    /\ ~Timely(p)
    /\ Answered(p, own)
    /\ UNCHANGED <<now, boot, proof, seen, call, held, served, accepted>>

\* Mutant: the 401 carries no DPoP-Nonce.
Challenge_NoNonce(p, own, i) ==
    /\ Delivered(p, own, i)
    /\ NonceEnabled
    /\ \/ proof[p].nonce = None
       \/ Timely(p) /\ ~NonceValid(proof[p].nonce, i)
    /\ Answered(p, own)
    /\ UNCHANGED <<now, boot, proof, seen, call, held, served, accepted>>

\* challengeNonce: the proof has no nonce, or none of this instance's: 401
\* use_dpop_nonce, with one to use.
Challenge(p, own, i) ==
    /\ Delivered(p, own, i)
    /\ NonceEnabled
    /\ \/ proof[p].nonce = None
       \/ Timely(p) /\ ~NonceValid(proof[p].nonce, i)
    /\ Answered(p, own)
    /\ held' = IF Hears(p, own) THEN [held EXCEPT ![Owner[p]] = Issue(i)] ELSE held
    /\ UNCHANGED <<now, boot, proof, seen, call, served, accepted>>

\* The proof passes Verify and the nonce; the replay guard is asked next.
Admit(c, p, own, i) ==
    /\ call[c] = Idle
    /\ Delivered(p, own, i)
    /\ Timely(p)
    /\ NonceEnabled => NonceValid(proof[p].nonce, i)
    /\ call' = [call EXCEPT ![c] = [proof |-> p, own |-> own, by |-> i, admitted |-> now]]
    /\ UNCHANGED <<now, boot, proof, seen, held, asked, served, accepted>>

\* The cache entry of a proof, while it lasts.
Held(p) == now < seen[p]

\* The proof of the handler q is accepted, and its request goes on to its grant.
Accept(q) ==
    /\ accepted' = [accepted EXCEPT ![q.proof] =
                      Append(@, [admitted |-> q.admitted, at |-> now])]
    /\ served' = IF Hears(q.proof, q.own) THEN served \cup {Owner[q.proof]} ELSE served

\* Mutant: the entry lives as long as a proof's age only.
CheckAndSet_NoLeeway(c) ==
    /\ call[c] # Idle
    /\ LET p == call[c].proof
       IN  /\ IF Held(p)
              THEN UNCHANGED <<seen, accepted, served>>
              ELSE /\ seen' = [seen EXCEPT ![p] = now + MaxAge]
                   /\ Accept(call[c])
           /\ Answered(p, call[c].own)
    /\ call' = [call EXCEPT ![c] = Idle]
    /\ UNCHANGED <<now, boot, proof, held, faults>>

\* CheckAndSet, one SET .. NX: the first to write the entry is accepted, and any
\* other refused (401 invalid_dpop_proof).
CheckAndSet(c) ==
    /\ call[c] # Idle
    /\ LET p == call[c].proof
       IN  /\ IF Held(p)
              THEN UNCHANGED <<seen, accepted, served>>
              ELSE /\ seen' = [seen EXCEPT ![p] = now + MaxAge + Leeway]
                   /\ Accept(call[c])
           /\ Answered(p, call[c].own)
    /\ call' = [call EXCEPT ![c] = Idle]
    /\ UNCHANGED <<now, boot, proof, held, faults>>

\* The cache does not answer: an error, whether or not the entry was written.
CheckAndSetFails(c) ==
    /\ call[c] # Idle
    /\ Fault
    /\ LET p == call[c].proof
       IN  /\ seen' \in {seen, IF Held(p) THEN seen
                               ELSE [seen EXCEPT ![p] = now + MaxAge + Leeway]}
           /\ Answered(p, call[c].own)
    /\ call' = [call EXCEPT ![c] = Idle]
    /\ UNCHANGED <<now, boot, proof, held, served, accepted>>

\* A client gives up on an answer.
GiveUp(cl) ==
    /\ asked[cl] # None
    /\ Fault
    /\ asked' = [asked EXCEPT ![cl] = None]
    /\ UNCHANGED <<now, boot, proof, seen, call, held, served, accepted>>

\* An instance is started again: its handlers are gone, and so is its nonce key.
Restart(i) ==
    /\ Fault
    /\ boot' = [boot EXCEPT ![i] = @ + 1]
    /\ LET cut == {c \in Calls : call[c] # Idle /\ call[c].by = i}
       IN  /\ call' = [c \in Calls |-> IF c \in cut THEN Idle ELSE call[c]]
           /\ asked' = [cl \in Clients |->
                          IF \E c \in cut : call[c].own /\ call[c].proof = asked[cl] THEN None ELSE asked[cl]]
    /\ UNCHANGED <<now, proof, seen, held, served, accepted>>

Tick ==
    /\ now < MaxTime
    /\ now' = now + 1
    /\ UNCHANGED <<boot, proof, seen, call, held, asked, served, accepted, faults>>

Present(p, own) ==
    \E i \in Instances :
        Refuse(p, own, i) \/ Challenge(p, own, i) \/ \E c \in Calls : Admit(c, p, own, i)

Next ==
    \/ \E cl \in Clients : (\E skew \in -Behind..Ahead : Sign(cl, skew)) \/ GiveUp(cl)
    \/ \E p \in Proofs, own \in BOOLEAN : Present(p, own)
    \/ \E c \in Calls : CheckAndSet(c) \/ CheckAndSetFails(c)
    \/ \E i \in Instances : Restart(i)
    \/ Tick

Spec == Init /\ [][Next]_vars

\* A client goes on asking, its requests arrive and their handlers run on.
FairSpec ==
    /\ Spec
    /\ \A cl \in Clients : WF_vars(\E skew \in -Behind..Ahead : Sign(cl, skew))
    /\ \A p \in Proofs : WF_vars(Present(p, TRUE))
    /\ \A c \in Calls : WF_vars(CheckAndSet(c) \/ CheckAndSetFails(c))

-----------------------------------------------------------------------------
(* What is checked.                                                         *)

\* "one proof is accepted once across every instance" (session/replay.go).
AcceptedOnce == \A p \in Proofs : Len(accepted[p]) <= 1

\* One proof is accepted once for as long as its entry is kept, whichever instances
\* admitted it at once; and afterwards again only if it was signed by a clock ahead of
\* the service's, or if the handler had admitted it before the entry ended and was slow
\* to ask the cache (Verify's MaxAge and Leeway beside the entry's, verifyEndpointDPoP).
AcceptedAgainLate ==
    \A p \in Proofs : \A i, j \in DOMAIN accepted[p] :
        i < j =>
            LET first == accepted[p][i]
                again == accepted[p][j]
                end   == first.at + MaxAge + Leeway
            IN  /\ again.at >= end
                /\ again.admitted <= end \/ proof[p].iat > first.at

\* A client that answers a challenge with the nonce it was given is served, if its
\* requests reach one instance: it needs one proof to be told a nonce, one to use
\* it, and one for each fault and for each expiry in between (Proofs is that many).
Served == \A cl \in Clients : Home[cl] # None => <>(cl \in served)

\* "401 use_dpop_nonce + DPoP-Nonce (first hop only)" (README, sign-in sequence):
\* a nonce this authority gave out, still valid where it was given, is not asked
\* for again.
FirstHopOnly ==
    [][\A p \in Proofs, own \in BOOLEAN, i \in Instances :
          Challenge(p, own, i) => \/ proof[p].nonce = None
                             \/ ~NonceValid(proof[p].nonce, proof[p].nonce.by)]_vars

=============================================================================
