----------------------- MODULE BrokeredSignInProofs -----------------------
(* Proofs about BrokeredSignIn, for any people, providers and vocabularies:  *)
(* its types, that two people never have one subject, that a person is found *)
(* again, and that a sign-in is as fresh as its request asked for.           *)
EXTENDS BrokeredSignIn, FiniteSetTheorems, WellFoundedInduction, TLAPS

-----------------------------------------------------------------------------
(* The inductive invariant.                                                 *)

\* The credential of the person h at the provider pv.
Credential(pv, h) == <<CredentialProvider(pv), Handle[pv][h]>>

\* Entries that keep a person under one credential read that person's code alike.
\* A set of one entry does; of two entries of one provider, either both are trusted
\* with codes or neither is.
AlikeTrusted ==
    \A p, q \in Providers : \A h \in People :
        Credential(p, h) = Credential(q, h) => (CodeRead(p, h) <=> CodeRead(q, h))

\* What the way t.by finds the person t.who by is kept for the subject x.
Settled(x, t) ==
    IF t.by \in Providers /\ ~CodeRead(t.by, t.who)
    THEN /\ Credential(t.by, t.who) \in DOMAIN credential
         /\ credential[Credential(t.by, t.who)] = x
    ELSE persons[x] = Code[t.who] /\ Code[t.who] # None

\* The subject x with the code c is the person o[x] who authenticated in t.
Of(o, x, c, t) ==
    /\ x \in DOMAIN persons /\ o[x] = t.who
    /\ c # None => persons[x] = c
    /\ AlikeTrusted => Settled(x, t)

\* o is the person each subject was made for: of everything stored, what happened
\* for a subject happened for that person.
Owner(o) ==
    /\ o \in [DOMAIN persons -> People]
    /\ \A x \in DOMAIN persons : persons[x] # None => persons[x] = Code[o[x]]
    /\ \A pv \in Providers, h \in People :
          Credential(pv, h) \in DOMAIN credential => o[credential[Credential(pv, h)]] = h
    /\ \A f \in Flows : flow[f].pc = "mapped" =>
          Of(o, flow[f].subject, flow[f].id.code, flow[f].true)
    /\ \A b \in Browsers : shared[b] # None => \A m \in Methods : shared[b].ways[m] # None =>
          Of(o, shared[b].subject, shared[b].code, shared[b].ways[m].true)
    /\ \A s \in signed : Of(o, s.subject, s.code, s.true)
    /\ \A r \in registered :
          r.subject \in DOMAIN persons /\ o[r.subject] = r.who
          /\ persons[r.subject] = Code[r.who] /\ Code[r.who] # None

\* Subjects are numbered as they are made, and a code has one.
Numbered == \E k \in Nat : DOMAIN persons = 1..k

OneOfCode ==
    \A x, y \in DOMAIN persons : persons[x] # None /\ persons[x] = persons[y] => x = y

\* A request is sent to a way that may answer it.
SentOK(f) ==
    flow[f].pc \in {"sent", "returned", "mapped"} =>
        /\ flow[f].req.way \in ProviderOf(flow[f].req.methods)
        /\ Epoch <= flow[f].req.started /\ flow[f].req.started <= now

\* The provider signed the person in after it was asked, where it does as asked;
\* the answer is the one it gave, or was crossed where a token can tell.
ReturnedOK(f) ==
    LET r == flow[f].req
        t == flow[f].true
        a == flow[f].answer
    IN  flow[f].pc = "returned" =>
        /\ t.by = r.way /\ Epoch <= t.at /\ t.at <= now /\ Epoch <= a.time
        /\ r.way = Card => t.at >= r.started /\ Code[t.who] # None
        /\ r.way \in Honours /\ ForcedLogin(r.ask) => t.at >= r.started
        /\ r.way \notin Keyed => a.info = t.who

\* An answer that says it is for f is the one given for f.
AnswerOK(f) ==
    flow[f].pc = "returned" =>
        LET n == flow[f].answer.nonce IN
        /\ flow[n].pc \notin {"idle", "sent"}
        /\ flow[n].pc = "returned" => /\ flow[f].answer.token = flow[n].true.who
                                      /\ flow[f].answer.time = flow[n].true.at

\* The moment kept for a sign-in is no later than its bound.
MomentOK(at, t) == at # Unknown => at - t.at <= Late(t.by)

MappedOK(f) ==
    LET c == flow[f] IN
    c.pc = "mapped" =>
        /\ c.true.by = c.req.way /\ Epoch <= c.true.at
        /\ c.checked <= now /\ now <= c.checked + Stall /\ c.checked < c.req.started + FlowTTL
        /\ c.req.way = Card => c.true.at >= c.req.started
        /\ MomentOK(c.authTime, c.true)
        /\ ForcedLogin(c.req.ask) => c.true.at >= c.req.started - Early(c.true.by)
        /\ c.req.ask.maxAge # None =>
              c.checked - c.true.at <= c.req.ask.maxAge + Late(c.true.by)

WaysOK(b) ==
    shared[b] # None => \A m \in Methods : shared[b].ways[m] # None =>
        MomentOK(shared[b].ways[m].authTime, shared[b].ways[m].true)

Inv ==
    /\ TypeOK
    /\ Epoch <= now
    /\ \A b \in Browsers, pv \in Providers :
          sso[b][pv] # None => Epoch <= sso[b][pv].at /\ sso[b][pv].at <= now
    /\ Numbered
    /\ OneOfCode
    /\ \E o \in [DOMAIN persons -> People] : Owner(o)
    /\ \A f \in Flows : SentOK(f) /\ ReturnedOK(f) /\ AnswerOK(f) /\ MappedOK(f)
    /\ \A b \in Browsers : WaysOK(b)
    /\ FreshAsAsked

-----------------------------------------------------------------------------
(* The vocabularies: the first word of a finite one always exists.          *)

\* A nonempty set of numbers has a least one.
LEMMA Least ==
    ASSUME NEW S, S \subseteq Nat, S # {}
    PROVE  \E n \in S : \A m \in S : n <= m
<1> DEFINE R == {ss \in Nat \X Nat : ss[1] < ss[2]}
<1>1. IsWellFoundedOn(R, Nat)
  BY NatLessThanWellFounded DEF OpToRel
<1> HIDE DEF R
<1>2. PICK n \in S : \A m \in S : <<m, n>> \notin R
  BY <1>1, WFMin
<1>3. ASSUME NEW m \in S PROVE n <= m
  <2>1. m \in Nat /\ n \in Nat
    OBVIOUS
  <2>2. m < n => <<m, n>> \in R
    BY <2>1 DEF R
  <2> QED BY <1>2, <2>1, <2>2
<1> QED BY <1>3

LEMMA FirstWord ==
    ASSUME NEW V, NEW P, P \subseteq Entries(V), IsFiniteSet(P), NEW F, F \subseteq P, F # {}
    PROVE  \E k \in F : \A o \in F : Before(k, o)
<1> DEFINE T(k) == {o \in F : ~Before(k, o)}
           N == {Cardinality(T(k)) : k \in F}
<1>1. \A k \in F : k.len \in Nat /\ k.rank \in Nat
  BY DEF Entries
<1>2. \A k \in F : IsFiniteSet(T(k)) /\ Cardinality(T(k)) \in Nat
  <2> TAKE k \in F
  <2>1. T(k) \in SUBSET P
    OBVIOUS
  <2> HIDE DEF T
  <2> QED BY <2>1, FS_Subset, FS_CardinalityType
<1>3. PICK k \in F : \A o \in F : Cardinality(T(k)) <= Cardinality(T(o))
  <2> HIDE DEF T
  <2>1. N \subseteq Nat /\ N # {}
    BY <1>2
  <2>2. PICK n \in N : \A m \in N : n <= m
    <3> HIDE DEF N
    <3> QED BY <2>1, Least
  <2> QED BY <2>2
<1>4. SUFFICES ASSUME NEW o \in F, ~Before(k, o) PROVE FALSE
  OBVIOUS
<1>5. T(o) \subseteq T(k) /\ o \in T(k) /\ o \notin T(o)
  BY <1>1, <1>4 DEF Before
<1> HIDE DEF T
<1>6. Cardinality(T(o)) <= Cardinality(T(k)) /\ Cardinality(T(o)) # Cardinality(T(k))
  BY <1>2, <1>5, FS_Subset
<1> QED BY <1>2, <1>3, <1>6

\* matchPolicy answers a level.
LEMMA LevelMatched ==
    ASSUME NEW pv \in Providers, NEW said
    PROVE  Match(LoAPolicy[pv], LoADefault[pv], said) \in Levels
<1> DEFINE found == {k \in LoAPolicy[pv] : k.word \in said}
<1>1. /\ LoAPolicy[pv] \subseteq Entries(Levels) /\ IsFiniteSet(LoAPolicy[pv])
      /\ LoADefault[pv] \in Levels
  BY ProviderAssumption
<1>2. CASE found = {}
  BY <1>1, <1>2 DEF Match
<1>3. CASE found # {}
  <2>1. found \subseteq LoAPolicy[pv]
    OBVIOUS
  <2> HIDE DEF found
  <2>2. \E k \in found : \A o \in found : Before(k, o)
    BY <1>1, <1>3, <2>1, FirstWord
  <2>3. (CHOOSE k \in found : \A o \in found : Before(k, o)) \in LoAPolicy[pv]
    BY <2>1, <2>2
  <2>4. (CHOOSE k \in found : \A o \in found : Before(k, o)).value \in Levels
    BY <1>1, <2>3 DEF Entries
  <2> QED BY <1>3, <2>4 DEF Match, found
<1> QED BY <1>2, <1>3

-----------------------------------------------------------------------------
(* Codes and credentials.                                                   *)

\* A code that is read is the person's own, however it is spelled.
LEMMA CodeIsOwn ==
    ASSUME NEW pv \in Providers, NEW h \in People, IdentityCodeKept(pv, h)
    PROVE  /\ CodeRead(pv, h) => SerialNumber(pv, h) = Code[h] /\ Code[h] \in Codes
                                 /\ Code[h] # None
           /\ ~CodeRead(pv, h) => SerialNumber(pv, h) = None
<1>1. CASE CodeRead(pv, h)
  <2>1. /\ Truthful(Claim[pv][h], Country[pv], h) /\ Claim[pv][h] # None
        /\ CountryOf(Claim[pv][h], Country[pv]) # None
    BY <1>1, PeopleAssumption DEF CodeRead, IdentityCodeKept
  <2>2. /\ Code[h] # None /\ Claim[pv][h].digits = Code[h].digits
        /\ CountryOf(Claim[pv][h], Country[pv]) = Code[h].country
    BY <2>1 DEF Truthful, CountryOf
  <2>3. Code[h] \in Codes
    BY <2>2, PeopleAssumption
  <2> QED BY <1>1, <2>2, <2>3 DEF SerialNumber, Canonical, Codes
<1>2. CASE ~CodeRead(pv, h)
  BY <1>2 DEF SerialNumber
<1> QED BY <1>1, <1>2

LEMMA CardCode ==
    ASSUME NEW h \in People, Code[h] # None
    PROVE  /\ Code[h] \in Codes
           /\ WebEIDIdentity(h).code = Code[h] /\ WebEIDIdentity(h).handle = Code[h]
           /\ WebEIDIdentity(h) \in Identity
<1>1. Code[h] \in Codes /\ Truthful(Claim[Card][h], Code[h].country, h) /\ Claim[Card][h] # None
  BY PeopleAssumption
<1>2. /\ Claim[Card][h].digits = Code[h].digits
      /\ CountryOf(Claim[Card][h], Code[h].country) = Code[h].country
  BY <1>1 DEF Truthful, CountryOf
<1>3. Canonical(Claim[Card][h], Code[h].country) = Code[h]
  BY <1>1, <1>2 DEF Canonical, Codes
<1> QED BY <1>1, <1>3, ProviderAssumption DEF WebEIDIdentity, Identity

LEMMA TypedCode ==
    ASSUME NEW h \in ToRegister, NEW typed \in Claims, Truthful(typed, None, h),
           CountryOf(typed, None) # None
    PROVE  /\ h \in People /\ Code[h] \in Codes /\ Code[h] # None
           /\ Canonical(typed, None) = Code[h]
<1>1. h \in People /\ Code[h] # None /\ Code[h] \in Codes
  BY PeopleAssumption
<1>2. typed # None
  BY ProviderAssumption
<1>3. typed.digits = Code[h].digits /\ CountryOf(typed, None) = Code[h].country
  BY <1>2 DEF Truthful, CountryOf
<1> QED BY <1>1, <1>3 DEF Canonical, Codes

\* A code and a credential are one person's.
LEMMA OneOfEach ==
    ASSUME NEW g \in People, NEW h \in People
    PROVE  /\ Code[g] = Code[h] /\ Code[g] # None => g = h
           /\ \A p, q \in Providers : Credential(p, g) = Credential(q, h) => g = h
<1>1. \A p \in Providers : Identifier(p) \in Names /\ None \notin Names
  BY ProviderAssumption DEF Identifier
<1>2. \A p \in Providers : p # Card
  BY ProviderAssumption
<1>3. Holder \in Providers
  BY ProviderAssumption
<1>4. \A p, q \in Providers :
         CredentialProvider(p) = CredentialProvider(q) => Identifier(p) = Identifier(q)
  BY <1>1, <1>2, <1>3 DEF CredentialProvider
<1>5. \A p, q \in Providers : Credential(p, g) = Credential(q, h) =>
         Identifier(p) = Identifier(q) /\ Handle[p][g] = Handle[q][h]
  BY <1>4 DEF Credential
<1> QED BY <1>5, PeopleAssumption

LEMMA CardApart ==
    ASSUME NEW pv \in Providers, NEW h, NEW x
    PROVE  Credential(pv, h) # <<CredentialProvider(Card), x>>
<1>1. Identifier(pv) \in Names /\ pv # Card /\ Card \notin Names /\ Card # None
  BY ProviderAssumption DEF Identifier, Ways
<1>2. CredentialProvider(Card) = Card
  BY ProviderAssumption DEF CredentialProvider
<1>3. Identifier(pv) = Identifier(Holder) => CredentialProvider(pv) = None
  BY <1>1 DEF CredentialProvider
<1>4. Identifier(pv) # Identifier(Holder) => CredentialProvider(pv) = Identifier(pv)
  BY <1>1 DEF CredentialProvider
<1>5. CredentialProvider(pv) \in {None, Identifier(pv)}
  BY <1>3, <1>4
<1>6. CredentialProvider(pv) # Card
  BY <1>1, <1>5
<1> QED BY <1>2, <1>6 DEF Credential

-----------------------------------------------------------------------------
(* The identity store.                                                      *)

\* What a step that keeps the person s with the code does, where s is the one found
\* for the code, or for the credential when there is no code, or a new one.
Found(code, cred, s) ==
    /\ DOMAIN persons' = DOMAIN persons \cup {s} /\ s \in Nat
    /\ \A x \in DOMAIN persons : persons'[x] = persons[x]
    /\ \A x \in DOMAIN persons' : persons'[x] \in Codes \cup {None}
    /\ s \notin DOMAIN persons => persons'[s] = code
    /\ code # None => persons'[s] = code
    /\ s \in DOMAIN persons /\ code = None => cred \in DOMAIN credential /\ s = credential[cred]
    /\ code = None /\ cred \in DOMAIN credential => s = credential[cred]
    /\ Numbered' /\ OneOfCode'

LEMMA PersonKept ==
    ASSUME Inv, NEW code \in Codes \cup {None}, NEW cred, NEW s,
           s = PersonOf(code, cred), Keep(s, code)
    PROVE  Found(code, cred, s)
<1> USE DEF Found
<1> DEFINE known == {x \in DOMAIN persons : persons[x] = code}
<1>1. PICK k \in Nat : DOMAIN persons = 1..k
  BY DEF Inv, Numbered
<1>2. Cardinality(DOMAIN persons) = k
  BY <1>1, FS_Interval
<1>3. /\ persons' = [i \in DOMAIN persons \cup {s} |->
                        IF i \in DOMAIN persons THEN persons[i] ELSE code]
      /\ \A x \in DOMAIN persons : persons[x] \in Codes \cup {None}
      /\ \A c \in DOMAIN credential : credential[c] \in DOMAIN persons
  BY DEF Keep, Inv, TypeOK
<1>4. /\ DOMAIN persons' = DOMAIN persons \cup {s}
      /\ \A x \in DOMAIN persons : persons'[x] = persons[x]
      /\ s \notin DOMAIN persons => persons'[s] = code
      /\ \A x \in DOMAIN persons' : persons'[x] \in Codes \cup {None}
  BY <1>3
<1>5. CASE code # None /\ known # {}
  <2>1. s = CHOOSE x \in known : TRUE
    BY <1>5 DEF PersonOf
  <2>2. s \in known
    BY <1>5, <2>1
  <2>3. s \in DOMAIN persons /\ persons[s] = code
    BY <2>2
  <2>4. Numbered'
    BY <1>4, <2>3 DEF Inv, Numbered
  <2>5. OneOfCode'
    BY <1>4, <2>3 DEF Inv, OneOfCode
  <2> QED BY <1>1, <1>4, <1>5, <2>3, <2>4, <2>5
<1>6. CASE code = None /\ cred \in DOMAIN credential
  <2>1. s = credential[cred] /\ s \in DOMAIN persons
    BY <1>3, <1>6 DEF PersonOf
  <2>2. Numbered'
    BY <1>4, <2>1 DEF Inv, Numbered
  <2>3. OneOfCode'
    BY <1>4, <2>1 DEF Inv, OneOfCode
  <2> QED BY <1>1, <1>4, <1>6, <2>1, <2>2, <2>3
<1>7. CASE ~(code # None /\ known # {}) /\ ~(code = None /\ cred \in DOMAIN credential)
  <2>1. s = k + 1 /\ s \notin DOMAIN persons
    BY <1>1, <1>2, <1>7 DEF PersonOf
  <2>2. DOMAIN persons' = 1..(k + 1)
    BY <1>1, <1>4, <2>1
  <2>3. Numbered'
    BY <2>2 DEF Numbered
  <2>4. code # None => \A x \in DOMAIN persons : persons[x] # code
    BY <1>7
  <2>5. OneOfCode'
    BY <1>4, <2>1, <2>4 DEF Inv, OneOfCode
  <2> QED BY <1>4, <1>7, <2>1, <2>3, <2>5
<1> QED BY <1>5, <1>6, <1>7

\* A step finds the subject s for the person who, or makes it: no other subject and
\* nobody else's credential changes, and q is who every subject then is.
Grows(o, s, who, q) ==
    /\ s \in DOMAIN persons => o[s] = who
    /\ DOMAIN persons' = DOMAIN persons \cup {s}
    /\ \A x \in DOMAIN persons : persons'[x] = persons[x]
    /\ s \notin DOMAIN persons /\ persons'[s] # None => persons'[s] = Code[who]
    /\ \A pv \in Providers, h \in People : Credential(pv, h) \in DOMAIN credential' =>
          \/ /\ Credential(pv, h) \in DOMAIN credential
             /\ credential'[Credential(pv, h)] = credential[Credential(pv, h)]
          \/ h = who /\ credential'[Credential(pv, h)] = s
    /\ AlikeTrusted => \A pv \in Providers, h \in People :
          ~CodeRead(pv, h) /\ Credential(pv, h) \in DOMAIN credential =>
             /\ Credential(pv, h) \in DOMAIN credential'
             /\ credential'[Credential(pv, h)] = credential[Credential(pv, h)]
    /\ q = [i \in DOMAIN persons \cup {s} |-> IF i \in DOMAIN persons THEN o[i] ELSE who]

\* Everything that was found for a person is found for them still.
LEMMA OwnerGrows ==
    ASSUME Inv, NEW o \in [DOMAIN persons -> People], Owner(o), NEW s, NEW who \in People,
           NEW q, Grows(o, s, who, q)
    PROVE  /\ q \in [DOMAIN persons' -> People] /\ q[s] = who
           /\ \A x \in DOMAIN persons : q[x] = o[x]
           /\ \A x \in DOMAIN persons' : persons'[x] # None => persons'[x] = Code[q[x]]
           /\ \A pv \in Providers, h \in People :
                 Credential(pv, h) \in DOMAIN credential' =>
                    q[credential'[Credential(pv, h)]] = h
           /\ \A x, c, t : t.who \in People /\ Of(o, x, c, t) => Of(q, x, c, t)'
<1> USE DEF Grows
<1>1. q \in [DOMAIN persons' -> People] /\ q[s] = who /\ \A x \in DOMAIN persons : q[x] = o[x]
  OBVIOUS
<1>2. /\ \A x \in DOMAIN persons : persons[x] # None => persons[x] = Code[o[x]]
      /\ \A pv \in Providers, h \in People :
            Credential(pv, h) \in DOMAIN credential => o[credential[Credential(pv, h)]] = h
      /\ \A c \in DOMAIN credential : credential[c] \in DOMAIN persons
  BY DEF Owner, Inv, TypeOK
<1>3. \A x \in DOMAIN persons' : persons'[x] # None => persons'[x] = Code[q[x]]
  BY <1>1, <1>2
<1>4. \A pv \in Providers, h \in People :
         Credential(pv, h) \in DOMAIN credential' => q[credential'[Credential(pv, h)]] = h
  BY <1>1, <1>2
<1>5. ASSUME NEW x, NEW c, NEW t, t.who \in People, Of(o, x, c, t)
      PROVE  Of(q, x, c, t)'
  <2>1. /\ x \in DOMAIN persons /\ o[x] = t.who /\ (c # None => persons[x] = c)
        /\ AlikeTrusted => Settled(x, t)
    BY <1>5 DEF Of
  <2>2. x \in DOMAIN persons' /\ q[x] = t.who /\ (c # None => persons'[x] = c)
    BY <1>1, <2>1
  <2>3. ASSUME AlikeTrusted PROVE Settled(x, t)'
    <3>1. CASE t.by \in Providers /\ ~CodeRead(t.by, t.who)
      <4>1. /\ Credential(t.by, t.who) \in DOMAIN credential
            /\ credential[Credential(t.by, t.who)] = x
        BY <2>1, <2>3, <3>1 DEF Settled
      <4>2. /\ Credential(t.by, t.who) \in DOMAIN credential'
            /\ credential'[Credential(t.by, t.who)] = x
        BY <1>5, <2>3, <3>1, <4>1
      <4> QED BY <3>1, <4>2 DEF Settled
    <3>2. CASE ~(t.by \in Providers /\ ~CodeRead(t.by, t.who))
      BY <2>1, <2>3, <3>2 DEF Settled
    <3> QED BY <3>1, <3>2
  <2> QED BY <2>2, <2>3 DEF Of
<1> QED BY <1>1, <1>3, <1>4, <1>5

-----------------------------------------------------------------------------
(* The flows.                                                               *)

LEMMA Kinds ==
    ASSUME Inv, NEW f \in Flows
    PROVE  /\ flow \in [Flows -> Flow] /\ flow[f] \in Flow
           /\ flow[f].pc = "sent" => flow[f] \in [pc : {"sent"}, req : Request]
           /\ flow[f].pc = "returned" =>
                 flow[f] \in [pc : {"returned"}, req : Request, true : True, answer : Answer]
           /\ flow[f].pc = "mapped" =>
                 flow[f] \in [pc : {"mapped"}, req : Request, true : True, id : Identity,
                              authTime : Nat, checked : Nat, subject : Nat]
           /\ flow[f].pc \in {"sent", "returned", "mapped"} => flow[f].req \in Request
<1>1. flow \in [Flows -> Flow] /\ flow[f] \in Flow
  BY DEF Inv, TypeOK
<1>2. /\ flow[f].pc = "sent" => flow[f] \in [pc : {"sent"}, req : Request]
      /\ flow[f].pc = "returned" =>
            flow[f] \in [pc : {"returned"}, req : Request, true : True, answer : Answer]
      /\ flow[f].pc = "mapped" =>
            flow[f] \in [pc : {"mapped"}, req : Request, true : True, id : Identity,
                         authTime : Nat, checked : Nat, subject : Nat]
  BY <1>1 DEF Flow, Idle, Over
<1> QED BY <1>1, <1>2

LEMMA Times ==
    ASSUME Inv
    PROVE  /\ now \in Nat /\ Epoch \in Nat /\ Skew \in Nat /\ Stall \in Nat /\ FlowTTL \in Nat
           /\ SessionTTL \in Nat /\ Epoch > Skew /\ Epoch <= now
           /\ \A pv \in Providers : /\ Offset[pv] \in Int
                                    /\ -Skew <= Offset[pv] /\ Offset[pv] <= Skew
BY TimeAssumption DEF Inv, TypeOK

\* The flow f becomes x.
LEMMA FlowSet ==
    ASSUME Inv, NEW f \in Flows, NEW x \in Flow, flow' = [flow EXCEPT ![f] = x]
    PROVE  /\ flow' \in [Flows -> Flow] /\ flow'[f] = x
           /\ \A g \in Flows : g # f => flow'[g] = flow[g]
BY Kinds

\* The other flows are as right as they were.
LEMMA OthersStay ==
    ASSUME Inv, NEW f \in Flows, \A g \in Flows : g # f => flow'[g] = flow[g],
           UNCHANGED now,
           \/ flow[f].pc \in {"idle", "sent"}
           \/ /\ flow'[f].pc \notin {"idle", "sent"}
              /\ flow'[f].pc = "returned" => /\ flow[f].pc = "returned"
                                             /\ flow'[f].true = flow[f].true,
           NEW g \in Flows, g # f
    PROVE  SentOK(g)' /\ ReturnedOK(g)' /\ AnswerOK(g)' /\ MappedOK(g)'
<1>1. SentOK(g) /\ ReturnedOK(g) /\ AnswerOK(g) /\ MappedOK(g)
  BY DEF Inv
<1>2. SentOK(g)' /\ ReturnedOK(g)' /\ MappedOK(g)'
  BY <1>1 DEF SentOK, ReturnedOK, MappedOK
<1>3. AnswerOK(g)'
  <2> SUFFICES ASSUME flow[g].pc = "returned" PROVE AnswerOK(g)'
    BY DEF AnswerOK
  <2>1. flow'[g] = flow[g]
    OBVIOUS
  <2>2. PICK n \in Flows : n = flow[g].answer.nonce
    BY Kinds DEF Answer
  <2>3. /\ flow[n].pc \notin {"idle", "sent"}
        /\ flow[n].pc = "returned" => /\ flow[g].answer.token = flow[n].true.who
                                      /\ flow[g].answer.time = flow[n].true.at
    BY <1>1, <2>2 DEF AnswerOK
  <2>4. flow'[n].pc \notin {"idle", "sent"} /\
        (flow'[n].pc = "returned" => flow[n].pc = "returned" /\ flow'[n].true = flow[n].true)
    BY <2>3
  <2> QED BY <2>1, <2>2, <2>3, <2>4 DEF AnswerOK
<1> QED BY <1>2, <1>3

\* A step that keeps nothing new of anyone keeps the persons right.
LEMMA PersonsStay ==
    ASSUME Inv, UNCHANGED <<persons, credential, shared, signed, registered>>,
           \A f \in Flows : flow'[f].pc = "mapped" => flow'[f] = flow[f]
    PROVE  /\ Numbered' /\ OneOfCode' /\ (\E o \in [DOMAIN persons -> People] : Owner(o))'
           /\ (\A b \in Browsers : WaysOK(b))' /\ FreshAsAsked'
<1>1. PICK o \in [DOMAIN persons -> People] : Owner(o)
  BY DEF Inv
<1>2. /\ o \in [DOMAIN persons -> People]
      /\ \A x \in DOMAIN persons : persons[x] # None => persons[x] = Code[o[x]]
      /\ \A pv \in Providers, h \in People :
            Credential(pv, h) \in DOMAIN credential => o[credential[Credential(pv, h)]] = h
      /\ \A b \in Browsers : shared[b] # None => \A m \in Methods : shared[b].ways[m] # None =>
            Of(o, shared[b].subject, shared[b].code, shared[b].ways[m].true)
      /\ \A s \in signed : Of(o, s.subject, s.code, s.true)
      /\ \A r \in registered :
            r.subject \in DOMAIN persons /\ o[r.subject] = r.who
            /\ persons[r.subject] = Code[r.who] /\ Code[r.who] # None
      /\ \A f \in Flows : flow[f].pc = "mapped" =>
            Of(o, flow[f].subject, flow[f].id.code, flow[f].true)
  BY <1>1 DEF Owner
<1>3. \A x, c, t : Of(o, x, c, t)' <=> Of(o, x, c, t)
  BY DEF Of, Settled
<1>4. (\A f \in Flows : flow[f].pc = "mapped" =>
         Of(o, flow[f].subject, flow[f].id.code, flow[f].true))'
  BY <1>2, <1>3
<1>5. Owner(o)'
  BY <1>2, <1>3, <1>4 DEF Owner
<1>6. Numbered' /\ OneOfCode'
  BY DEF Inv, Numbered, OneOfCode
<1>7. (\A b \in Browsers : WaysOK(b))' /\ FreshAsAsked'
  BY DEF Inv, WaysOK, FreshAsAsked
<1> QED BY <1>2, <1>5, <1>6, <1>7

\* The flow f becomes x, and nothing is kept of anyone.
LEMMA OneFlow ==
    ASSUME Inv, NEW f \in Flows, NEW x \in Flow, flow' = [flow EXCEPT ![f] = x],
           x.pc # "mapped",
           \/ flow[f].pc \in {"idle", "sent"}
           \/ /\ x.pc \notin {"idle", "sent"}
              /\ x.pc = "returned" => flow[f].pc = "returned" /\ x.true = flow[f].true,
           SentOK(f)', ReturnedOK(f)', AnswerOK(f)',
           UNCHANGED <<now, persons, credential, shared, signed, registered, answered>>,
           faults' \in Nat,
           sso' \in [Browsers -> [Providers -> [who : People, at : Nat] \cup {None}]],
           \A b \in Browsers, pv \in Providers :
              sso'[b][pv] # None => Epoch <= sso'[b][pv].at /\ sso'[b][pv].at <= now
    PROVE  Inv'
<1>1. /\ flow' \in [Flows -> Flow] /\ flow'[f] = x
      /\ \A g \in Flows : g # f => flow'[g] = flow[g]
  BY FlowSet
<1>2. \A g \in Flows : g # f => SentOK(g)' /\ ReturnedOK(g)' /\ AnswerOK(g)' /\ MappedOK(g)'
  BY <1>1, OthersStay
<1>3. MappedOK(f)'
  BY <1>1 DEF MappedOK
<1>4. \A g \in Flows : (SentOK(g) /\ ReturnedOK(g) /\ AnswerOK(g) /\ MappedOK(g))'
  BY <1>2, <1>3
<1>5. \A g \in Flows : flow'[g].pc = "mapped" => flow'[g] = flow[g]
  BY <1>1
<1>6. TypeOK
  BY DEF Inv
<1>7. TypeOK'
  BY <1>1, <1>6 DEF TypeOK
<1>8. Epoch <= now'
  BY DEF Inv
<1> QED BY <1>4, <1>5, <1>7, <1>8, PersonsStay DEF Inv

-----------------------------------------------------------------------------
(* The steps before anything is written.                                    *)

LEMMA StartKeeps ==
    ASSUME Inv, NEW f \in Flows, NEW b \in Browsers, NEW ms \in Named, NEW ask \in Asks,
           Start(f, b, ms, ask)
    PROVE  Inv'
<1>1. flow[f].pc = "idle" /\ UNCHANGED <<now, sso, persons, credential, shared, signed,
                                          registered, answered, faults>>
  BY DEF Start, Idle
<1>2. PICK w \in ProviderOf(ms) :
         flow' = [flow EXCEPT ![f] =
                     [pc |-> "sent",
                      req |-> [browser |-> b, way |-> w, methods |-> ms, ask |-> ask,
                               started |-> now]]]
  BY DEF Start
<1> DEFINE r == [browser |-> b, way |-> w, methods |-> ms, ask |-> ask, started |-> now]
           x == [pc |-> "sent", req |-> r]
<1>3. r \in Request
  <2>1. w \in Ways /\ ms \in SUBSET Methods /\ ask \in Ask
    BY TimeAssumption DEF ProviderOf, Ways, Ask
  <2> QED BY <2>1, Times DEF Request
<1>4. /\ r.way = w /\ r.methods = ms /\ r.started = now
      /\ x.pc = "sent" /\ x.req = r
  OBVIOUS
<1>5. flow' = [flow EXCEPT ![f] = x]
  BY <1>2
<1> HIDE DEF r
<1>6. x \in Flow
  BY <1>3 DEF Flow
<1> HIDE DEF x
<1>7. flow'[f] = x
  BY <1>5, <1>6, FlowSet
<1>8. SentOK(f)' /\ ReturnedOK(f)' /\ AnswerOK(f)'
  BY <1>1, <1>4, <1>7, Times DEF SentOK, ReturnedOK, AnswerOK
<1>9. /\ faults \in Nat
      /\ sso \in [Browsers -> [Providers -> [who : People, at : Nat] \cup {None}]]
      /\ \A c \in Browsers, pv \in Providers :
            sso[c][pv] # None => Epoch <= sso[c][pv].at /\ sso[c][pv].at <= now
  BY DEF Inv, TypeOK
<1> QED BY <1>1, <1>4, <1>5, <1>6, <1>8, <1>9, OneFlow

LEMMA ReturnedKeeps ==
    ASSUME Inv, NEW f \in Flows, NEW h \in People, NEW at \in Nat, NEW said \in SUBSET Words,
           flow[f].pc = "sent", Returned(f, h, at, said), Epoch <= at, at <= now,
           flow[f].req.way = Card => at >= flow[f].req.started /\ Code[h] # None,
           flow[f].req.way \in Honours /\ ForcedLogin(flow[f].req.ask) =>
              at >= flow[f].req.started,
           UNCHANGED <<now, persons, credential, shared, signed, registered, answered, faults>>,
           sso' \in [Browsers -> [Providers -> [who : People, at : Nat] \cup {None}]],
           \A b \in Browsers, pv \in Providers :
              sso'[b][pv] # None => Epoch <= sso'[b][pv].at /\ sso'[b][pv].at <= now
    PROVE  Inv'
<1> DEFINE r == flow[f].req
           t == [who |-> h, at |-> at, by |-> flow[f].req.way]
           a == [nonce |-> f, token |-> h, time |-> at, said |-> said, info |-> h]
           x == [pc |-> "returned", req |-> r, true |-> t, answer |-> a]
<1>1. r \in Request /\ r.way \in Ways
  BY Kinds DEF Request
<1>2. t \in True /\ a \in Answer
  BY <1>1 DEF True, Answer
<1>3. /\ x.pc = "returned" /\ x.req = r /\ x.true = t /\ x.answer = a
      /\ t.who = h /\ t.at = at /\ t.by = r.way
      /\ a.nonce = f /\ a.token = h /\ a.time = at /\ a.info = h
  OBVIOUS
<1>4. flow' = [flow EXCEPT ![f] = x]
  BY DEF Returned
<1> HIDE DEF t, a
<1>5. x \in Flow
  BY <1>1, <1>2 DEF Flow
<1> HIDE DEF x
<1>6. flow'[f] = x
  BY <1>4, <1>5, FlowSet
<1>7. SentOK(f)
  BY DEF Inv
<1>8. SentOK(f)' /\ ReturnedOK(f)'
  BY <1>3, <1>6, <1>7 DEF SentOK, ReturnedOK
<1>9. AnswerOK(f)'
  BY <1>3, <1>6 DEF AnswerOK
<1>10. faults \in Nat
  BY DEF Inv, TypeOK
<1> QED BY <1>3, <1>4, <1>5, <1>8, <1>9, <1>10, OneFlow

LEMMA AuthenticateKeeps ==
    ASSUME Inv, NEW f \in Flows, NEW h \in People, NEW said \in SUBSET Words,
           Authenticate(f, h, said)
    PROVE  Inv'
<1> DEFINE r == flow[f].req
           v == [who |-> h, at |-> now]
<1>1. /\ flow[f].pc = "sent" /\ r.way \in Providers /\ Returned(f, h, now, said)
      /\ sso' = [sso EXCEPT ![r.browser][r.way] = v]
      /\ UNCHANGED <<now, persons, credential, shared, signed, registered, answered, faults>>
  BY DEF Authenticate
<1>2. r.browser \in Browsers
  BY <1>1, Kinds DEF Request
<1>3. /\ sso \in [Browsers -> [Providers -> [who : People, at : Nat] \cup {None}]]
      /\ \A c \in Browsers, pv \in Providers :
            sso[c][pv] # None => Epoch <= sso[c][pv].at /\ sso[c][pv].at <= now
  BY DEF Inv, TypeOK
<1>4. v \in [who : People, at : Nat] /\ v.at = now
  BY Times
<1> HIDE DEF v, r
<1>5. sso' \in [Browsers -> [Providers -> [who : People, at : Nat] \cup {None}]]
  BY <1>1, <1>2, <1>3, <1>4
<1>6. \A b \in Browsers, pv \in Providers : sso'[b][pv] = v \/ sso'[b][pv] = sso[b][pv]
  BY <1>1, <1>2, <1>3
<1>7. \A b \in Browsers, pv \in Providers :
         sso'[b][pv] # None => Epoch <= sso'[b][pv].at /\ sso'[b][pv].at <= now
  BY <1>3, <1>4, <1>6, Times
<1>8. r.way # Card /\ r.started <= now
  <2>1. SentOK(f)
    BY DEF Inv
  <2> QED BY <1>1, <2>1, ProviderAssumption DEF SentOK, r
<1> QED BY <1>1, <1>5, <1>7, <1>8, Times, ReturnedKeeps DEF r

LEMMA AnswerFromOwnSessionKeeps ==
    ASSUME Inv, NEW f \in Flows, NEW said \in SUBSET Words, AnswerFromOwnSession(f, said)
    PROVE  Inv'
<1>1. /\ flow[f].pc = "sent" /\ flow[f].req.way \in Providers
      /\ ~ (ForcedLogin(flow[f].req.ask) /\ flow[f].req.way \in Honours)
      /\ sso[flow[f].req.browser][flow[f].req.way] # None
      /\ Returned(f, sso[flow[f].req.browser][flow[f].req.way].who,
                  sso[flow[f].req.browser][flow[f].req.way].at, said)
      /\ UNCHANGED <<now, sso, persons, credential, shared, signed, registered, answered, faults>>
  BY DEF AnswerFromOwnSession
<1>2. PICK b \in Browsers, pv \in Providers : b = flow[f].req.browser /\ pv = flow[f].req.way
  BY <1>1, Kinds DEF Request
<1>3. /\ sso \in [Browsers -> [Providers -> [who : People, at : Nat] \cup {None}]]
      /\ \A c \in Browsers, p \in Providers :
            sso[c][p] # None => Epoch <= sso[c][p].at /\ sso[c][p].at <= now
  BY DEF Inv, TypeOK
<1>4. sso[b][pv] # None /\ Returned(f, sso[b][pv].who, sso[b][pv].at, said)
  BY <1>1, <1>2
<1>5. PICK v \in [who : People, at : Nat] : v = sso[b][pv]
  BY <1>3, <1>4
<1>6. /\ v.who \in People /\ v.at \in Nat /\ Epoch <= v.at /\ v.at <= now
      /\ Returned(f, v.who, v.at, said)
  BY <1>3, <1>4, <1>5
<1>7. flow[f].req.way # Card
  BY <1>1, ProviderAssumption
<1> QED BY <1>1, <1>3, <1>6, <1>7, ReturnedKeeps

LEMMA CardSignsKeeps ==
    ASSUME Inv, NEW f \in Flows, NEW h \in People, CardSigns(f, h)
    PROVE  Inv'
<1>1. /\ flow[f].pc = "sent" /\ flow[f].req.way = Card /\ Code[h] # None
      /\ Returned(f, h, now, {})
      /\ UNCHANGED <<now, sso, persons, credential, shared, signed, registered, answered, faults>>
  BY DEF CardSigns
<1>2. /\ sso \in [Browsers -> [Providers -> [who : People, at : Nat] \cup {None}]]
      /\ \A c \in Browsers, p \in Providers :
            sso[c][p] # None => Epoch <= sso[c][p].at /\ sso[c][p].at <= now
  BY DEF Inv, TypeOK
<1>3. flow[f].req.started <= now
  BY <1>1 DEF Inv, SentOK
<1>4. {} \in SUBSET Words /\ now >= flow[f].req.started
  <2>1. flow[f].req.started \in Nat
    BY <1>1, Kinds DEF Request
  <2> QED BY <1>3, <2>1, Times
<1> QED BY <1>1, <1>2, <1>4, Times, ReturnedKeeps

LEMMA CrossAnswerKeeps ==
    ASSUME Inv, NEW f \in Flows, NEW g \in Flows, CrossAnswer(f, g)
    PROVE  Inv'
<1> DEFINE x == [flow[f] EXCEPT !.answer = flow[g].answer]
<1>1. /\ flow[f].pc = "returned" /\ flow[g].pc = "returned"
      /\ flow[f].req.way \in Keyed
      /\ UNCHANGED <<now, sso, persons, credential, shared, signed, registered, answered>>
      /\ faults' = faults + 1 /\ flow' = [flow EXCEPT ![f] = x]
  BY DEF CrossAnswer, Fault
<1>2. /\ flow[f] \in [pc : {"returned"}, req : Request, true : True, answer : Answer]
      /\ flow[g].answer \in Answer
  BY <1>1, Kinds
<1>3. /\ x \in [pc : {"returned"}, req : Request, true : True, answer : Answer]
      /\ x.pc = "returned" /\ x.req = flow[f].req /\ x.true = flow[f].true
      /\ x.answer = flow[g].answer
  BY <1>2
<1> HIDE DEF x
<1>4. x \in Flow
  BY <1>3 DEF Flow
<1>5. /\ flow'[f] = x /\ \A k \in Flows : k # f => flow'[k] = flow[k]
  BY <1>1, <1>4, FlowSet
<1>6. SentOK(f) /\ ReturnedOK(f) /\ AnswerOK(g) /\ ReturnedOK(g)
  BY DEF Inv
<1>7. SentOK(f)'
  BY <1>1, <1>3, <1>5, <1>6 DEF SentOK
<1>8. ReturnedOK(f)'
  BY <1>1, <1>3, <1>5, <1>6 DEF ReturnedOK
<1>9. AnswerOK(f)'
  <2>1. PICK n \in Flows : n = flow[g].answer.nonce
    BY <1>2 DEF Answer
  <2>2. /\ flow[n].pc \notin {"idle", "sent"}
        /\ flow[n].pc = "returned" => /\ flow[g].answer.token = flow[n].true.who
                                      /\ flow[g].answer.time = flow[n].true.at
    BY <1>1, <1>6, <2>1 DEF AnswerOK
  <2>3. flow'[n].pc = flow[n].pc /\ (flow[n].pc = "returned" => flow'[n].true = flow[n].true)
    BY <1>1, <1>3, <1>5
  <2> QED BY <1>3, <1>5, <2>1, <2>2, <2>3 DEF AnswerOK
<1>10. /\ faults' \in Nat
       /\ sso \in [Browsers -> [Providers -> [who : People, at : Nat] \cup {None}]]
       /\ \A c \in Browsers, p \in Providers :
             sso[c][p] # None => Epoch <= sso[c][p].at /\ sso[c][p].at <= now
  BY <1>1 DEF Inv, TypeOK
<1> QED BY <1>1, <1>3, <1>4, <1>7, <1>8, <1>9, <1>10, OneFlow

LEMMA CrossUserInfoKeeps ==
    ASSUME Inv, NEW f \in Flows, NEW h \in People, CrossUserInfo(f, h)
    PROVE  Inv'
<1> DEFINE a == [flow[f].answer EXCEPT !.info = h]
           x == [flow[f] EXCEPT !.answer = a]
<1>1. /\ flow[f].pc = "returned" /\ flow[f].req.way \in Keyed
      /\ UNCHANGED <<now, sso, persons, credential, shared, signed, registered, answered>>
      /\ faults' = faults + 1 /\ flow' = [flow EXCEPT ![f] = x]
  BY DEF CrossUserInfo, Fault
<1>2. /\ flow[f] \in [pc : {"returned"}, req : Request, true : True, answer : Answer]
      /\ flow[f].answer \in Answer
  BY <1>1, Kinds
<1>3. /\ a \in Answer /\ a.nonce = flow[f].answer.nonce /\ a.token = flow[f].answer.token
      /\ a.time = flow[f].answer.time
  BY <1>2 DEF Answer
<1> HIDE DEF a
<1>4. /\ x \in [pc : {"returned"}, req : Request, true : True, answer : Answer]
      /\ x.pc = "returned" /\ x.req = flow[f].req /\ x.true = flow[f].true /\ x.answer = a
  BY <1>2, <1>3
<1> HIDE DEF x
<1>5. x \in Flow
  BY <1>4 DEF Flow
<1>6. /\ flow'[f] = x /\ \A k \in Flows : k # f => flow'[k] = flow[k]
  BY <1>1, <1>5, FlowSet
<1>7. SentOK(f) /\ ReturnedOK(f) /\ AnswerOK(f)
  BY DEF Inv
<1>8. SentOK(f)'
  BY <1>1, <1>4, <1>6, <1>7 DEF SentOK
<1>9. ReturnedOK(f)'
  BY <1>1, <1>3, <1>4, <1>6, <1>7 DEF ReturnedOK
<1>10. AnswerOK(f)'
  <2>1. PICK n \in Flows : n = flow[f].answer.nonce
    BY <1>2 DEF Answer
  <2>2. /\ flow[n].pc \notin {"idle", "sent"}
        /\ flow[n].pc = "returned" => /\ flow[f].answer.token = flow[n].true.who
                                      /\ flow[f].answer.time = flow[n].true.at
    BY <1>1, <1>7, <2>1 DEF AnswerOK
  <2>3. flow'[n].pc = flow[n].pc /\ (flow[n].pc = "returned" => flow'[n].true = flow[n].true)
    BY <1>1, <1>4, <1>6
  <2> QED BY <1>3, <1>4, <1>6, <2>1, <2>2, <2>3 DEF AnswerOK
<1>11. /\ faults' \in Nat
       /\ sso \in [Browsers -> [Providers -> [who : People, at : Nat] \cup {None}]]
       /\ \A c \in Browsers, p \in Providers :
             sso[c][p] # None => Epoch <= sso[c][p].at /\ sso[c][p].at <= now
  BY <1>1 DEF Inv, TypeOK
<1> QED BY <1>1, <1>4, <1>5, <1>8, <1>9, <1>10, <1>11, OneFlow

\* A sign-in that ends, refused or failed, keeps nothing.
LEMMA EndKeeps ==
    ASSUME Inv, NEW f \in Flows, End(f), flow[f].pc \in {"returned", "mapped"},
           UNCHANGED <<now, sso, persons, credential, shared, signed, registered, answered>>,
           faults' \in Nat
    PROVE  Inv'
<1>1. Over \in Flow /\ Over.pc = "over" /\ flow' = [flow EXCEPT ![f] = Over]
  BY DEF Flow, Over, End
<1>2. flow'[f] = Over
  BY <1>1, FlowSet
<1>3. SentOK(f)' /\ ReturnedOK(f)' /\ AnswerOK(f)'
  BY <1>1, <1>2 DEF SentOK, ReturnedOK, AnswerOK
<1>4. /\ sso \in [Browsers -> [Providers -> [who : People, at : Nat] \cup {None}]]
      /\ \A c \in Browsers, p \in Providers :
            sso[c][p] # None => Epoch <= sso[c][p].at /\ sso[c][p].at <= now
  BY DEF Inv, TypeOK
<1>5. Over.pc # "mapped" /\ Over.pc # "returned" /\ Over.pc \notin {"idle", "sent"}
  BY <1>1
<1> QED BY <1>1, <1>3, <1>4, <1>5, OneFlow

LEMMA RefuseKeeps ==
    ASSUME Inv, NEW f \in Flows, Refuse(f)
    PROVE  Inv'
<1>1. faults \in Nat
  BY DEF Inv, TypeOK
<1> QED BY <1>1, EndKeeps DEF Refuse

LEMMA FailKeeps ==
    ASSUME Inv, NEW f \in Flows, Fail(f)
    PROVE  Inv'
<1>1. faults \in Nat
  BY DEF Inv, TypeOK
<1> QED BY <1>1, EndKeeps DEF Fail, Fault

LEMMA TickKeeps ==
    ASSUME Inv, Tick
    PROVE  Inv'
<1>1. /\ UNCHANGED <<sso, flow, persons, credential, shared, signed, registered, answered, faults>>
      /\ now' = now + 1
      /\ \A f \in Flows : flow[f].pc = "mapped" => now < flow[f].checked + Stall
  BY DEF Tick
<1>2. now' \in Nat /\ Epoch <= now' /\ now <= now'
  BY <1>1, Times
<1>3. TypeOK'
  BY <1>1, <1>2 DEF Inv, TypeOK
<1>4. \A b \in Browsers, pv \in Providers :
         sso'[b][pv] # None => Epoch <= sso'[b][pv].at /\ sso'[b][pv].at <= now'
  <2> TAKE b \in Browsers, pv \in Providers
  <2>1. sso[b][pv] # None => sso[b][pv].at \in Nat
    BY DEF Inv, TypeOK
  <2> QED BY <1>1, <2>1, Times DEF Inv
<1>5. ASSUME NEW f \in Flows
      PROVE  (SentOK(f) /\ ReturnedOK(f) /\ AnswerOK(f) /\ MappedOK(f))'
  <2>1. SentOK(f) /\ ReturnedOK(f) /\ AnswerOK(f) /\ MappedOK(f)
    BY DEF Inv
  <2>2. flow'[f] = flow[f]
    BY <1>1
  <2>3. SentOK(f)'
    <3>1. flow[f].pc \in {"sent", "returned", "mapped"} => flow[f].req.started \in Nat
      BY Kinds DEF Request
    <3> QED BY <1>1, <2>1, <2>2, <3>1, Times DEF SentOK
  <2>4. ReturnedOK(f)'
    <3>1. flow[f].pc = "returned" => flow[f].true.at \in Nat
      BY Kinds DEF True
    <3> QED BY <1>1, <2>1, <2>2, <3>1, Times DEF ReturnedOK
  <2>5. AnswerOK(f)'
    BY <1>1, <2>1 DEF AnswerOK
  <2>6. MappedOK(f)'
    <3>1. flow[f].pc = "mapped" => flow[f].checked \in Nat /\ now + 1 <= flow[f].checked + Stall
      <4>1. flow[f].pc = "mapped" => flow[f].checked \in Nat
        BY Kinds
      <4> QED BY <1>1, <4>1, Times
    <3> QED BY <1>1, <2>1, <2>2, <3>1, Times DEF MappedOK
  <2> QED BY <2>3, <2>4, <2>5, <2>6
<1> QED BY <1>1, <1>2, <1>3, <1>4, <1>5, PersonsStay DEF Inv

LEMMA StutterKeeps ==
    ASSUME Inv, UNCHANGED vars
    PROVE  Inv'
<1>1. UNCHANGED <<now, sso, flow, persons, credential, shared, signed, registered, answered, faults>>
  BY DEF vars
<1>2. TypeOK' /\ Epoch <= now'
  BY <1>1 DEF Inv, TypeOK
<1>3. \A b \in Browsers, pv \in Providers :
         sso'[b][pv] # None => Epoch <= sso'[b][pv].at /\ sso'[b][pv].at <= now'
  BY <1>1 DEF Inv
<1>4. \A f \in Flows : (SentOK(f) /\ ReturnedOK(f) /\ AnswerOK(f) /\ MappedOK(f))'
  BY <1>1 DEF Inv, SentOK, ReturnedOK, AnswerOK, MappedOK
<1> QED BY <1>1, <1>2, <1>3, <1>4, PersonsStay DEF Inv

-----------------------------------------------------------------------------
(* The person of a sign-in.                                                 *)

\* An answer that is accepted is about the person who authenticated, its code is
\* theirs, and it is as fresh as the request asked for.
LEMMA AcceptedReads ==
    ASSUME Inv, NEW f \in Flows, flow[f].pc = "returned", Accepted(f),
           NEW w \in Providers, flow[f].req.way = w,
           NEW r, r = flow[f].req, NEW t, t = flow[f].true, NEW a, a = flow[f].answer,
           NEW m, m = SignInMoment(r.ask, AuthTime(w, a))
    PROVE  /\ a.info = t.who /\ t.who \in People /\ t.by = w
           /\ Resolve(w, a) \in Identity
           /\ Resolve(w, a).handle = Handle[w][t.who]
           /\ CodeRead(w, t.who) => Resolve(w, a).code = Code[t.who] /\ Code[t.who] # None
           /\ ~CodeRead(w, t.who) => Resolve(w, a).code = None
           /\ m \in Nat /\ MomentOK(m, t) /\ now < r.started + FlowTTL
           /\ ForcedLogin(r.ask) => t.at >= r.started - Early(w)
           /\ r.ask.maxAge # None => now - t.at <= r.ask.maxAge + Late(w)
<1>1. /\ r \in Request /\ t \in True /\ a \in Answer
      /\ r.started \in Nat /\ r.ask \in Ask /\ t.who \in People /\ t.at \in Nat
      /\ a.nonce \in Flows /\ a.token \in People /\ a.info \in People /\ a.time \in Nat
  <2>1. flow[f] \in [pc : {"returned"}, req : Request, true : True, answer : Answer]
    BY Kinds
  <2>2. r \in Request /\ t \in True /\ a \in Answer
    BY <2>1
  <2> QED BY <2>2 DEF Request, True, Answer
<1>2. /\ now < r.started + FlowTTL /\ IdentityCodeKept(w, a.info) /\ IDTokenHolds(f, w, a)
      /\ Resolve(w, a).method \in MethodsAllowed[w]
      /\ ~TooOld(r, AuthTime(w, a))
  BY DEF Accepted
<1>3. /\ t.by = w /\ Epoch <= t.at /\ t.at <= now /\ Epoch <= a.time
      /\ w \in Honours /\ ForcedLogin(r.ask) => t.at >= r.started
      /\ w \notin Keyed => a.info = t.who
      /\ a.nonce = f => a.token = t.who /\ a.time = t.at
  BY DEF Inv, ReturnedOK, AnswerOK
<1>4. a.info = t.who /\ (w \in Keyed => a.time = t.at)
  BY <1>2, <1>3 DEF IDTokenHolds, VerifyIDToken
<1>5. /\ CodeRead(w, t.who) => Resolve(w, a).code = Code[t.who] /\ Code[t.who] \in Codes
                               /\ Code[t.who] # None
      /\ ~CodeRead(w, t.who) => Resolve(w, a).code = None
      /\ Resolve(w, a).handle = Handle[w][t.who]
  BY <1>1, <1>2, <1>4, CodeIsOwn DEF Resolve
<1>6. Resolve(w, a) \in Identity
  <2>1. /\ Resolve(w, a).method \in Methods
        /\ Handle[w][a.info] \in Handles /\ Issuer[w] \in Names \cup {None}
    BY <1>1, <1>2, ProviderAssumption, PeopleAssumption
  <2>2. Match(LoAPolicy[w], LoADefault[w], a.said) \in Levels
    BY LevelMatched
  <2>3. SerialNumber(w, a.info) \in Codes \cup {None}
    BY <1>4, <1>5 DEF Resolve
  <2> QED BY <2>1, <2>2, <2>3 DEF Resolve, Identity
<1>7. CASE w \in StatesTime
  <2>1. w \in Keyed /\ AuthTime(w, a) = t.at + Offset[w]
    BY <1>4, <1>7, ProviderAssumption DEF AuthTime
  <2>2. /\ t.at + Offset[w] \in Nat /\ t.at + Offset[w] > 0 /\ Offset[w] <= Skew
        /\ Offset[w] \in Int /\ -Skew <= Offset[w]
    BY <1>1, <1>3, Times
  <2>3. m = t.at + Offset[w]
    BY <2>1, <2>2 DEF SignInMoment, Unknown
  <2>4. Early(w) = Skew + Offset[w] /\ Late(w) = Early(w)
    BY <1>7 DEF Early, Late
  <2>5. MomentOK(m, t)
    BY <1>1, <1>3, <2>2, <2>3, <2>4, Times DEF MomentOK
  <2>6. ForcedLogin(r.ask) => t.at + Offset[w] >= r.started - Skew
    BY <1>1, <1>2, <2>1, <2>2, Times DEF TooOld, Unknown
  <2>7. ForcedLogin(r.ask) => t.at >= r.started - Early(w)
    BY <1>1, <2>2, <2>4, <2>6, Times
  <2>8. ASSUME r.ask.maxAge # None PROVE now - t.at <= r.ask.maxAge + Late(w)
    <3>1. r.ask.maxAge \in Nat
      BY <1>1, <2>8 DEF Ask
    <3>2. ~(now - (t.at + Offset[w]) - Skew > r.ask.maxAge)
      BY <1>2, <2>1, <2>2, <2>3, <2>8 DEF TooOld, Unknown
    <3> QED BY <1>1, <2>2, <2>4, <3>1, <3>2, Times
  <2> QED BY <1>1, <1>2, <1>3, <1>4, <1>5, <1>6, <2>2, <2>3, <2>5, <2>7, <2>8
<1>8. CASE w \notin StatesTime
  <2>1. w \in Honours /\ AuthTime(w, a) = Unknown /\ Late(w) = FlowTTL + Stall
    BY <1>8, TimeAssumption DEF AuthTime, Late
  <2>2. m = IF ForcedLogin(r.ask) THEN now ELSE Unknown
    BY <2>1 DEF SignInMoment, Unknown
  <2>3. ForcedLogin(r.ask) => t.at >= r.started /\ now - t.at <= FlowTTL
    BY <1>1, <1>2, <1>3, <2>1, Times
  <2>4. m \in Nat
    BY <2>2, Times DEF Unknown
  <2>5. MomentOK(m, t)
    BY <1>1, <1>3, <2>1, <2>2, <2>3, Times DEF MomentOK
  <2>6. ForcedLogin(r.ask) => t.at >= r.started - Early(w)
    BY <1>1, <1>8, <2>3, Times DEF Early
  <2>7. r.ask.maxAge # None => now - t.at <= r.ask.maxAge + Late(w)
    <3>1. r.ask.maxAge # None => ForcedLogin(r.ask) /\ r.ask.maxAge \in Nat
      BY <1>1 DEF ForcedLogin, Ask
    <3> QED BY <1>1, <2>1, <2>3, <3>1, Times
  <2> QED BY <1>1, <1>2, <1>3, <1>4, <1>5, <1>6, <2>4, <2>5, <2>6, <2>7
<1> QED BY <1>7, <1>8

\* The card's sign-in is about the person whose card signed, after it was asked.
LEMMA CardReads ==
    ASSUME Inv, NEW f \in Flows, flow[f].pc = "returned", Accepted(f),
           flow[f].req.way = Card,
           NEW r, r = flow[f].req, NEW t, t = flow[f].true
    PROVE  /\ t.who \in People /\ t.by = Card /\ Code[t.who] # None
           /\ now < r.started + FlowTTL /\ t.at >= r.started
           /\ ForcedLogin(r.ask) => t.at >= r.started - Early(Card)
           /\ r.ask.maxAge # None => now - t.at <= r.ask.maxAge + Late(Card)
<1>1. /\ r.started \in Nat /\ r.ask \in Ask /\ t.who \in People /\ t.at \in Nat
  <2>1. flow[f] \in [pc : {"returned"}, req : Request, true : True, answer : Answer]
    BY Kinds
  <2>2. r \in Request /\ t \in True
    BY <2>1
  <2> QED BY <2>2 DEF Request, True
<1>2. now < r.started + FlowTTL
  BY DEF Accepted
<1>3. t.by = Card /\ t.at >= r.started /\ Code[t.who] # None
  BY DEF Inv, ReturnedOK
<1>4. Late(Card) = FlowTTL + Stall /\ Early(Card) = 0
  BY ProviderAssumption DEF Late, Early
<1>5. r.ask.maxAge # None => now - t.at <= r.ask.maxAge + Late(Card)
  <2>1. r.ask.maxAge # None => r.ask.maxAge \in Nat
    BY <1>1 DEF Ask
  <2> QED BY <1>1, <1>2, <1>3, <1>4, <2>1, Times
<1> QED BY <1>1, <1>2, <1>3, <1>4, <1>5, Times

\* The person of a sign-in is found or made, by their code where it was read and by
\* their credential where it was not.
LEMMA EstablishKeeps ==
    ASSUME Inv, NEW f \in Flows, flow[f].pc = "returned",
           NEW id \in Identity, NEW authTime \in Nat, EstablishSession(f, id, authTime),
           NEW t, t = flow[f].true, t.who \in People, t.by = flow[f].req.way,
           t.by \in Providers => /\ id.handle = Handle[t.by][t.who]
                                 /\ CodeRead(t.by, t.who) => id.code = Code[t.who]
                                                             /\ Code[t.who] # None
                                 /\ ~CodeRead(t.by, t.who) => id.code = None,
           t.by = Card => /\ id.code = Code[t.who] /\ Code[t.who] # None
                          /\ t.at >= flow[f].req.started,
           MomentOK(authTime, t), now < flow[f].req.started + FlowTTL,
           ForcedLogin(flow[f].req.ask) => t.at >= flow[f].req.started - Early(t.by),
           flow[f].req.ask.maxAge # None =>
              now - t.at <= flow[f].req.ask.maxAge + Late(t.by),
           UNCHANGED <<now, sso, shared, signed, registered, answered, faults>>
    PROVE  Inv'
<1> DEFINE r == flow[f].req
<1>1. PICK cred : cred = <<CredentialProvider(r.way), id.handle>>
  OBVIOUS
<1>2. PICK s : s = PersonOf(id.code, cred)
  OBVIOUS
<1>3. /\ flow[f] \in [pc : {"returned"}, req : Request, true : True, answer : Answer]
      /\ r \in Request /\ t \in True /\ r.way \in Ways /\ r.started \in Nat
  <2>1. flow[f] \in [pc : {"returned"}, req : Request, true : True, answer : Answer]
    BY Kinds
  <2> QED BY <2>1 DEF Request
<1> DEFINE x == [pc |-> "mapped", req |-> r, true |-> t, id |-> id, authTime |-> authTime,
                 checked |-> now, subject |-> s]
<1>4. /\ Keep(s, id.code)
      /\ credential' = [k \in DOMAIN credential \cup {cred} |->
                           IF k = cred THEN s ELSE credential[k]]
      /\ flow' = [flow EXCEPT ![f] = x]
  BY <1>1, <1>2 DEF EstablishSession
<1>5. id.code \in Codes \cup {None} /\ id.handle \in Handles \cup Codes
  BY DEF Identity
<1>6. /\ DOMAIN persons' = DOMAIN persons \cup {s} /\ s \in Nat
      /\ \A y \in DOMAIN persons : persons'[y] = persons[y]
      /\ \A y \in DOMAIN persons' : persons'[y] \in Codes \cup {None}
      /\ s \notin DOMAIN persons => persons'[s] = id.code
      /\ id.code # None => persons'[s] = id.code
      /\ s \in DOMAIN persons /\ id.code = None =>
            cred \in DOMAIN credential /\ s = credential[cred]
      /\ id.code = None /\ cred \in DOMAIN credential => s = credential[cred]
      /\ Numbered' /\ OneOfCode'
  <2>1. PICK code \in Codes \cup {None} : code = id.code
    BY <1>5
  <2>2. s = PersonOf(code, cred) /\ Keep(s, code)
    BY <1>2, <1>4, <2>1
  <2>3. Found(code, cred, s)
    <3> HIDE DEF r, x
    <3> QED BY <2>2, PersonKept
  <2> QED BY <2>1, <2>3 DEF Found
<1>7. /\ DOMAIN credential' = DOMAIN credential \cup {cred} /\ credential'[cred] = s
      /\ \A k \in DOMAIN credential : k # cred => credential'[k] = credential[k]
  BY <1>4
<1>8. /\ x.pc = "mapped" /\ x.req = r /\ x.true = t /\ x.id = id /\ x.authTime = authTime
      /\ x.checked = now /\ x.subject = s
  OBVIOUS
<1>9. x \in Flow
  <2>1. x \in [pc : {"mapped"}, req : Request, true : True, id : Identity,
               authTime : Nat, checked : Nat, subject : Nat]
    <3> HIDE DEF r
    <3> QED BY <1>3, <1>6, Times
  <2> HIDE DEF x
  <2> QED BY <2>1 DEF Flow
<1> HIDE DEF x
<1>10. /\ flow' \in [Flows -> Flow] /\ flow'[f] = x
       /\ \A g \in Flows : g # f => flow'[g] = flow[g]
  BY <1>4, <1>9, FlowSet
<1>11. t.by \in Providers \/ t.by = Card
  BY <1>3 DEF Ways
<1>12. t.by \in Providers => cred = Credential(t.by, t.who)
  BY <1>1 DEF Credential
<1>13. \A pv \in Providers, h \in People : Credential(pv, h) = cred =>
          t.by \in Providers /\ h = t.who
  <2> TAKE pv \in Providers, h \in People
  <2>1. CASE t.by = Card
    BY <2>1, <1>1, CardApart
  <2>2. CASE t.by \in Providers
    BY <2>2, <1>12, OneOfEach
  <2> QED BY <1>11, <2>1, <2>2
<1>14. PICK o \in [DOMAIN persons -> People] : Owner(o)
  BY DEF Inv
<1>15. s \in DOMAIN persons => o[s] = t.who
  <2> SUFFICES ASSUME s \in DOMAIN persons PROVE o[s] = t.who
    OBVIOUS
  <2>1. /\ persons[s] # None => persons[s] = Code[o[s]]
        /\ \A pv \in Providers, h \in People :
              Credential(pv, h) \in DOMAIN credential => o[credential[Credential(pv, h)]] = h
    BY <1>14 DEF Owner
  <2>2. CASE id.code # None
    <3>1. persons[s] = id.code /\ id.code = Code[t.who]
      BY <1>6, <1>11, <2>2
    <3> QED BY <2>1, <2>2, <3>1, OneOfEach
  <2>3. CASE id.code = None
    BY <1>6, <1>11, <1>12, <2>1, <2>3
  <2> QED BY <2>2, <2>3
<1>16. s \notin DOMAIN persons /\ persons'[s] # None => persons'[s] = Code[t.who]
  BY <1>6, <1>11
<1>17. \A pv \in Providers, h \in People : Credential(pv, h) \in DOMAIN credential' =>
          \/ /\ Credential(pv, h) \in DOMAIN credential
             /\ credential'[Credential(pv, h)] = credential[Credential(pv, h)]
          \/ h = t.who /\ credential'[Credential(pv, h)] = s
  BY <1>7, <1>13
<1>18. AlikeTrusted => \A pv \in Providers, h \in People :
          ~CodeRead(pv, h) /\ Credential(pv, h) \in DOMAIN credential =>
             /\ Credential(pv, h) \in DOMAIN credential'
             /\ credential'[Credential(pv, h)] = credential[Credential(pv, h)]
  <2> SUFFICES ASSUME AlikeTrusted, NEW pv \in Providers, NEW h \in People,
                      ~CodeRead(pv, h), Credential(pv, h) \in DOMAIN credential
               PROVE  /\ Credential(pv, h) \in DOMAIN credential'
                      /\ credential'[Credential(pv, h)] = credential[Credential(pv, h)]
    OBVIOUS
  <2>1. CASE Credential(pv, h) # cred
    BY <1>7, <2>1
  <2>2. CASE Credential(pv, h) = cred
    <3>1. t.by \in Providers /\ h = t.who /\ Credential(t.by, t.who) = Credential(pv, h)
      BY <1>12, <1>13, <2>2
    <3>2. ~CodeRead(t.by, t.who)
      BY <3>1 DEF AlikeTrusted
    <3> QED BY <1>6, <1>7, <2>2, <3>1, <3>2
  <2> QED BY <2>1, <2>2
<1>19. PICK q : q = [i \in DOMAIN persons \cup {s} |-> IF i \in DOMAIN persons THEN o[i] ELSE t.who]
  OBVIOUS
<1> HIDE DEF r
<1>20. /\ q \in [DOMAIN persons' -> People] /\ q[s] = t.who
       /\ \A y \in DOMAIN persons : q[y] = o[y]
       /\ \A y \in DOMAIN persons' : persons'[y] # None => persons'[y] = Code[q[y]]
       /\ \A pv \in Providers, h \in People :
             Credential(pv, h) \in DOMAIN credential' => q[credential'[Credential(pv, h)]] = h
       /\ \A y, c, u : u.who \in People /\ Of(o, y, c, u) => Of(q, y, c, u)'
  <2>1. /\ DOMAIN persons' = DOMAIN persons \cup {s}
        /\ \A y \in DOMAIN persons : persons'[y] = persons[y]
    BY <1>6
  <2>2. PICK who \in People : who = t.who
    OBVIOUS
  <2>3. q = [i \in DOMAIN persons \cup {s} |-> IF i \in DOMAIN persons THEN o[i] ELSE who]
    BY <1>19, <2>2
  <2>4. /\ s \in DOMAIN persons => o[s] = who
        /\ s \notin DOMAIN persons /\ persons'[s] # None => persons'[s] = Code[who]
    BY <1>15, <1>16, <2>2
  <2>5. \A pv \in Providers, h \in People : Credential(pv, h) \in DOMAIN credential' =>
           \/ /\ Credential(pv, h) \in DOMAIN credential
              /\ credential'[Credential(pv, h)] = credential[Credential(pv, h)]
           \/ h = who /\ credential'[Credential(pv, h)] = s
    BY <1>17, <2>2
  <2>6. /\ q \in [DOMAIN persons' -> People] /\ q[s] = who
        /\ \A y \in DOMAIN persons : q[y] = o[y]
        /\ \A y \in DOMAIN persons' : persons'[y] # None => persons'[y] = Code[q[y]]
        /\ \A pv \in Providers, h \in People :
              Credential(pv, h) \in DOMAIN credential' => q[credential'[Credential(pv, h)]] = h
        /\ \A y, c, u : u.who \in People /\ Of(o, y, c, u) => Of(q, y, c, u)'
    <3>1. Grows(o, s, who, q)
      BY <1>18, <2>1, <2>3, <2>4, <2>5 DEF Grows
    <3> QED BY <1>14, <3>1, OwnerGrows
  <2> QED BY <2>2, <2>6
<1>21. Of(q, s, id.code, t)'
  <2>1. Settled(s, t)'
    BY <1>6, <1>7, <1>11, <1>12 DEF Settled
  <2> QED BY <1>6, <1>20, <2>1 DEF Of
<1>22. Owner(q)'
  <2>1. /\ \A g \in Flows : flow[g].pc = "mapped" =>
              Of(o, flow[g].subject, flow[g].id.code, flow[g].true)
        /\ \A b \in Browsers : shared[b] # None => \A m \in Methods : shared[b].ways[m] # None =>
              Of(o, shared[b].subject, shared[b].code, shared[b].ways[m].true)
        /\ \A z \in signed : Of(o, z.subject, z.code, z.true)
        /\ \A z \in registered :
              z.subject \in DOMAIN persons /\ o[z.subject] = z.who
              /\ persons[z.subject] = Code[z.who] /\ Code[z.who] # None
    BY <1>14 DEF Owner
  <2>2. (\A g \in Flows : flow[g].pc = "mapped" =>
           Of(q, flow[g].subject, flow[g].id.code, flow[g].true))'
    <3> SUFFICES ASSUME NEW g \in Flows, flow'[g].pc = "mapped"
                 PROVE  Of(q, flow[g].subject, flow[g].id.code, flow[g].true)'
      OBVIOUS
    <3>1. CASE g = f
      BY <3>1, <1>8, <1>10, <1>21
    <3>2. CASE g # f
      <4>1. flow'[g] = flow[g] /\ flow[g].pc = "mapped"
        BY <3>2, <1>10
      <4>2. flow[g].true.who \in People
        BY <4>1, Kinds DEF True
      <4>3. Of(o, flow[g].subject, flow[g].id.code, flow[g].true)
        BY <2>1, <4>1
      <4>4. PICK y, c, u : y = flow[g].subject /\ c = flow[g].id.code /\ u = flow[g].true
        OBVIOUS
      <4> QED BY <1>20, <4>1, <4>2, <4>3, <4>4
    <3> QED BY <3>1, <3>2
  <2>3. (\A b \in Browsers : shared[b] # None => \A m \in Methods : shared[b].ways[m] # None =>
           Of(q, shared[b].subject, shared[b].code, shared[b].ways[m].true))'
    <3> SUFFICES ASSUME NEW b \in Browsers, NEW m \in Methods, shared[b] # None,
                        shared[b].ways[m] # None
                 PROVE  Of(q, shared[b].subject, shared[b].code, shared[b].ways[m].true)'
      OBVIOUS
    <3>1. shared[b] \in Shared
      BY DEF Inv, TypeOK
    <3>2. shared[b].ways[m].true.who \in People
      BY <3>1 DEF Shared, Way, True
    <3>3. Of(o, shared[b].subject, shared[b].code, shared[b].ways[m].true)
      BY <2>1
    <3>4. PICK y, c, u : y = shared[b].subject /\ c = shared[b].code
                         /\ u = shared[b].ways[m].true
      OBVIOUS
    <3> QED BY <1>20, <3>2, <3>3, <3>4
  <2>4. (\A z \in signed : Of(q, z.subject, z.code, z.true))'
    <3>1. \A z \in signed : z.true.who \in People
      BY DEF Inv, TypeOK, Session, True
    <3> QED BY <1>20, <2>1, <3>1
  <2>5. (\A z \in registered :
           z.subject \in DOMAIN persons /\ q[z.subject] = z.who
           /\ persons[z.subject] = Code[z.who] /\ Code[z.who] # None)'
    BY <1>6, <1>20, <2>1
  <2> QED BY <1>20, <2>2, <2>3, <2>4, <2>5 DEF Owner
<1> USE DEF r
<1>23. \A g \in Flows : (SentOK(g) /\ ReturnedOK(g) /\ AnswerOK(g) /\ MappedOK(g))'
  <2>1. \A g \in Flows : g # f => SentOK(g)' /\ ReturnedOK(g)' /\ AnswerOK(g)' /\ MappedOK(g)'
    BY <1>8, <1>10, OthersStay
  <2>2. SentOK(f) /\ ReturnedOK(f)
    BY DEF Inv
  <2>3. SentOK(f)' /\ ReturnedOK(f)' /\ AnswerOK(f)'
    BY <1>8, <1>10, <2>2 DEF SentOK, ReturnedOK, AnswerOK
  <2>4. MappedOK(f)'
    BY <1>8, <1>10, <2>2, Times DEF MappedOK, ReturnedOK, MomentOK, Late
  <2> QED BY <2>1, <2>3, <2>4
<1>24. TypeOK'
  <2>1. TypeOK /\ Numbered'
    BY <1>6 DEF Inv
  <2>2. DOMAIN persons' \subseteq Nat
    BY <1>6, <2>1 DEF TypeOK
  <2>3. cred \in Keys \X (Handles \cup Codes)
    <3>1. CredentialProvider(t.by) \in Keys
      <4>1. CASE t.by = Card
        BY <4>1, ProviderAssumption DEF CredentialProvider, Keys
      <4>2. CASE t.by \in Providers
        BY <4>2, ProviderAssumption DEF CredentialProvider, Identifier, Keys
      <4> QED BY <1>11, <4>1, <4>2
    <3> QED BY <1>1, <1>5, <3>1
  <2>4. /\ DOMAIN credential' \subseteq Keys \X (Handles \cup Codes)
        /\ \A c \in DOMAIN credential' : credential'[c] \in DOMAIN persons'
    BY <1>6, <1>7, <2>1, <2>3 DEF TypeOK
  <2> QED BY <1>6, <1>10, <2>1, <2>2, <2>4 DEF TypeOK
<1>25. \A b \in Browsers : WaysOK(b)'
  BY DEF Inv, WaysOK
<1>26. /\ Epoch <= now' /\ FreshAsAsked'
       /\ \A b \in Browsers, pv \in Providers :
             sso'[b][pv] # None => Epoch <= sso'[b][pv].at /\ sso'[b][pv].at <= now'
  BY DEF Inv, FreshAsAsked
<1> QED BY <1>6, <1>20, <1>22, <1>23, <1>24, <1>25, <1>26 DEF Inv

LEMMA CallbackKeeps ==
    ASSUME Inv, NEW f \in Flows, Callback(f)
    PROVE  Inv'
<1>1. /\ flow[f].pc = "returned" /\ flow[f].req.way \in Providers /\ Accepted(f)
      /\ EstablishSession(f, Resolve(flow[f].req.way, flow[f].answer),
            SignInMoment(flow[f].req.ask, AuthTime(flow[f].req.way, flow[f].answer)))
      /\ UNCHANGED <<now, sso, shared, signed, registered, answered, faults>>
  BY DEF Callback
<1>2. PICK w \in Providers : w = flow[f].req.way
  BY <1>1
<1>3. PICK r, t, a : r = flow[f].req /\ t = flow[f].true /\ a = flow[f].answer
  OBVIOUS
<1>4. PICK m : m = SignInMoment(r.ask, AuthTime(w, a))
  OBVIOUS
<1>5. PICK id : id = Resolve(w, a)
  OBVIOUS
<1>6. /\ a.info = t.who /\ t.who \in People /\ t.by = w
      /\ id \in Identity /\ id.handle = Handle[w][t.who]
      /\ CodeRead(w, t.who) => id.code = Code[t.who] /\ Code[t.who] # None
      /\ ~CodeRead(w, t.who) => id.code = None
      /\ m \in Nat /\ MomentOK(m, t) /\ now < r.started + FlowTTL
      /\ ForcedLogin(r.ask) => t.at >= r.started - Early(w)
      /\ r.ask.maxAge # None => now - t.at <= r.ask.maxAge + Late(w)
  BY <1>1, <1>2, <1>3, <1>4, <1>5, AcceptedReads
<1>7. EstablishSession(f, id, m)
  BY <1>1, <1>2, <1>3, <1>4, <1>5
<1>8. w # Card
  BY ProviderAssumption
<1> QED BY <1>1, <1>2, <1>3, <1>6, <1>7, <1>8, EstablishKeeps

LEMMA CompleteCardKeeps ==
    ASSUME Inv, NEW f \in Flows, CompleteCard(f)
    PROVE  Inv'
<1>1. /\ flow[f].pc = "returned" /\ flow[f].req.way = Card /\ Accepted(f)
      /\ EstablishSession(f, WebEIDIdentity(flow[f].true.who), Unknown)
      /\ UNCHANGED <<now, sso, shared, signed, registered, answered, faults>>
  BY DEF CompleteCard
<1>2. PICK r, t : r = flow[f].req /\ t = flow[f].true
  OBVIOUS
<1>3. PICK id : id = WebEIDIdentity(t.who)
  OBVIOUS
<1>4. /\ t.who \in People /\ t.by = Card /\ Code[t.who] # None
      /\ now < r.started + FlowTTL /\ t.at >= r.started
      /\ ForcedLogin(r.ask) => t.at >= r.started - Early(Card)
      /\ r.ask.maxAge # None => now - t.at <= r.ask.maxAge + Late(Card)
  BY <1>1, <1>2, CardReads
<1>5. id \in Identity /\ id.code = Code[t.who]
  BY <1>3, <1>4, CardCode
<1>6. Unknown \in Nat /\ MomentOK(Unknown, t)
  BY DEF Unknown, MomentOK
<1>7. EstablishSession(f, id, Unknown)
  BY <1>1, <1>2, <1>3
<1>8. Card \notin Providers
  BY ProviderAssumption
<1> QED BY <1>1, <1>2, <1>4, <1>5, <1>6, <1>7, <1>8, EstablishKeeps

LEMMA RegisterPersonKeeps ==
    ASSUME Inv, NEW h \in ToRegister, NEW typed \in Claims, RegisterPerson(h, typed)
    PROVE  Inv'
<1>1. PICK code : code = Canonical(typed, None)
  OBVIOUS
<1>2. PICK s : s = PersonOf(code, None)
  OBVIOUS
<1>3. /\ Truthful(typed, None, h) /\ CountryOf(typed, None) # None
      /\ Keep(s, code) /\ registered' = registered \cup {[who |-> h, subject |-> s]}
      /\ UNCHANGED <<now, sso, flow, credential, shared, signed, answered, faults>>
  BY <1>1, <1>2 DEF RegisterPerson
<1>4. h \in People /\ code \in Codes /\ code = Code[h] /\ code # None
  BY <1>1, <1>3, TypedCode
<1>5. Found(code, None, s)
  BY <1>2, <1>3, <1>4, PersonKept
<1>6. PICK o \in [DOMAIN persons -> People] : Owner(o)
  BY DEF Inv
<1>7. s \in DOMAIN persons => o[s] = h
  <2> SUFFICES ASSUME s \in DOMAIN persons PROVE o[s] = h
    OBVIOUS
  <2>1. persons[s] = code
    BY <1>4, <1>5 DEF Found
  <2>2. code = Code[o[s]] /\ o[s] \in People
    BY <1>4, <1>6, <2>1 DEF Owner
  <2> QED BY <1>4, <2>2, OneOfEach
<1>8. PICK q : q = [i \in DOMAIN persons \cup {s} |-> IF i \in DOMAIN persons THEN o[i] ELSE h]
  OBVIOUS
<1>9. Grows(o, s, h, q)
  BY <1>3, <1>4, <1>5, <1>7, <1>8 DEF Grows, Found
<1>10. /\ q \in [DOMAIN persons' -> People] /\ q[s] = h
       /\ \A y \in DOMAIN persons : q[y] = o[y]
       /\ \A y \in DOMAIN persons' : persons'[y] # None => persons'[y] = Code[q[y]]
       /\ \A pv \in Providers, g \in People :
             Credential(pv, g) \in DOMAIN credential' => q[credential'[Credential(pv, g)]] = g
       /\ \A y, c, u : u.who \in People /\ Of(o, y, c, u) => Of(q, y, c, u)'
  BY <1>4, <1>6, <1>9, OwnerGrows
<1>11. Owner(q)'
  <2>1. /\ \A g \in Flows : flow[g].pc = "mapped" =>
              Of(o, flow[g].subject, flow[g].id.code, flow[g].true)
        /\ \A b \in Browsers : shared[b] # None => \A m \in Methods : shared[b].ways[m] # None =>
              Of(o, shared[b].subject, shared[b].code, shared[b].ways[m].true)
        /\ \A z \in signed : Of(o, z.subject, z.code, z.true)
        /\ \A z \in registered :
              z.subject \in DOMAIN persons /\ o[z.subject] = z.who
              /\ persons[z.subject] = Code[z.who] /\ Code[z.who] # None
    BY <1>6 DEF Owner
  <2>2. ASSUME NEW g \in Flows, flow[g].pc = "mapped"
        PROVE  Of(q, flow[g].subject, flow[g].id.code, flow[g].true)'
    <3>1. flow[g].true.who \in People
      BY <2>2, Kinds DEF True
    <3>2. PICK y, c, u : y = flow[g].subject /\ c = flow[g].id.code /\ u = flow[g].true
      OBVIOUS
    <3> QED BY <1>3, <1>10, <2>1, <2>2, <3>1, <3>2
  <2>3. ASSUME NEW b \in Browsers, NEW m \in Methods, shared[b] # None, shared[b].ways[m] # None
        PROVE  Of(q, shared[b].subject, shared[b].code, shared[b].ways[m].true)'
    <3>1. shared[b].ways[m].true.who \in People
      BY <2>3 DEF Inv, TypeOK, Shared, Way, True
    <3>2. PICK y, c, u : y = shared[b].subject /\ c = shared[b].code
                         /\ u = shared[b].ways[m].true
      OBVIOUS
    <3> QED BY <1>3, <1>10, <2>1, <2>3, <3>1, <3>2
  <2>4. (\A z \in signed : Of(q, z.subject, z.code, z.true))'
    <3>1. \A z \in signed : z.true.who \in People
      BY DEF Inv, TypeOK, Session, True
    <3> QED BY <1>3, <1>10, <2>1, <3>1
  <2>5. (\A z \in registered :
           z.subject \in DOMAIN persons /\ q[z.subject] = z.who
           /\ persons[z.subject] = Code[z.who] /\ Code[z.who] # None)'
    BY <1>3, <1>4, <1>5, <1>10, <2>1 DEF Found
  <2>6. /\ (\A g \in Flows : flow[g].pc = "mapped" =>
              Of(q, flow[g].subject, flow[g].id.code, flow[g].true))'
        /\ (\A b \in Browsers : shared[b] # None => \A m \in Methods :
              shared[b].ways[m] # None =>
                 Of(q, shared[b].subject, shared[b].code, shared[b].ways[m].true))'
    BY <1>3, <2>2, <2>3
  <2> QED BY <1>10, <2>4, <2>5, <2>6 DEF Owner
<1>12. TypeOK'
  BY <1>3, <1>4, <1>5 DEF Inv, TypeOK, Found
<1>13. \A g \in Flows : (SentOK(g) /\ ReturnedOK(g) /\ AnswerOK(g) /\ MappedOK(g))'
  BY <1>3 DEF Inv, SentOK, ReturnedOK, AnswerOK, MappedOK
<1>14. (\A b \in Browsers : WaysOK(b))' /\ FreshAsAsked'
  BY <1>3 DEF Inv, WaysOK, FreshAsAsked
<1>15. /\ Epoch <= now'
       /\ \A b \in Browsers, pv \in Providers :
             sso'[b][pv] # None => Epoch <= sso'[b][pv].at /\ sso'[b][pv].at <= now'
  BY <1>3 DEF Inv
<1> QED BY <1>5, <1>10, <1>11, <1>12, <1>13, <1>14, <1>15 DEF Inv, Found

-----------------------------------------------------------------------------
(* The shared session and the app sessions.                                 *)

LEMMA SaveSignedInKeeps ==
    ASSUME Inv, NEW f \in Flows, SaveSignedIn(f)
    PROVE  Inv'
<1>1. PICK c, b : c = flow[f] /\ b = c.req.browser
  OBVIOUS
<1>2. PICK at, sh : at = (IF c.req.way = Card THEN now ELSE c.authTime) /\ sh = shared[b]
  OBVIOUS
<1>3. PICK nth, checked :
         /\ nth = (IF Live(sh) /\ sh.subject = c.subject THEN sh.kept + 1 ELSE 1)
         /\ checked = (IF c.req.way = Card THEN now ELSE c.checked)
  OBVIOUS
<1>4. PICK w : w = [loa |-> c.id.loa, authTime |-> at, ends |-> now + SessionTTL,
                    nth |-> nth, true |-> c.true]
  OBVIOUS
<1>5. PICK z : z = [subject |-> c.subject, code |-> c.id.code, method |-> c.id.method,
                    loa |-> c.id.loa, authTime |-> at, issuer |-> c.id.issuer,
                    guest |-> c.id.guest, true |-> c.true, ask |-> c.req.ask,
                    since |-> c.req.started, checked |-> checked]
  OBVIOUS
<1>6. PICK j : j = JoinShared(c, w)
  OBVIOUS
<1>7. /\ c.pc = "mapped" /\ shared' = [shared EXCEPT ![b] = j]
      /\ \/ signed' = signed \cup {z} /\ UNCHANGED faults
         \/ UNCHANGED signed /\ Fault
      /\ flow' = [flow EXCEPT ![f] = Over]
      /\ UNCHANGED <<now, sso, persons, credential, registered, answered>>
  BY <1>1, <1>2, <1>3, <1>4, <1>5, <1>6 DEF SaveSignedIn, End
<1>8. /\ c.req \in Request /\ c.id \in Identity /\ c.true \in True
      /\ c.authTime \in Nat /\ c.checked \in Nat /\ c.subject \in Nat
  BY <1>1, <1>7, Kinds
<1>9. /\ c.id.code \in Codes \cup {None} /\ c.id.method \in Methods /\ c.id.loa \in Levels
      /\ c.id.issuer \in Names \cup {None} /\ c.id.guest \in BOOLEAN
  BY <1>8 DEF Identity
<1>10. /\ b \in Browsers /\ c.req.way \in Ways /\ c.req.ask \in Ask /\ c.req.started \in Nat
       /\ c.true.at \in Nat /\ c.true.by \in Ways /\ c.true.who \in People
       /\ c.req.ask.maxAge \in Nat \cup {None}
  BY <1>1, <1>8 DEF Request, True, Ask
<1>11. sh \in Shared \cup {None}
  BY <1>2, <1>10 DEF Inv, TypeOK
<1>12. sh # None => /\ sh.kept \in Nat /\ sh.ends \in Nat
                    /\ \A m \in Methods : sh.ways[m] \in Way \cup {None}
  BY <1>11 DEF Shared
<1>13. w \in Way
  <2>1. at \in Nat /\ now + SessionTTL \in Nat /\ nth \in Nat
    BY <1>2, <1>3, <1>8, <1>12, Times DEF Live
  <2> QED BY <1>4, <1>8, <1>9, <2>1 DEF Way
<1>14. /\ j.subject = c.subject /\ j.code = c.id.code
       /\ j.ways = [m \in Methods |->
                      IF m = c.id.method THEN w
                      ELSE IF Live(sh) /\ sh.subject = c.subject THEN sh.ways[m] ELSE None]
  BY <1>1, <1>2, <1>6 DEF JoinShared
<1>15. j \in Shared
  <2>1. w.nth \in Nat /\ w.ends \in Nat
    BY <1>13 DEF Way
  <2>2. j.ways \in [Methods -> Way \cup {None}]
    <3>1. \A m \in Methods : (IF m = c.id.method THEN w
             ELSE IF Live(sh) /\ sh.subject = c.subject THEN sh.ways[m] ELSE None)
                \in Way \cup {None}
      BY <1>12, <1>13 DEF Live
    <3> QED BY <1>14, <3>1
  <2>3. (IF Live(sh) /\ sh.subject = c.subject THEN Later(sh.ends, w.ends) ELSE w.ends) \in Nat
    BY <1>12, <2>1 DEF Live, Later
  <2>4. PICK e, v : /\ e = (IF Live(sh) /\ sh.subject = c.subject
                            THEN Later(sh.ends, w.ends) ELSE w.ends)
                    /\ v = j.ways
    OBVIOUS
  <2>5. j = [subject |-> c.subject, code |-> c.id.code, issuer |-> c.id.issuer,
             guest |-> c.id.guest, ways |-> v, kept |-> w.nth, ends |-> e]
    BY <1>1, <1>2, <1>6, <1>14, <2>4 DEF JoinShared
  <2> QED BY <1>8, <1>9, <2>1, <2>2, <2>3, <2>4, <2>5 DEF Shared
<1>16. z \in Session
  <2>1. at \in Nat /\ checked \in Nat
    BY <1>2, <1>3, <1>8, Times
  <2> QED BY <1>5, <1>8, <1>9, <1>10, <2>1 DEF Session
<1>17. /\ shared'[b] = j /\ \A a \in Browsers : a # b => shared'[a] = shared[a]
       /\ shared' \in [Browsers -> Shared \cup {None}]
  BY <1>7, <1>10, <1>15 DEF Inv, TypeOK
<1>18. /\ c.true.by = c.req.way /\ c.checked <= now /\ now <= c.checked + Stall
       /\ c.checked < c.req.started + FlowTTL
       /\ c.req.way = Card => c.true.at >= c.req.started
       /\ MomentOK(c.authTime, c.true)
       /\ ForcedLogin(c.req.ask) => c.true.at >= c.req.started - Early(c.true.by)
       /\ c.req.ask.maxAge # None =>
             c.checked - c.true.at <= c.req.ask.maxAge + Late(c.true.by)
  BY <1>1, <1>7 DEF Inv, MappedOK
<1>19. c.req.way = Card => now - c.true.at <= FlowTTL + Stall /\ Late(c.true.by) = FlowTTL + Stall
  <2>1. Card \notin StatesTime
    BY ProviderAssumption
  <2> QED BY <1>8, <1>10, <1>18, <2>1, Times DEF Late
<1>20. MomentOK(at, c.true)
  <2>1. CASE c.req.way = Card
    BY <2>1, <1>2, <1>19 DEF MomentOK
  <2>2. CASE c.req.way # Card
    BY <2>2, <1>2, <1>18
  <2> QED BY <2>1, <2>2
<1>21. /\ z.ask.login => z.true.at >= z.since - Early(z.true.by)
       /\ z.ask.maxAge # None => z.checked - z.true.at <= z.ask.maxAge + Late(z.true.by)
  <2>1. z.ask = c.req.ask /\ z.true = c.true /\ z.since = c.req.started /\ z.checked = checked
    BY <1>5
  <2>2. c.req.ask.login => c.true.at >= c.req.started - Early(c.true.by)
    BY <1>18 DEF ForcedLogin
  <2>3. ASSUME c.req.ask.maxAge # None
        PROVE  checked - c.true.at <= c.req.ask.maxAge + Late(c.true.by)
    <3>1. CASE c.req.way = Card
      <4>1. checked = now /\ c.req.ask.maxAge \in Nat
        BY <3>1, <2>3, <1>3, <1>10
      <4> QED BY <3>1, <4>1, <1>10, <1>19, Times
    <3>2. CASE c.req.way # Card
      BY <3>2, <2>3, <1>3, <1>18
    <3> QED BY <3>1, <3>2
  <2> QED BY <2>1, <2>2, <2>3
<1>22. PICK o \in [DOMAIN persons -> People] : Owner(o)
  BY DEF Inv
<1>23. /\ \A y \in DOMAIN persons : persons[y] # None => persons[y] = Code[o[y]]
       /\ \A pv \in Providers, h \in People :
             Credential(pv, h) \in DOMAIN credential => o[credential[Credential(pv, h)]] = h
       /\ \A g \in Flows : flow[g].pc = "mapped" =>
             Of(o, flow[g].subject, flow[g].id.code, flow[g].true)
       /\ \A a \in Browsers : shared[a] # None => \A m \in Methods : shared[a].ways[m] # None =>
             Of(o, shared[a].subject, shared[a].code, shared[a].ways[m].true)
       /\ \A s \in signed : Of(o, s.subject, s.code, s.true)
       /\ \A s \in registered :
             s.subject \in DOMAIN persons /\ o[s.subject] = s.who
             /\ persons[s.subject] = Code[s.who] /\ Code[s.who] # None
  BY <1>22 DEF Owner
<1>24. Of(o, c.subject, c.id.code, c.true)
  BY <1>1, <1>7, <1>23
<1>25. ASSUME NEW m \in Methods, j.ways[m] # None
       PROVE  Of(o, j.subject, j.code, j.ways[m].true) /\
              MomentOK(j.ways[m].authTime, j.ways[m].true)
  <2>1. CASE m = c.id.method
    <3>1. j.ways[m] = w /\ w.true = c.true /\ w.authTime = at
      BY <2>1, <1>4, <1>14
    <3> QED BY <3>1, <1>14, <1>20, <1>24
  <2>2. CASE m # c.id.method
    <3>1. Live(sh) /\ sh.subject = c.subject /\ j.ways[m] = sh.ways[m] /\ sh.ways[m] # None
      BY <2>2, <1>14, <1>25
    <3>2. PICK u : u = sh.ways[m].true
      OBVIOUS
    <3>3. Of(o, sh.subject, sh.code, u)
      BY <1>2, <1>10, <1>23, <3>1, <3>2 DEF Live
    <3>4. Of(o, c.subject, c.id.code, u)
      BY <1>24, <3>1, <3>3 DEF Of
    <3>5. MomentOK(sh.ways[m].authTime, sh.ways[m].true)
      BY <1>2, <1>10, <3>1 DEF Live, Inv, WaysOK
    <3> QED BY <3>1, <3>2, <3>4, <3>5, <1>14
  <2> QED BY <2>1, <2>2
<1>26. \A x, d, u : Of(o, x, d, u)' <=> Of(o, x, d, u)
  BY <1>7 DEF Of, Settled
<1>27. /\ flow' \in [Flows -> Flow] /\ flow'[f] = Over
       /\ \A g \in Flows : g # f => flow'[g] = flow[g]
  BY <1>7, FlowSet DEF Flow
<1>28. Owner(o)'
  <2>1. (\A g \in Flows : flow[g].pc = "mapped" =>
           Of(o, flow[g].subject, flow[g].id.code, flow[g].true))'
    BY <1>23, <1>26, <1>27 DEF Over
  <2>2. (\A a \in Browsers : shared[a] # None => \A m \in Methods : shared[a].ways[m] # None =>
           Of(o, shared[a].subject, shared[a].code, shared[a].ways[m].true))'
    <3> SUFFICES ASSUME NEW a \in Browsers, NEW m \in Methods, shared'[a] # None,
                        shared'[a].ways[m] # None
                 PROVE  Of(o, shared[a].subject, shared[a].code, shared[a].ways[m].true)'
      OBVIOUS
    <3>1. CASE a = b
      BY <3>1, <1>17, <1>25, <1>26
    <3>2. CASE a # b
      BY <3>2, <1>17, <1>23, <1>26
    <3> QED BY <3>1, <3>2
  <2>3. (\A s \in signed : Of(o, s.subject, s.code, s.true))'
    <3>1. Of(o, z.subject, z.code, z.true)
      BY <1>5, <1>24
    <3> QED BY <3>1, <1>7, <1>23, <1>26
  <2> QED BY <2>1, <2>2, <2>3, <1>7, <1>22, <1>23 DEF Owner
<1>29. \A g \in Flows : (SentOK(g) /\ ReturnedOK(g) /\ AnswerOK(g) /\ MappedOK(g))'
  <2>1. \A g \in Flows : g # f => SentOK(g)' /\ ReturnedOK(g)' /\ AnswerOK(g)' /\ MappedOK(g)'
    <3>1. flow'[f].pc = "over"
      BY <1>27 DEF Over
    <3> QED BY <3>1, <1>1, <1>7, <1>27, OthersStay
  <2>2. (SentOK(f) /\ ReturnedOK(f) /\ AnswerOK(f) /\ MappedOK(f))'
    BY <1>27 DEF SentOK, ReturnedOK, AnswerOK, MappedOK, Over
  <2> QED BY <2>1, <2>2
<1>30. TypeOK'
  <2>1. TypeOK
    BY DEF Inv
  <2>2. signed' \subseteq Session /\ faults' \in Nat
    BY <2>1, <1>7, <1>16 DEF TypeOK, Fault
  <2> QED BY <2>1, <2>2, <1>7, <1>17, <1>27 DEF TypeOK
<1>31. \A a \in Browsers : WaysOK(a)'
  <2> TAKE a \in Browsers
  <2>1. CASE a = b
    BY <2>1, <1>17, <1>25 DEF WaysOK, MomentOK
  <2>2. CASE a # b
    BY <2>2, <1>17 DEF Inv, WaysOK
  <2> QED BY <2>1, <2>2
<1>32. FreshAsAsked'
  BY <1>7, <1>21 DEF Inv, FreshAsAsked
<1>33. Numbered' /\ OneOfCode'
  BY <1>7 DEF Inv, Numbered, OneOfCode
<1>34. /\ Epoch <= now'
       /\ \A a \in Browsers, pv \in Providers :
             sso'[a][pv] # None => Epoch <= sso'[a][pv].at /\ sso'[a][pv].at <= now'
  BY <1>7 DEF Inv
<1>35. (\E q \in [DOMAIN persons -> People] : Owner(q))'
  BY <1>7, <1>28
<1> QED BY <1>29, <1>30, <1>31, <1>32, <1>33, <1>34, <1>35 DEF Inv

LEMMA AnswerFromSharedKeeps ==
    ASSUME Inv, NEW r \in Answers, NEW b \in Browsers, NEW named \in Named \cup {{}},
           NEW ask \in Asks, AnswerFromShared(r, b, named, ask)
    PROVE  Inv'
<1>1. PICK sh : sh = shared[b]
  OBVIOUS
<1>2. PICK m \in SharedWay(sh, named, ask) :
         signed' = signed \cup
             {[subject |-> sh.subject, code |-> sh.code, method |-> m,
               loa |-> sh.ways[m].loa, authTime |-> sh.ways[m].authTime,
               issuer |-> sh.issuer, guest |-> sh.guest, true |-> sh.ways[m].true,
               ask |-> ask, since |-> now, checked |-> now]}
  BY <1>1 DEF AnswerFromShared
<1>3. PICK w, z : /\ w = sh.ways[m]
                  /\ z = [subject |-> sh.subject, code |-> sh.code, method |-> m,
                          loa |-> w.loa, authTime |-> w.authTime, issuer |-> sh.issuer,
                          guest |-> sh.guest, true |-> w.true, ask |-> ask,
                          since |-> now, checked |-> now]
  OBVIOUS
<1>4. /\ signed' = signed \cup {z} /\ answered' = answered \cup {r} /\ sh # None /\ ~ask.login
      /\ UNCHANGED <<now, sso, flow, persons, credential, shared, registered, faults>>
  BY <1>1, <1>2, <1>3 DEF AnswerFromShared, Live
<1>5. m \in Methods /\ w # None
      /\ (ask.maxAge # None => w.authTime # Unknown /\ now - w.authTime <= ask.maxAge)
  BY <1>2, <1>3 DEF SharedWay, Fits
<1>6. sh \in Shared /\ w \in Way /\ ask \in Ask
  BY <1>1, <1>3, <1>4, <1>5, TimeAssumption DEF Inv, TypeOK, Shared, Ask
<1>7. /\ w.authTime \in Nat /\ w.loa \in Levels /\ w.true \in True
      /\ w.true.at \in Nat /\ w.true.who \in People /\ w.true.by \in Ways
      /\ ask.maxAge \in Nat \cup {None}
  BY <1>6 DEF Way, True, Ask
<1>8. z \in Session
  BY <1>3, <1>5, <1>6, <1>7, Times DEF Session, Shared
<1>9. MomentOK(w.authTime, w.true)
  BY <1>1, <1>3, <1>4, <1>5 DEF Inv, WaysOK
<1>10. /\ z.ask.login => z.true.at >= z.since - Early(z.true.by)
       /\ z.ask.maxAge # None => z.checked - z.true.at <= z.ask.maxAge + Late(z.true.by)
  <2>1. z.ask = ask /\ z.true = w.true /\ z.checked = now
    BY <1>3
  <2>2. Late(w.true.by) \in Nat
    BY Times, ProviderAssumption DEF Late, Early
  <2>3. ask.maxAge # None => now - w.true.at <= ask.maxAge + Late(w.true.by)
    BY <1>5, <1>7, <1>9, <2>2, Times DEF MomentOK
  <2> QED BY <1>4, <2>1, <2>3
<1>11. TypeOK'
  BY <1>4, <1>8 DEF Inv, TypeOK
<1>12. (\E o \in [DOMAIN persons -> People] : Owner(o))'
  <2>1. PICK o \in [DOMAIN persons -> People] : Owner(o)
    BY DEF Inv
  <2>2. Of(o, z.subject, z.code, z.true)
    BY <1>1, <1>3, <1>4, <1>5, <2>1 DEF Owner
  <2>3. \A x, d, u : Of(o, x, d, u)' <=> Of(o, x, d, u)
    BY <1>4 DEF Of, Settled
  <2>4. (\A s \in signed : Of(o, s.subject, s.code, s.true))'
    BY <1>4, <2>1, <2>2, <2>3 DEF Owner
  <2>5. /\ (\A f \in Flows : flow[f].pc = "mapped" =>
              Of(o, flow[f].subject, flow[f].id.code, flow[f].true))'
        /\ (\A a \in Browsers : shared[a] # None => \A i \in Methods :
              shared[a].ways[i] # None =>
                 Of(o, shared[a].subject, shared[a].code, shared[a].ways[i].true))'
    BY <1>4, <2>1, <2>3 DEF Owner
  <2>6. Owner(o)'
    BY <1>4, <2>1, <2>4, <2>5 DEF Owner
  <2> QED BY <1>4, <2>6
<1>13. \A g \in Flows : (SentOK(g) /\ ReturnedOK(g) /\ AnswerOK(g) /\ MappedOK(g))'
  BY <1>4 DEF Inv, SentOK, ReturnedOK, AnswerOK, MappedOK
<1>14. FreshAsAsked'
  BY <1>4, <1>10 DEF Inv, FreshAsAsked
<1>15. Numbered' /\ OneOfCode' /\ \A a \in Browsers : WaysOK(a)'
  BY <1>4 DEF Inv, Numbered, OneOfCode, WaysOK
<1>16. /\ Epoch <= now'
       /\ \A a \in Browsers, pv \in Providers :
             sso'[a][pv] # None => Epoch <= sso'[a][pv].at /\ sso'[a][pv].at <= now'
  BY <1>4 DEF Inv
<1> QED BY <1>11, <1>12, <1>13, <1>14, <1>15, <1>16 DEF Inv

-----------------------------------------------------------------------------
(* The invariant is inductive.                                              *)

LEMMA InitInv == Init => Inv
<1> SUFFICES ASSUME Init PROVE Inv
  OBVIOUS
<1>1. /\ now = Epoch /\ flow = [f \in Flows |-> Idle] /\ persons = <<>> /\ credential = <<>>
      /\ sso = [b \in Browsers |-> [pv \in Providers |-> None]]
      /\ shared = [b \in Browsers |-> None] /\ signed = {} /\ registered = {} /\ answered = {}
      /\ faults = 0
  BY DEF Init
<1>2. DOMAIN persons = {} /\ DOMAIN credential = {}
  BY <1>1
<1>3. \A f \in Flows : flow[f].pc = "idle"
  BY <1>1 DEF Idle
<1>4. TypeOK
  <2>1. Epoch \in Nat
    BY TimeAssumption
  <2>2. flow \in [Flows -> Flow]
    BY <1>1 DEF Flow
  <2> QED BY <1>1, <1>2, <2>1, <2>2 DEF TypeOK
<1>5. Epoch <= now
  BY <1>1, TimeAssumption
<1>6. \A b \in Browsers, pv \in Providers : sso[b][pv] = None
  BY <1>1
<1>7. Numbered
  <2>1. DOMAIN persons = 1..0 /\ 0 \in Nat
    BY <1>2
  <2> QED BY <2>1 DEF Numbered
<1>8. OneOfCode
  BY <1>2 DEF OneOfCode
<1>9. \E o \in [DOMAIN persons -> People] : Owner(o)
  <2>1. PICK o : o = [x \in DOMAIN persons |-> CHOOSE h \in People : TRUE]
    OBVIOUS
  <2>2. o \in [DOMAIN persons -> People]
    BY <1>2, <2>1
  <2>3. Owner(o)
    BY <1>1, <1>2, <1>3, <2>2 DEF Owner
  <2> QED BY <2>2, <2>3
<1>10. \A f \in Flows : SentOK(f) /\ ReturnedOK(f) /\ AnswerOK(f) /\ MappedOK(f)
  BY <1>3 DEF SentOK, ReturnedOK, AnswerOK, MappedOK
<1>11. (\A b \in Browsers : WaysOK(b)) /\ FreshAsAsked
  BY <1>1 DEF WaysOK, FreshAsAsked
<1> QED BY <1>4, <1>5, <1>6, <1>7, <1>8, <1>9, <1>10, <1>11 DEF Inv

LEMMA NextKeeps ==
    ASSUME Inv, [Next]_vars
    PROVE  Inv'
<1>1. CASE \E f \in Flows : \E b \in Browsers : \E ms \in Named : \E ask \in Asks :
              Start(f, b, ms, ask)
  BY <1>1, StartKeeps
<1>2. CASE \E f \in Flows : \E h \in People : \E said \in SUBSET Words : Authenticate(f, h, said)
  BY <1>2, AuthenticateKeeps
<1>3. CASE \E f \in Flows : \E said \in SUBSET Words : AnswerFromOwnSession(f, said)
  BY <1>3, AnswerFromOwnSessionKeeps
<1>4. CASE \E f \in Flows : \E h \in People : CardSigns(f, h)
  BY <1>4, CardSignsKeeps
<1>5. CASE \E f, g \in Flows : CrossAnswer(f, g)
  BY <1>5, CrossAnswerKeeps
<1>6. CASE \E f \in Flows : \E h \in People : CrossUserInfo(f, h)
  BY <1>6, CrossUserInfoKeeps
<1>7. CASE \E f \in Flows : Callback(f)
  BY <1>7, CallbackKeeps
<1>8. CASE \E f \in Flows : CompleteCard(f)
  BY <1>8, CompleteCardKeeps
<1>9. CASE \E f \in Flows : Refuse(f)
  BY <1>9, RefuseKeeps
<1>10. CASE \E f \in Flows : Fail(f)
  BY <1>10, FailKeeps
<1>11. CASE \E h \in ToRegister : \E typed \in Claims : RegisterPerson(h, typed)
  BY <1>11, RegisterPersonKeeps
<1>12. CASE \E f \in Flows : SaveSignedIn(f)
  BY <1>12, SaveSignedInKeeps
<1>13. CASE \E r \in Answers : \E b \in Browsers : \E named \in Named \cup {{}} :
               \E ask \in Asks : AnswerFromShared(r, b, named, ask)
  BY <1>13, AnswerFromSharedKeeps
<1>14. CASE Tick
  BY <1>14, TickKeeps
<1>15. CASE UNCHANGED vars
  BY <1>15, StutterKeeps
<1> QED
  BY <1>1, <1>2, <1>3, <1>4, <1>5, <1>6, <1>7, <1>8, <1>9, <1>10, <1>11, <1>12, <1>13,
     <1>14, <1>15 DEF Next

LEMMA AlwaysInv == Spec => []Inv
<1>1. Inv /\ [Next]_vars => Inv'
  BY NextKeeps
<1> QED BY <1>1, InitInv, PTL DEF Spec

-----------------------------------------------------------------------------
(* The theorems.                                                            *)

\* The records keep their types: a person's code is one, every credential is of a
\* person the store has (store/postgres.go).
THEOREM TypeCorrect == Spec => []TypeOK
<1>1. Inv => TypeOK
  BY DEF Inv
<1> QED BY <1>1, AlwaysInv, PTL

\* Two people never have one subject, whatever their providers call them, whatever
\* a provider not trusted with codes states, and whichever answers cross
\* (EnsureMapping, store/postgres.go:148; callback, routes/oidc.go).
THEOREM ToldApart == Spec => []PersonsToldApart
<1>1. Inv => PersonsToldApart
  <2> SUFFICES ASSUME Inv PROVE PersonsToldApart
    OBVIOUS
  <2>1. PICK o \in [DOMAIN persons -> People] : Owner(o)
    BY DEF Inv
  <2>2. \A s \in signed : o[s.subject] = s.true.who
    BY <2>1 DEF Owner, Of
  <2> QED BY <2>2 DEF PersonsToldApart
<1> QED BY <1>1, AlwaysInv, PTL

\* Where the entries of one provider are trusted with codes alike, a person has one
\* subject: sign-ins that read their code, two sign-ins at one way, and a
\* registration before or after, all find the same person (establishSession,
\* routes/identity.go:71; registerPerson, routes/persons.go).
THEOREM FoundAgain == Spec => [](AlikeTrusted => PersonFoundAgain)
<1>1. Inv /\ AlikeTrusted => PersonFoundAgain
  <2> SUFFICES ASSUME Inv, AlikeTrusted PROVE PersonFoundAgain
    OBVIOUS
  <2>1. PICK o \in [DOMAIN persons -> People] : Owner(o)
    BY DEF Inv
  <2>2. \A s \in signed :
           /\ s.subject \in DOMAIN persons /\ s.code \in Codes \cup {None}
           /\ s.code # None => persons[s.subject] = s.code
           /\ Settled(s.subject, s.true)
           /\ s.true.who \in People /\ o[s.subject] = s.true.who
    BY <2>1 DEF Owner, Of, Inv, TypeOK, Session, True
  <2>3. \A y \in DOMAIN persons : persons[y] # None => persons[y] = Code[o[y]]
    BY <2>1 DEF Owner
  <2>4. ASSUME NEW s \in signed, NEW t \in signed, s.true.who = t.true.who,
               (s.code # None /\ t.code # None) \/ s.true.by = t.true.by
        PROVE  s.subject = t.subject
    <3>1. CASE s.code # None /\ t.code # None
      <4>1. /\ persons[s.subject] = Code[s.true.who] /\ persons[s.subject] # None
            /\ persons[t.subject] = Code[t.true.who]
        BY <3>1, <2>2, <2>3
      <4> QED BY <4>1, <2>2, <2>4 DEF Inv, OneOfCode
    <3>2. CASE s.true.by = t.true.by
      <4>1. CASE s.true.by \in Providers /\ ~CodeRead(s.true.by, s.true.who)
        BY <4>1, <3>2, <2>2, <2>4 DEF Settled
      <4>2. CASE ~(s.true.by \in Providers /\ ~CodeRead(s.true.by, s.true.who))
        <5>1. /\ persons[s.subject] = Code[s.true.who] /\ Code[s.true.who] # None
              /\ persons[t.subject] = Code[t.true.who]
          BY <4>2, <3>2, <2>2, <2>4 DEF Settled
        <5> QED BY <5>1, <2>2, <2>4 DEF Inv, OneOfCode
      <4> QED BY <4>1, <4>2
    <3> QED BY <2>4, <3>1, <3>2
  <2>5. ASSUME NEW s \in signed, NEW r \in registered, s.true.who = r.who, s.code # None
        PROVE  s.subject = r.subject
    <3>1. /\ r.subject \in DOMAIN persons /\ persons[r.subject] = Code[r.who]
          /\ Code[r.who] # None
      BY <2>1 DEF Owner
    <3>2. persons[s.subject] = Code[s.true.who] /\ s.subject \in DOMAIN persons
      BY <2>2, <2>3, <2>5
    <3> QED BY <3>1, <3>2, <2>5 DEF Inv, OneOfCode
  <2> QED BY <2>4, <2>5 DEF PersonFoundAgain
<1>2. Inv => (AlikeTrusted => PersonFoundAgain)
  BY <1>1
<1> QED BY <1>2, AlwaysInv, PTL

\* A sign-in is as fresh as its request asked for, at the moment it was checked
\* (signInMoment, routes/oidc.go:168; sharedWay, routes/shared.go:89).
THEOREM Fresh == Spec => []FreshAsAsked
<1>1. Inv => FreshAsAsked
  BY DEF Inv
<1> QED BY <1>1, AlwaysInv, PTL

=============================================================================
