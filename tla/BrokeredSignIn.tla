--------------------------- MODULE BrokeredSignIn ---------------------------
(***************************************************************************)
(* Who a sign-in signs in, and how fresh it is: the request sent on to an   *)
(* identity provider (routes/authorize.go, oidc.go), the provider's answer  *)
(* read and checked (upstream/upstream.go, set.go), interpreted             *)
(* (identity/identity.go), mapped to a person (store/postgres.go) and kept  *)
(* as a way of the browser's shared session, which later requests are       *)
(* answered from (routes/shared.go).  The card is the same with the card    *)
(* engine in the provider's place (routes/webeid.go).                       *)
(*                                                                         *)
(* SignInFlow says which answer reaches which flow, SharedSession how a     *)
(* sign-in, an answer and a sign-out interleave on the stored records; here *)
(* both are whole, and the sign-ins are those of a product, not an AI app.  *)
(* The providers, the card engine and the identity store are outside the    *)
(* repository.  Several people may use one browser, and a provider keeps a  *)
(* session of its own there.                                                *)
(***************************************************************************)
EXTENDS Integers, FiniteSets

CONSTANTS
    Flows,        \* the sign-ins
    Answers,      \* the requests answered from the shared session
    Browsers,
    People,
    Providers,    \* the entries of the set
    Card,         \* the card's own door, and the provider of its credentials
    Methods,      \* the login methods
    CardMethod,   \* LoginWebEID
    NoMethod,     \* LoginEID, the method no provider may deliver
    Levels,       \* the levels of assurance
    CardLevel,    \* LoAHigh, the card's
    Words,        \* the words a provider's acr and amr may contain
    Names,        \* issuers and authorities
    Countries,
    Digits,       \* national codes without their country
    Handles,      \* what a provider calls a person; the card's is the code
    None,
    Code,         \* the identity code of a person, None for no code
    Handle,       \* Handle[pv][h], the durable identifier of h at pv
    Claim,        \* Claim[w][h], the code as way w states it
    Accounts,     \* Accounts[pv], the people pv signs in
    Guests,       \* Guests[pv], whom pv calls a guest
    Says,         \* Says[pv], what an answer of pv may say in acr and amr
    Trusts,       \* TrustIdentityCodes
    Keyed,        \* JWKSURL is known: the providers whose id_token is read
    StatesTime,   \* the providers whose id_token carries auth_time
    Offset,       \* how far a provider's clock is ahead of the service's
    Honours,      \* the providers that sign a person in again when asked to
    Issuer,       \* Config.Issuer, None when it is not known
    Authority,    \* Config.AuthorityURL
    Holder,       \* HoldsStored
    Country,      \* Config.Country, None when no profile sets it
    MethodPolicy, \* the vocabularies: words with the value each stands for
    LoAPolicy,
    MethodDefault,
    LoADefault,
    MethodsAllowed,
    ToRegister,   \* the people an administrator may register
    Named,        \* the sets of methods a request may ask for
    Asks,         \* the prompt and max_age a request may carry
    SessionTTL,
    FlowTTL,
    Skew,         \* authTimeSkew
    Stall,        \* the longest a return's handler takes
    Epoch,        \* where the clock starts
    MaxTime,      \* the bound on the clock
    MaxFaults     \* the bound on failed calls and crossed answers

Ways == Providers \cup {Card}

\* Provider.Identifier: the issuer, else the authority.
Identifier(pv) == IF Issuer[pv] # None THEN Issuer[pv] ELSE Authority[pv]

Codes == [country : Countries, digits : Digits]

\* A code as it is written: a bare one names no country.
Claims == [country : Countries \cup {None}, digits : Digits]

\* What is true of every code a way is trusted with: it is the person's own, and
\* a bare one is of the register the profile's Country names.
Truthful(claim, country, h) ==
    claim # None =>
        /\ Code[h] # None
        /\ claim.digits = Code[h].digits
        /\ claim.country # None => claim.country = Code[h].country
        /\ claim.country = None /\ country # None => country = Code[h].country

\* A policy entry: its word, the word's length and its place in the alphabet.
Entries(values) == [word : Words, len : Nat, rank : Nat, value : values]

ASSUME PeopleAssumption ==
    /\ Code \in [People -> Codes \cup {None}]
    /\ \A g, h \in People : Code[g] = Code[h] /\ Code[g] # None => g = h
    /\ Handle \in [Providers -> [People -> Handles]]
    /\ \A p, q \in Providers : \A g, h \in People :
          Identifier(p) = Identifier(q) /\ Handle[p][g] = Handle[q][h] => g = h
    /\ Claim \in [Ways -> [People -> Claims \cup {None}]]
    /\ \A pv \in Trusts : \A h \in People : Truthful(Claim[pv][h], Country[pv], h)
    /\ \A h \in People : Code[h] # None => Truthful(Claim[Card][h], Code[h].country, h)
    /\ \A h \in People : Code[h] # None => Claim[Card][h] # None
    /\ ToRegister \subseteq {h \in People : Code[h] # None}

ASSUME ProviderAssumption ==
    /\ Card \notin Providers \cup Names
    /\ None \notin Ways \cup Names \cup Countries \cup Flows \cup People
    /\ None \notin Claims
    /\ CardMethod \in Methods /\ NoMethod \in Methods
    /\ CardLevel \in Levels
    /\ Accounts \in [Providers -> SUBSET People]
    /\ Guests \in [Providers -> SUBSET People]
    /\ Says \in [Providers -> SUBSET SUBSET Words]
    /\ Trusts \subseteq Providers /\ Keyed \subseteq Providers
    /\ StatesTime \subseteq Keyed /\ Honours \subseteq Providers
    /\ Issuer \in [Providers -> Names \cup {None}]
    /\ Authority \in [Providers -> Names]
    /\ \A pv \in Keyed : Issuer[pv] # None
    /\ Holder \in Providers
    /\ Country \in [Providers -> Countries \cup {None}]
    /\ MethodPolicy \in [Providers -> SUBSET Entries(Methods)]
    /\ LoAPolicy \in [Providers -> SUBSET Entries(Levels)]
    /\ \A pv \in Providers : IsFiniteSet(LoAPolicy[pv])
    /\ MethodDefault \in [Providers -> Methods]
    /\ LoADefault \in [Providers -> Levels]
    /\ MethodsAllowed \in [Providers -> SUBSET (Methods \ {CardMethod, NoMethod})]
    /\ \A p, q \in Providers : p # q => MethodsAllowed[p] \cap MethodsAllowed[q] = {}

\* Every provider either says when a person authenticated or does as prompt=login
\* asks: of one that does neither, authbyte cannot know how fresh a sign-in is.
ASSUME TimeAssumption ==
    /\ Named \subseteq SUBSET Methods
    /\ Asks \subseteq [login : BOOLEAN, maxAge : Nat \cup {None}]
    /\ None \notin Nat
    /\ SessionTTL \in Nat /\ FlowTTL \in Nat /\ Stall \in Nat /\ Skew \in Nat
    /\ Epoch \in Nat /\ Epoch > Skew /\ MaxTime \in Nat /\ MaxFaults \in Nat
    /\ Offset \in [Providers -> Int]
    /\ \A pv \in Providers : -Skew <= Offset[pv] /\ Offset[pv] <= Skew
    /\ Providers = StatesTime \cup Honours

VARIABLES
    now,         \* the clock
    sso,         \* a provider's own session in a browser: who, and since when
    flow,        \* the sign-ins
    persons,     \* the identity store: each person's code, None for no code
    credential,  \* and the person of a provider's handle
    shared,      \* the shared session of each browser
    signed,      \* the app sessions
    registered,  \* the people an administrator registered, with their subject
    answered,    \* the requests answered from the shared session
    faults       \* the faults so far

vars == <<now, sso, flow, persons, credential, shared, signed, registered, answered, faults>>

-----------------------------------------------------------------------------
(* What is stored.  The fields who, at and by are what really happened: who  *)
(* authenticated, when and where.  No code reads them.                       *)

Unknown == 0

Ask == [login : BOOLEAN, maxAge : Nat \cup {None}]

True == [who : People, at : Nat, by : Ways]

\* A provider's answer, what its code is exchanged for: the flow, the person and
\* the time its id_token is about, what it says in acr and amr, and the person
\* of userinfo.
Answer == [nonce : Flows, token : People, time : Nat, said : SUBSET Words, info : People]

Identity == [code : Codes \cup {None}, handle : Handles \cup Codes, method : Methods,
             loa : Levels, issuer : Names \cup {None}, guest : BOOLEAN]

Request == [browser : Browsers, way : Ways, methods : SUBSET Methods, ask : Ask, started : Nat]

Idle == [pc |-> "idle"]

Over == [pc |-> "over"]

Flow == {Idle, Over}
        \cup [pc : {"sent"}, req : Request]
        \cup [pc : {"returned"}, req : Request, true : True, answer : Answer]
        \cup [pc : {"mapped"}, req : Request, true : True, id : Identity,
              authTime : Nat, checked : Nat, subject : Nat]

\* A way, with its place in the order the sign-ins were kept in.
Way == [loa : Levels, authTime : Nat, ends : Nat, nth : Nat, true : True]

Shared == [subject : Nat, code : Codes \cup {None}, issuer : Names \cup {None},
           guest : BOOLEAN, ways : [Methods -> Way \cup {None}], kept : Nat, ends : Nat]

Session == [subject : Nat, code : Codes \cup {None}, method : Methods, loa : Levels,
            authTime : Nat, issuer : Names \cup {None}, guest : BOOLEAN, true : True,
            ask : Ask, since : Nat, checked : Nat]

Keys == Names \cup {None, Card}

TypeOK ==
    /\ now \in Nat
    /\ sso \in [Browsers -> [Providers -> [who : People, at : Nat] \cup {None}]]
    /\ flow \in [Flows -> Flow]
    /\ DOMAIN persons \subseteq Nat
    /\ \A s \in DOMAIN persons : persons[s] \in Codes \cup {None}
    /\ DOMAIN credential \subseteq Keys \X (Handles \cup Codes)
    /\ \A c \in DOMAIN credential : credential[c] \in DOMAIN persons
    /\ shared \in [Browsers -> Shared \cup {None}]
    /\ signed \subseteq Session
    /\ registered \subseteq [who : People, subject : Nat]
    /\ answered \subseteq Answers
    /\ faults \in Nat

Init ==
    /\ now = Epoch
    /\ sso = [b \in Browsers |-> [pv \in Providers |-> None]]
    /\ flow = [f \in Flows |-> Idle]
    /\ persons = <<>>
    /\ credential = <<>>
    /\ shared = [b \in Browsers |-> None]
    /\ signed = {}
    /\ registered = {}
    /\ answered = {}
    /\ faults = 0

Fault ==
    /\ faults < MaxFaults
    /\ faults' = faults + 1

-----------------------------------------------------------------------------
(* The request, and what the provider does with it.                          *)

\* signInAsk.forcedLogin: prompt=login or any max_age, sent on as prompt=login.
ForcedLogin(ask) == ask.login \/ ask.maxAge # None

\* The ways that offer every one of the methods: one provider, or the card.
ProviderOf(ms) ==
    {pv \in Providers : ms \subseteq MethodsAllowed[pv]} \cup {w \in {Card} : ms = {CardMethod}}

\* A request that is not answered from the shared session starts a sign-in.
Start(f, b, ms, ask) ==
    /\ flow[f] = Idle
    /\ ms # {}
    /\ \E w \in ProviderOf(ms) :
          flow' = [flow EXCEPT ![f] =
                      [pc |-> "sent",
                       req |-> [browser |-> b, way |-> w, methods |-> ms, ask |-> ask,
                                started |-> now]]]
    /\ UNCHANGED <<now, sso, persons, credential, shared, signed, registered, answered, faults>>

\* The provider's answer for a person who authenticated at the moment at.
Returned(f, h, at, said) ==
    flow' = [flow EXCEPT ![f] =
                [pc |-> "returned", req |-> flow[f].req,
                 true |-> [who |-> h, at |-> at, by |-> flow[f].req.way],
                 answer |-> [nonce |-> f, token |-> h, time |-> at, said |-> said, info |-> h]]]

\* A person authenticates at the provider, whatever session it had there.
Authenticate(f, h, said) ==
    /\ flow[f].pc = "sent"
    /\ LET r == flow[f].req
       IN  /\ r.way \in Providers
           /\ h \in Accounts[r.way]
           /\ said \in Says[r.way]
           /\ sso' = [sso EXCEPT ![r.browser][r.way] = [who |-> h, at |-> now]]
           /\ Returned(f, h, now, said)
    /\ UNCHANGED <<now, persons, credential, shared, signed, registered, answered, faults>>

\* The provider answers from its own session in the browser, unless it was asked
\* for a sign-in and does as it is asked.
AnswerFromOwnSession(f, said) ==
    /\ flow[f].pc = "sent"
    /\ LET r == flow[f].req
       IN  /\ r.way \in Providers
           /\ said \in Says[r.way]
           /\ ~ (ForcedLogin(r.ask) /\ r.way \in Honours)
           /\ sso[r.browser][r.way] # None
           /\ Returned(f, sso[r.browser][r.way].who, sso[r.browser][r.way].at, said)
    /\ UNCHANGED <<now, sso, persons, credential, shared, signed, registered, answered, faults>>

\* A person's card signs the flow's own challenge.
CardSigns(f, h) ==
    /\ flow[f].pc = "sent"
    /\ flow[f].req.way = Card
    /\ Code[h] # None
    /\ Returned(f, h, now, {})
    /\ UNCHANGED <<now, sso, persons, credential, shared, signed, registered, answered, faults>>

\* The answer to another sign-in arrives for this one.  Where no id_token is read
\* nothing in an answer says which sign-in it is for, and the providers are taken
\* to answer the one that asked.
CrossAnswer(f, g) ==
    /\ f # g
    /\ flow[f].pc = "returned" /\ flow[g].pc = "returned"
    /\ flow[f].req.way = flow[g].req.way
    /\ flow[f].req.way \in Keyed
    /\ Fault
    /\ flow' = [flow EXCEPT ![f].answer = flow[g].answer]
    /\ UNCHANGED <<now, sso, persons, credential, shared, signed, registered, answered>>

\* Userinfo answers about somebody else.
CrossUserInfo(f, h) ==
    /\ flow[f].pc = "returned"
    /\ flow[f].req.way \in Keyed
    /\ flow[f].answer.info # h
    /\ Fault
    /\ flow' = [flow EXCEPT ![f].answer.info = h]
    /\ UNCHANGED <<now, sso, persons, credential, shared, signed, registered, answered>>

-----------------------------------------------------------------------------
(* The return: the answer is read, checked and interpreted.                  *)

\* identitycode.Canonical: the country in the code wins over the one beside it,
\* and a code that is left without one has no canonical spelling.
CountryOf(claim, country) == IF claim.country # None THEN claim.country ELSE country

\* Mutant: the code is kept as it was sent.
Canonical_AsSent(claim, country) == claim

Canonical(claim, country) == [country |-> CountryOf(claim, country), digits |-> claim.digits]

\* Mutant: the claim is read whoever sends it.
CodeRead_AnyProvider(pv, h) == Claim[pv][h] # None

\* mapUserInfo: a provider not trusted with codes has its claim left unread.
CodeRead(pv, h) == pv \in Trusts /\ Claim[pv][h] # None

\* ErrIdentityCode
IdentityCodeKept(pv, h) == CodeRead(pv, h) => CountryOf(Claim[pv][h], Country[pv]) # None

SerialNumber(pv, h) == IF CodeRead(pv, h) THEN Canonical(Claim[pv][h], Country[pv]) ELSE None

\* verifyIDToken: the token is for this flow.
VerifyIDToken(f, a) == a.nonce = f

\* ErrIDToken: nothing is read of a provider whose key set is not known.
IDTokenHolds(f, pv, a) ==
    pv \in Keyed => VerifyIDToken(f, a) /\ a.token = a.info

\* info.AuthTime, of the verified token only.
AuthTime(pv, a) == IF pv \in StatesTime THEN a.time + Offset[pv] ELSE Unknown

\* indexPolicy: longest words first, words of one length by the alphabet.
Before(k, o) == k.len > o.len \/ (k.len = o.len /\ k.rank <= o.rank)

\* matchPolicy: the value of the first word of the vocabulary that is said.
Match(policy, default, said) ==
    LET found == {k \in policy : k.word \in said}
    IN  IF found = {} THEN default
        ELSE (CHOOSE k \in found : \A o \in found : Before(k, o)).value

\* Claims and Resolve: what the platform makes of an answer of pv.
Resolve(pv, a) ==
    [code |-> SerialNumber(pv, a.info), handle |-> Handle[pv][a.info],
     method |-> Match(MethodPolicy[pv], MethodDefault[pv], a.said),
     loa |-> Match(LoAPolicy[pv], LoADefault[pv], a.said),
     issuer |-> Issuer[pv], guest |-> a.info \in Guests[pv]]

\* signInMoment: the provider's time, else this moment when it had to sign the
\* person in again, else unknown.
SignInMoment(ask, stated) ==
    IF stated > Unknown THEN stated ELSE IF ForcedLogin(ask) THEN now ELSE Unknown

\* Mutant: the sign-in's age is left to the provider.
TooOld_NoAge(req, stated) ==
    ForcedLogin(req.ask) /\ stated > Unknown /\ stated < req.started - Skew

\* errAuthenticationTooOld
TooOld(req, stated) ==
    \/ ForcedLogin(req.ask) /\ stated > Unknown /\ stated < req.started - Skew
    \/ /\ req.ask.maxAge # None
       /\ SignInMoment(req.ask, stated) > Unknown
       /\ now - SignInMoment(req.ask, stated) - Skew > req.ask.maxAge

\* webeidIdentity: the code is keyed under the country of the card's certificate,
\* and it is the credential's handle as well.
WebEIDIdentity(h) ==
    LET code == Canonical(Claim[Card][h], Code[h].country)
    IN  [code |-> code, handle |-> code, method |-> CardMethod, loa |-> CardLevel,
         issuer |-> None, guest |-> FALSE]

\* Everything a return is held against before anything is written: the flow is
\* still there, the answer holds, and the method is one the provider may deliver
\* and one the request asked for.
Accepted(f) ==
    LET r == flow[f].req
        a == flow[f].answer
    IN  /\ now < r.started + FlowTTL
        /\ r.way \in Providers =>
              /\ IdentityCodeKept(r.way, a.info)
              /\ IDTokenHolds(f, r.way, a)
              /\ Resolve(r.way, a).method \in MethodsAllowed[r.way] \cap r.methods
              /\ ~TooOld(r, AuthTime(r.way, a))
        /\ r.way = Card => CardMethod \in r.methods

End(f) == flow' = [flow EXCEPT ![f] = Over]

\* A refused sign-in writes nothing.
Refuse(f) ==
    /\ flow[f].pc = "returned"
    /\ ~Accepted(f)
    /\ End(f)
    /\ UNCHANGED <<now, sso, persons, credential, shared, signed, registered, answered, faults>>

\* A call to the provider, the card engine, the identity store or the session
\* store fails: the sign-in ends where it is.
Fail(f) ==
    /\ flow[f].pc \in {"returned", "mapped"}
    /\ Fault
    /\ End(f)
    /\ UNCHANGED <<now, sso, persons, credential, shared, signed, registered, answered>>

-----------------------------------------------------------------------------
(* The person, in the identity store.                                        *)

\* Entry.CredentialProvider (NewSet): the holder of the stored sign-ins, and any
\* entry of the holder's own provider, keep no provider; the card its own name.
CredentialProvider(w) ==
    CASE w = Card -> Card
      [] w \in Providers /\ Identifier(w) = Identifier(Holder) -> None
      [] OTHER -> Identifier(w)

\* The person the store answers with: the one with the code where there is a
\* code, the one of the credential where there is none, else a new one.
PersonOf(code, cred) ==
    LET known == {s \in DOMAIN persons : persons[s] = code}
    IN  IF code # None /\ known # {} THEN CHOOSE s \in known : TRUE
        ELSE IF code = None /\ cred \in DOMAIN credential THEN credential[cred]
        ELSE Cardinality(DOMAIN persons) + 1

Keep(s, code) ==
    persons' = [i \in DOMAIN persons \cup {s} |-> IF i \in DOMAIN persons THEN persons[i] ELSE code]

\* establishSession: identity.upsert finds or makes the person and links the
\* credential.
EstablishSession(f, id, authTime) ==
    LET cred == <<CredentialProvider(flow[f].req.way), id.handle>>
        s == PersonOf(id.code, cred)
    IN  /\ Keep(s, id.code)
        /\ credential' = [k \in DOMAIN credential \cup {cred} |->
                             IF k = cred THEN s ELSE credential[k]]
        /\ flow' = [flow EXCEPT ![f] =
                       [pc |-> "mapped", req |-> flow[f].req, true |-> flow[f].true,
                        id |-> id, authTime |-> authTime, checked |-> now, subject |-> s]]

\* callback, up to the person.
Callback(f) ==
    /\ flow[f].pc = "returned"
    /\ flow[f].req.way \in Providers
    /\ Accepted(f)
    /\ LET r == flow[f].req
           a == flow[f].answer
       IN  EstablishSession(f, Resolve(r.way, a), SignInMoment(r.ask, AuthTime(r.way, a)))
    /\ UNCHANGED <<now, sso, shared, signed, registered, answered, faults>>

\* completeCard, up to the person.
CompleteCard(f) ==
    /\ flow[f].pc = "returned"
    /\ flow[f].req.way = Card
    /\ Accepted(f)
    /\ EstablishSession(f, WebEIDIdentity(flow[f].true.who), Unknown)
    /\ UNCHANGED <<now, sso, shared, signed, registered, answered, faults>>

\* registerPerson: an administrator types a code, which has to name its country,
\* and the person gets a subject and no credential.
RegisterPerson(h, typed) ==
    /\ Truthful(typed, None, h)
    /\ CountryOf(typed, None) # None
    /\ LET s == PersonOf(Canonical(typed, None), None)
       IN  /\ Keep(s, Canonical(typed, None))
           /\ registered' = registered \cup {[who |-> h, subject |-> s]}
    /\ UNCHANGED <<now, sso, flow, credential, shared, signed, answered, faults>>

-----------------------------------------------------------------------------
(* The shared session.                                                       *)

Live(sh) == sh # None /\ now < sh.ends

Later(a, b) == IF a > b THEN a ELSE b

\* joinShared: the same person's shared session gains the way (Shared.Keep), and
\* anyone else's gives way to a new one; keepPerson writes the person onto it.
JoinShared(c, w) ==
    LET sh == shared[c.req.browser]
        same == Live(sh) /\ sh.subject = c.subject
    IN  [subject |-> c.subject, code |-> c.id.code, issuer |-> c.id.issuer,
         guest |-> c.id.guest,
         ways |-> [m \in Methods |-> IF m = c.id.method THEN w
                                     ELSE IF same THEN sh.ways[m] ELSE None],
         kept |-> w.nth,
         ends |-> IF same THEN Later(sh.ends, w.ends) ELSE w.ends]

\* saveSignedIn.  The card's moment is this one, and its session states no
\* directory; the app session may fail to be stored after the shared one was.
SaveSignedIn(f) ==
    /\ flow[f].pc = "mapped"
    /\ LET c == flow[f]
           at == IF c.req.way = Card THEN now ELSE c.authTime
           sh == shared[c.req.browser]
           w == [loa |-> c.id.loa, authTime |-> at, ends |-> now + SessionTTL,
                 nth |-> IF Live(sh) /\ sh.subject = c.subject THEN sh.kept + 1 ELSE 1,
                 true |-> c.true]
           sess == [subject |-> c.subject, code |-> c.id.code, method |-> c.id.method,
                    loa |-> c.id.loa, authTime |-> at, issuer |-> c.id.issuer,
                    guest |-> c.id.guest, true |-> c.true, ask |-> c.req.ask,
                    since |-> c.req.started,
                    checked |-> IF c.req.way = Card THEN now ELSE c.checked]
       IN  /\ shared' = [shared EXCEPT ![c.req.browser] = JoinShared(c, w)]
           /\ \/ signed' = signed \cup {sess} /\ UNCHANGED faults
              \/ UNCHANGED signed /\ Fault
    /\ End(f)
    /\ UNCHANGED <<now, sso, persons, credential, registered, answered>>

\* sharedWay: a way that has not ended, of a method asked for, of a known moment
\* no older than max_age.
Fits(sh, m, named, ask) ==
    /\ sh.ways[m] # None
    /\ now < sh.ways[m].ends
    /\ named # {} => m \in named
    /\ ask.maxAge # None => /\ sh.ways[m].authTime # Unknown
                            /\ now - sh.ways[m].authTime <= ask.maxAge

\* The methods of the ways that fit, most recent first.
SharedWay(sh, named, ask) ==
    LET fitting == {m \in Methods : Fits(sh, m, named, ask)}
    IN  {m \in fitting : \A o \in fitting : sh.ways[o].nth <= sh.ways[m].nth}

\* answerFromShared: the person of the shared session, and the way.
AnswerFromShared(r, b, named, ask) ==
    /\ r \notin answered
    /\ Live(shared[b])
    /\ ~ask.login /\ ask.maxAge # 0
    /\ LET sh == shared[b]
       IN  \E m \in SharedWay(sh, named, ask) :
              signed' = signed \cup
                  {[subject |-> sh.subject, code |-> sh.code, method |-> m,
                    loa |-> sh.ways[m].loa, authTime |-> sh.ways[m].authTime,
                    issuer |-> sh.issuer, guest |-> sh.guest, true |-> sh.ways[m].true,
                    ask |-> ask, since |-> now, checked |-> now]}
    /\ answered' = answered \cup {r}
    /\ UNCHANGED <<now, sso, flow, persons, credential, shared, registered, faults>>

\* Time passes; a return's handler takes no longer than Stall.
Tick ==
    /\ now < Epoch + MaxTime
    /\ \A f \in Flows : flow[f].pc = "mapped" => now < flow[f].checked + Stall
    /\ now' = now + 1
    /\ UNCHANGED <<sso, flow, persons, credential, shared, signed, registered, answered, faults>>

Next ==
    \/ \E f \in Flows : \E b \in Browsers : \E ms \in Named : \E ask \in Asks : Start(f, b, ms, ask)
    \/ \E f \in Flows : \E h \in People : \E said \in SUBSET Words : Authenticate(f, h, said)
    \/ \E f \in Flows : \E said \in SUBSET Words : AnswerFromOwnSession(f, said)
    \/ \E f \in Flows : \E h \in People : CardSigns(f, h)
    \/ \E f, g \in Flows : CrossAnswer(f, g)
    \/ \E f \in Flows : \E h \in People : CrossUserInfo(f, h)
    \/ \E f \in Flows : Callback(f)
    \/ \E f \in Flows : CompleteCard(f)
    \/ \E f \in Flows : Refuse(f)
    \/ \E f \in Flows : Fail(f)
    \/ \E h \in ToRegister : \E typed \in Claims : RegisterPerson(h, typed)
    \/ \E f \in Flows : SaveSignedIn(f)
    \/ \E r \in Answers : \E b \in Browsers : \E named \in Named \cup {{}} : \E ask \in Asks :
          AnswerFromShared(r, b, named, ask)
    \/ Tick

Spec == Init /\ [][Next]_vars

-----------------------------------------------------------------------------
(* Properties.                                                               *)

\* Two people never have one subject (EnsureMapping, store/postgres.go:148):
\* whatever handles their providers give them, whatever code a provider that is
\* not trusted states, and whichever answers cross, the subject an app session
\* carries is the subject of the person who authenticated for it, and nobody
\* else's.
PersonsToldApart ==
    \A s, t \in signed : s.subject = t.subject => s.true.who = t.true.who

\* A person has one subject (routes/identity.go:71): sign-ins that read their
\* code, by the card or any provider trusted with codes and however it spells
\* them, a registration before or after, and two sign-ins at one provider, all
\* find the same person.
PersonFoundAgain ==
    /\ \A s, t \in signed :
          /\ s.true.who = t.true.who
          /\ \/ s.code # None /\ t.code # None
             \/ s.true.by = t.true.by
          => s.subject = t.subject
    /\ \A s \in signed : \A r \in registered :
          s.true.who = r.who /\ s.code # None => s.subject = r.subject

\* How much earlier than a stated time a person may have authenticated, for the
\* skew allowed and the provider's clock.
Early(w) == IF w \in StatesTime THEN Skew + Offset[w] ELSE 0

\* How much earlier than the moment recorded: where no time is stated that moment is
\* the return's, and the sign-in took its time.
Late(w) == IF w \in StatesTime THEN Early(w) ELSE FlowTTL + Stall

\* A client is answered with a sign-in as fresh as it asked for (signInMoment,
\* routes/oidc.go:168; sharedWay, routes/shared.go:89): one it asked to be made
\* now was made after it asked, and one with a max_age is no older than that, at
\* the moment it was checked, whether a provider answered from a session of its
\* own, the card did, or the browser's shared session.
FreshAsAsked ==
    \A s \in signed :
        /\ s.ask.login => s.true.at >= s.since - Early(s.true.by)
        /\ s.ask.maxAge # None => s.checked - s.true.at <= s.ask.maxAge + Late(s.true.by)

\* session/session.go:126: DirectoryIssuer is the identity provider the session's
\* login came through, none for the card, and the guest mark is that provider's.
DirectoryOfItsWay ==
    \A s \in signed :
        /\ s.issuer = (IF s.true.by = Card THEN None ELSE Issuer[s.true.by])
        /\ s.guest = (s.true.by # Card /\ s.true.who \in Guests[s.true.by])

\* identity/identity.go:138: a level an answer names outright wins over what its
\* method words stand for.
LevelNamedWins(explicit) ==
    \A pv \in Providers : \A said \in Says[pv] : \A k \in LoAPolicy[pv] :
        k.word \in said \cap explicit => Match(LoAPolicy[pv], LoADefault[pv], said) = k.value

=============================================================================
