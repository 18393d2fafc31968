----------------------------- MODULE TokenIssue -----------------------------
(***************************************************************************)
(* What the access tokens carry: the token endpoint's grants               *)
(* (routes/token.go, routes/aiapp.go) against the client registry           *)
(* (registry/registry.go) and the membership register (rolebyte), and the   *)
(* tokens exchanged from tokens, hop after hop.  A deployment with a        *)
(* register wired.  What the grants do to the session store, and how they   *)
(* race, is SharedSession and AppConnection: here a grant is one step.      *)
(***************************************************************************)
EXTENDS Integers, Sequences, FiniteSets

CONSTANTS
    People,           \* platform subjects
    ServiceClients,   \* client ids of service clients
    SignInClients,    \* client ids of sign-in clients, AI apps included
    Audiences,        \* audiences: user audiences, resources, service clients
    Register,         \* the register's audience (ROLEBYTE_AUDIENCE)
    Core,             \* this service's own client id, the acting client at the doors
    Boxes,            \* scopes service/feature:act
    Levels,           \* scopes group:level
    DoorScopes,       \* membership:claim, membership:resolve
    Tenants,
    Assistants,       \* assistants' keys
    SessionIds,
    Documents,        \* the registry documents a deployment is given
    Roles,            \* what the register's roles may grant in a tenant
    Members,          \* the subjects whose memberships change
    None,
    MaxHops,          \* the bound on the actors of a token
    MaxTokens         \* the bound on the tokens out at once

Scopes == Boxes \cup Levels

Subjects == People \cup ServiceClients

\* A service client's grant toward an audience.
Grant == [given : BOOLEAN, scopes : SUBSET Scopes, assistant_levels : SUBSET Scopes]

\* A service client: its grants, and the audiences it acts from.  (A document
\* with two grants toward one audience does not start the service.)
Client == [enabled : BOOLEAN, grants : [Audiences -> Grant], act_from : SUBSET Audiences]

SignInClient ==
    [enabled : BOOLEAN, ai_app : BOOLEAN, audience : Audiences, scopes : SUBSET Scopes,
     baseline_scopes : SUBSET Scopes, membership_required : BOOLEAN]

Document == [clients : [ServiceClients -> Client], sign_in : [SignInClients -> SignInClient]]

ASSUME IssueAssumption ==
    /\ Documents \subseteq Document
    /\ Boxes \cap Levels = {}
    /\ Register \in Audiences
    /\ DoorScopes \subseteq Levels
    /\ Roles \subseteq SUBSET Scopes
    /\ Members \subseteq Subjects
    /\ None \notin Tenants \cup SignInClients \cup SessionIds \cup Assistants
    /\ People \cap ServiceClients = {}
    /\ Assistants \cap (ServiceClients \cup {Core}) = {}
    /\ MaxHops \in Nat
    /\ MaxTokens \in Nat

VARIABLES
    registry,      \* the registry document in force
    deployed,      \* every document that has been in force
    memberships,   \* the register's: by subject and tenant
    assistants,    \* the register's: each person's assistants, by tenant and key
    sessions,      \* the sessions made, by session id
    live,          \* the session ids still in the store
    tokens         \* the access tokens that have not expired

vars == <<registry, deployed, memberships, assistants, sessions, live, tokens>>

registerVars == <<memberships, assistants>>
deployVars == <<registry, deployed>>
sessionVars == <<sessions, live>>

Actors == ServiceClients \cup Assistants \cup {Core}

\* The first token of a chain, as it was issued.
Origin ==
    [sub : Subjects, aud : Audiences, scope : SUBSET Scopes,
     method : {"own", "assistant", "none"}, tenant : Tenants \cup {None}]

\* An access token's claims.  session is the session it was issued in, which an
\* app's token states as its sid and no other token does; act is the actor chain,
\* the last actor first; origin, for the properties, is the token the chain began with.
Token ==
    [sub : Subjects, aud : Audiences, client_id : SignInClients \cup ServiceClients \cup {None},
     scope : SUBSET Scopes, method : {"own", "assistant", "none"},
     tenant : Tenants \cup {None}, act : Seq(Actors), session : SessionIds \cup {None},
     origin : Origin]

Membership == [standing : {"none", "invited", "active", "revoked"}, scopes : SUBSET Scopes]

\* A session: a person's own, or an app's connection, whose assistant it names.
Session ==
    [person : People, client : SignInClients, tenant : Tenants \cup {None},
     assistant : Assistants \cup {None}, appScopes : SUBSET Scopes]

ASSUME SessionAssumption == None \notin Session

TypeOK ==
    /\ registry \in Documents
    /\ deployed \in SUBSET Documents
    /\ memberships \in [Subjects -> [Tenants -> Membership]]
    /\ assistants \in [People -> SUBSET [tenant : Tenants, key : Assistants, scopes : SUBSET Boxes]]
    /\ sessions \in [SessionIds -> Session \cup {None}]
    /\ live \in SUBSET SessionIds
    /\ tokens \in SUBSET Token

-----------------------------------------------------------------------------
(* The registry.                                                            *)

IsBox(s) == s \in Boxes

IsLevel(s) == s \in Levels

\* validateClient, validateSignInClient, validateAIApp: anything wrong in the
\* document stops the start.
Valid(doc) ==
    /\ \A c \in ServiceClients, a \in Audiences :
          LET g == doc.clients[c].grants[a]
          IN  \A s \in g.assistant_levels : IsLevel(s) /\ s \in g.scopes
    /\ \A c \in SignInClients :
          LET row == doc.sign_in[c]
          IN  /\ row.membership_required => row.baseline_scopes = {}
              /\ IF row.ai_app
                 THEN /\ row.membership_required
                      /\ row.scopes # {}
                      /\ \A s \in row.scopes : IsBox(s)
                 ELSE row.scopes = {}

\* Authenticate, of a caller that holds the client's secret.
Authenticated(c) == registry.clients[c].enabled

\* The answers AllowedScopes may give c toward an audience, over every request:
\* all of the grant when nothing is asked for, else what is asked for; none when
\* the audience is not granted or something outside the grant is asked for.
AllowedScopes(c, aud) ==
    LET g == registry.clients[c].grants[aud]
    IN  IF registry.clients[c].enabled /\ g.given
        THEN {g.scopes} \cup (SUBSET g.scopes \ {{}})
        ELSE {}

\* The levels c's grant toward an audience names for an assistant's chain.
AssistantLevels(doc, c, aud) ==
    IF doc.clients[c].enabled /\ doc.clients[c].grants[aud].given
    THEN doc.clients[c].grants[aud].assistant_levels
    ELSE {}

MayActFrom(doc, c, aud) ==
    doc.clients[c].enabled /\ (aud = c \/ aud \in doc.clients[c].act_from)

\* SignInClient: an enabled row; AIApp: one of an AI app.
IsAIApp(c) == registry.sign_in[c].enabled /\ registry.sign_in[c].ai_app

-----------------------------------------------------------------------------
(* The register (external), and what is asked of it.                        *)

\* What the sign-in doors answer, and leave, for a subject: its pending
\* invitations are claimed first.
Claimed(s) ==
    [t \in Tenants |->
        IF memberships[s][t].standing = "invited"
        THEN [memberships[s][t] EXCEPT !.standing = "active"]
        ELSE memberships[s][t]]

ActiveIn(m) == {t \in Tenants : m[t].standing = "active"}

\* Mutant: where the tenant named grants nothing any other does.
ChooseMembership_Falls(m, hint) ==
    IF hint \in ActiveIn(m) THEN {hint} ELSE ActiveIn(m)

\* chooseMembership: the tenants a token may be minted for, given the one named:
\* that one, the only one, or none.
ChooseMembership(m, hint) ==
    IF hint # None THEN ActiveIn(m) \cap {hint}
    ELSE IF Cardinality(ActiveIn(m)) = 1 THEN ActiveIn(m) ELSE {}

\* The token this service mints for a call at the register's doors
\* (mintSignInToken), for a subject being signed in.
DoorToken(s, scope) ==
    [sub |-> s, aud |-> Register, client_id |-> None, scope |-> {scope}, method |-> "none",
     tenant |-> None, act |-> <<Core>>, session |-> None,
     origin |-> [sub |-> s, aud |-> Register, scope |-> {scope}, method |-> "none", tenant |-> None]]

DoorTokens(s) == {DoorToken(s, scope) : scope \in DoorScopes}

\* The tokens issued are out, while there is room for them.
Mint(ts) ==
    /\ tokens' = tokens \cup ts
    /\ Cardinality(tokens') <= MaxTokens

-----------------------------------------------------------------------------
(* A person's own tokens: userScopes, grantAuthorizationCode,               *)
(* grantRefreshToken.                                                       *)

UserToken(id, p, c, scope, tenant) ==
    LET aud == registry.sign_in[c].audience
    IN  [sub |-> p, aud |-> aud, client_id |-> c, scope |-> scope, method |-> "own",
         tenant |-> tenant, act |-> <<>>, session |-> id,
         origin |-> [sub |-> p, aud |-> aud, scope |-> scope, method |-> "own", tenant |-> tenant]]

\* userScopes, of a client that asks no membership: its own baseline, no tenant.
Baseline(p, c, scope, tenant) ==
    /\ ~registry.sign_in[c].membership_required
    /\ scope = registry.sign_in[c].baseline_scopes
    /\ tenant = None

\* userScopes, of a client that asks one, once the register answered m: none, or
\* none where one was named, is refused; several with none named leave the choice
\* to the person; else the membership's scopes and tenant.
Resolved(m, hint, scope, tenant) ==
    /\ ActiveIn(m) # {}
    /\ hint # None => ChooseMembership(m, hint) # {}
    /\ IF ChooseMembership(m, hint) = {}
       THEN tenant = None /\ scope = {}
       ELSE tenant \in ChooseMembership(m, hint) /\ scope = m[tenant].scopes

\* The register's answers at a sign-in: the memberships as they are, or, for
\* somebody who holds none and has just signed in through an organisation's
\* directory as no guest, with the one the tenant that attached it admits them to.
\* A revoked member is not admitted again.
AtSignIn(p, directory) ==
    {Claimed(p)} \cup
        {[Claimed(p) EXCEPT ![t] = [standing |-> "active", scopes |-> {}]] :
            t \in {t \in Tenants : directory = "member" /\ ActiveIn(Claimed(p)) = {}
                                     /\ Claimed(p)[t].standing = "none"}}

\* grantAuthorizationCode: the session records the client and the membership its
\* tokens are minted for.
GrantAuthorizationCode(id, p, c, hint, directory) ==
    /\ sessions[id] = None
    /\ registry.sign_in[c].enabled /\ ~registry.sign_in[c].ai_app
    /\ \E m \in AtSignIn(p, directory), scope \in SUBSET Scopes, tenant \in Tenants \cup {None} :
          /\ \/ /\ Baseline(p, c, scope, tenant)
                /\ Mint({UserToken(id, p, c, scope, tenant)})
                /\ UNCHANGED memberships
             \/ /\ registry.sign_in[c].membership_required
                /\ Resolved(m, hint, scope, tenant)
                /\ Mint(DoorTokens(p) \cup {UserToken(id, p, c, scope, tenant)})
                /\ memberships' = [memberships EXCEPT ![p] = m]
          /\ sessions' = [sessions EXCEPT ![id] =
                 [person |-> p, client |-> c, tenant |-> tenant, assistant |-> None, appScopes |-> {}]]
    /\ live' = live \cup {id}
    /\ UNCHANGED <<deployVars, assistants>>

\* grantRefreshToken: resolved again, for the client and the membership the
\* session was issued for; nobody is admitted, and the session is left as it is.
GrantRefreshToken(id) ==
    /\ id \in live
    /\ sessions[id].assistant = None
    /\ LET p == sessions[id].person
           c == sessions[id].client
       IN  /\ registry.sign_in[c].enabled /\ ~registry.sign_in[c].ai_app
           /\ \E scope \in SUBSET Scopes, tenant \in Tenants \cup {None} :
                 \/ /\ Baseline(p, c, scope, tenant)
                    /\ Mint({UserToken(id, p, c, scope, tenant)})
                    /\ UNCHANGED memberships
                 \/ /\ registry.sign_in[c].membership_required
                    /\ Resolved(Claimed(p), sessions[id].tenant, scope, tenant)
                    /\ Mint(DoorTokens(p) \cup {UserToken(id, p, c, scope, tenant)})
                    /\ memberships' = [memberships EXCEPT ![p] = Claimed(p)]
    /\ UNCHANGED <<deployVars, assistants, sessionVars>>

-----------------------------------------------------------------------------
(* An AI app's tokens.                                                      *)

AppToken(id, sess, scope) ==
    LET aud == registry.sign_in[sess.client].audience
    IN  [sub |-> sess.person, aud |-> aud, client_id |-> sess.client, scope |-> scope,
         method |-> "assistant", tenant |-> sess.tenant, act |-> <<sess.assistant>>, session |-> id,
         origin |-> [sub |-> sess.person, aud |-> aud, scope |-> scope, method |-> "assistant",
                     tenant |-> sess.tenant]]

\* connectionScopes: the boxes the app asked for, as its row allows it now, that
\* the person and the assistant both hold now.
ConnectionScopes(sess, own) ==
    (sess.appScopes \cap registry.sign_in[sess.client].scopes) \cap own.scopes

\* The person's assistant a connection works as, in the register now.
OwnAssistant(sess) ==
    {own \in assistants[sess.person] : own.tenant = sess.tenant /\ own.key = sess.assistant}

\* chooseAssistant and appCodeExchange: the person chose one of their assistants
\* for the app, which asked for boxes of its row, and the app redeems its code.
AppCodeExchange(id, p, c, asked) ==
    /\ sessions[id] = None
    /\ IsAIApp(c)
    /\ asked \in SUBSET registry.sign_in[c].scopes \ {{}}
    /\ \E own \in assistants[p] :
          LET sess == [person |-> p, client |-> c, tenant |-> own.tenant,
                       assistant |-> own.key, appScopes |-> asked]
          IN  /\ sessions' = [sessions EXCEPT ![id] = sess]
              /\ Mint(DoorTokens(p) \cup {AppToken(id, sess, ConnectionScopes(sess, own))})
    /\ live' = live \cup {id}
    /\ memberships' = [memberships EXCEPT ![p] = Claimed(p)]
    /\ UNCHANGED <<deployVars, assistants>>

\* appRefresh, of a connection whose assistant is still the person's there.
AppRefresh(id) ==
    /\ id \in live
    /\ sessions[id].assistant # None
    /\ IsAIApp(sessions[id].client)
    /\ \E own \in OwnAssistant(sessions[id]) :
          Mint(DoorTokens(sessions[id].person)
                 \cup {AppToken(id, sessions[id], ConnectionScopes(sessions[id], own))})
    /\ memberships' = [memberships EXCEPT ![sessions[id].person] = Claimed(sessions[id].person)]
    /\ UNCHANGED <<deployVars, assistants, sessionVars>>

\* connectionScopes finds the assistant gone: the connection is ended.
AppRefreshEnds(id) ==
    /\ id \in live
    /\ sessions[id].assistant # None
    /\ IsAIApp(sessions[id].client)
    /\ OwnAssistant(sessions[id]) = {}
    /\ Mint(DoorTokens(sessions[id].person))
    /\ live' = live \ {id}
    /\ memberships' = [memberships EXCEPT ![sessions[id].person] = Claimed(sessions[id].person)]
    /\ UNCHANGED <<deployVars, assistants, sessions>>

-----------------------------------------------------------------------------
(* Service tokens, and tokens exchanged from tokens.                        *)

ServiceToken(c, aud, scope, tenant) ==
    [sub |-> c, aud |-> aud, client_id |-> c, scope |-> scope, method |-> "none",
     tenant |-> tenant, act |-> <<>>, session |-> None,
     origin |-> [sub |-> c, aud |-> aud, scope |-> scope, method |-> "none", tenant |-> tenant]]

\* serviceAccountScopes: what a service account carries in a tenant it names: of the
\* scopes the registry allows, those its membership there grants; none is refused.
ServiceAccountScopes(c, tenant, allowed) ==
    IF tenant \in ActiveIn(Claimed(c)) THEN allowed \cap Claimed(c)[tenant].scopes ELSE {}

\* grantClientCredentials: a client that names no tenant acts as itself, on the
\* registry alone; one that names a tenant is a service account.
GrantClientCredentials(c, aud, tenant) ==
    /\ Authenticated(c)
    /\ \E allowed \in AllowedScopes(c, aud) :
          \/ /\ tenant = None
             /\ Mint({ServiceToken(c, aud, allowed, None)})
             /\ UNCHANGED memberships
          \/ /\ tenant # None
             /\ LET scopes == ServiceAccountScopes(c, tenant, allowed)
                IN  /\ scopes # {}
                    /\ Mint(DoorTokens(c) \cup {ServiceToken(c, aud, scopes, tenant)})
             /\ memberships' = [memberships EXCEPT ![c] = Claimed(c)]
    /\ UNCHANGED <<deployVars, assistants, sessionVars>>

\* IsService, of the claims library: the subject is a service client.
IsService(t) == t.sub \in ServiceClients

\* Mutant: anybody may be acted for.
MayBeActedFor_Any(t) == TRUE

\* mayBeActedFor: any person, and a service that names the tenant it acts for.
MayBeActedFor(t) == ~IsService(t) \/ t.tenant # None

\* An AI app's token, known by what it is and not by the registry.
IsAppToken(t) == t.method = "assistant" /\ t.client_id # None

\* appConnectionLive: the app is still enabled and the connection is still live
\* and the token's person's, app's, assistant's and tenant's.
AppConnectionLive(t) ==
    /\ t.client_id \in SignInClients /\ IsAIApp(t.client_id)
    /\ t.session \in live
    /\ LET sess == sessions[t.session]
       IN  /\ sess.person = t.sub /\ sess.client = t.client_id
           /\ sess.tenant = t.tenant /\ t.act = <<sess.assistant>>

\* Mutants: only the levels are narrowed; a level the subject token carries passes.
NarrowForAssistant_Boxes(scopes, held, named) ==
    {s \in scopes : IsBox(s) \/ s \in named}

NarrowForAssistant_Held(scopes, held, named) ==
    {s \in scopes : s \in held \/ (IsLevel(s) /\ s \in named)}

\* narrowForAssistant: the boxes the subject token carries, the levels named.
NarrowForAssistant(scopes, held, named) ==
    {s \in scopes : (IsLevel(s) /\ s \in named) \/ (IsBox(s) /\ s \in held)}

\* What an exchange of t by c toward aud carries, of the scopes allowed.
ExchangeScopes(c, t, aud, allowed) ==
    IF t.method = "assistant"
    THEN NarrowForAssistant(allowed, t.scope, AssistantLevels(registry, c, aud))
    ELSE allowed

\* Mutants: the prior actors are not nested; the tenant is not carried.
Delegated_Flat(c, t, aud, scope) ==
    [sub |-> t.sub, aud |-> aud, client_id |-> None, scope |-> scope, method |-> t.method,
     tenant |-> t.tenant, act |-> c, session |-> None, origin |-> t.origin]

Delegated_NoTenant(c, t, aud, scope) ==
    [sub |-> t.sub, aud |-> aud, client_id |-> None, scope |-> scope, method |-> t.method,
     tenant |-> None, act |-> <<c>> \o t.act, session |-> None, origin |-> t.origin]

\* IssueDelegated: the subject, the assurance and the tenant are carried forward,
\* and the client is put before the actors the subject token names; it names no
\* client_id and no connection.
Delegated(c, t, aud, scope) ==
    [sub |-> t.sub, aud |-> aud, client_id |-> None, scope |-> scope, method |-> t.method,
     tenant |-> t.tenant, act |-> <<c>> \o t.act, session |-> None, origin |-> t.origin]

\* Mutant: whichever audience the subject token was issued for.
GrantTokenExchange_FromAny(c, t, aud) ==
    /\ Len(t.act) < MaxHops
    /\ Authenticated(c)
    /\ MayBeActedFor(t)
    /\ IsAppToken(t) => AppConnectionLive(t)
    /\ \E allowed \in AllowedScopes(c, aud) :
          Mint({Delegated(c, t, aud, ExchangeScopes(c, t, aud, allowed))})
    /\ UNCHANGED <<deployVars, registerVars, sessionVars>>

\* grantTokenExchange: c exchanges a token for one toward aud.
GrantTokenExchange(c, t, aud) ==
    /\ Len(t.act) < MaxHops
    /\ Authenticated(c)
    /\ MayBeActedFor(t)
    /\ MayActFrom(registry, c, t.aud)
    /\ IsAppToken(t) => AppConnectionLive(t)
    /\ \E allowed \in AllowedScopes(c, aud) :
          Mint({Delegated(c, t, aud, ExchangeScopes(c, t, aud, allowed))})
    /\ UNCHANGED <<deployVars, registerVars, sessionVars>>

-----------------------------------------------------------------------------
(* Around the token endpoint.                                               *)

\* A session ends: a sign-out, a revocation, its time.
EndSession(id) ==
    /\ id \in live
    /\ live' = live \ {id}
    /\ UNCHANGED <<deployVars, registerVars, sessions, tokens>>

\* A token expires.
Expire(t) ==
    /\ tokens' = tokens \ {t}
    /\ UNCHANGED <<deployVars, registerVars, sessionVars>>

\* The service is started again with another document; the sessions stay.
Deploy(doc) ==
    /\ doc # registry /\ Valid(doc)
    /\ registry' = doc
    /\ deployed' = deployed \cup {doc}
    /\ UNCHANGED <<registerVars, sessionVars, tokens>>

\* Somebody is invited, removed or given another role, in the register.
ChangeMembership(s, t, m) ==
    /\ memberships[s][t] # m
    /\ memberships' = [memberships EXCEPT ![s] = [memberships[s] EXCEPT ![t] = m]]
    /\ UNCHANGED <<deployVars, assistants, sessionVars, tokens>>

\* A person's assistant in a tenant comes, goes, or has its boxes changed.
ChangeAssistant(p, t, a, boxes) ==
    /\ assistants' = [assistants EXCEPT ![p] =
          {own \in @ : own.key # a} \cup {[tenant |-> t, key |-> a, scopes |-> b] : b \in boxes}]
    /\ assistants' # assistants
    /\ UNCHANGED <<deployVars, memberships, sessionVars, tokens>>

\* What the register may hold of a membership: an invitation names its roles.
Standings ==
    [standing : {"invited", "active"}, scopes : Roles]
        \cup {[standing |-> "none", scopes |-> {}], [standing |-> "revoked", scopes |-> {}]}

Init ==
    /\ registry \in {doc \in Documents : Valid(doc)}
    /\ deployed = {registry}
    /\ memberships = [s \in Subjects |-> [t \in Tenants |-> [standing |-> "none", scopes |-> {}]]]
    /\ assistants = [p \in People |-> {}]
    /\ sessions = [id \in SessionIds |-> None]
    /\ live = {}
    /\ tokens = {}

Next ==
    \/ \E id \in SessionIds, p \in People, c \in SignInClients, hint \in Tenants \cup {None},
          directory \in {"none", "member", "guest"} : GrantAuthorizationCode(id, p, c, hint, directory)
    \/ \E id \in SessionIds, p \in People, c \in SignInClients, asked \in SUBSET Boxes :
          AppCodeExchange(id, p, c, asked)
    \/ \E id \in SessionIds :
          GrantRefreshToken(id) \/ AppRefresh(id) \/ AppRefreshEnds(id) \/ EndSession(id)
    \/ \E c \in ServiceClients, aud \in Audiences, tenant \in Tenants \cup {None} :
          GrantClientCredentials(c, aud, tenant)
    \/ \E c \in ServiceClients, t \in tokens, aud \in Audiences : GrantTokenExchange(c, t, aud)
    \/ \E t \in tokens : Expire(t)
    \/ \E doc \in Documents : Deploy(doc)
    \/ \E s \in Members, t \in Tenants, m \in Standings : ChangeMembership(s, t, m)
    \/ \E p \in People, t \in Tenants, a \in Assistants, b \in SUBSET Boxes :
          ChangeAssistant(p, t, a, {b}) \/ ChangeAssistant(p, t, a, {})

Spec == Init /\ [][Next]_vars

-----------------------------------------------------------------------------
(* What is checked.                                                         *)

\* "Carries no box the app token lacks, at every hop, whatever the exchanging
\* client's grant allows" (README, AI app): along a chain an assistant began, over
\* any clients, audiences and registry documents, no box is gained.
NoBoxBeyondTheApp ==
    \A t \in tokens : t.method = "assistant" => t.scope \cap Boxes \subseteq t.origin.scope

\* A level rides an assistant's chain only where the client that made the last hop
\* has it named, toward that very audience, in a document that was in force; the
\* app's own token carries none.
NamedLevelsOnly ==
    \A t \in tokens : t.method = "assistant" =>
        \A l \in t.scope \cap Levels :
            \E doc \in deployed :
                /\ Head(t.act) \in ServiceClients
                /\ l \in AssistantLevels(doc, Head(t.act), t.aud)

\* Delegation strips nothing: however long the chain, the token names the subject,
\* the tenant and the way of signing in it began with, and an assistant's chain
\* still names the assistant as its first actor.
CarriedForward ==
    \A t \in tokens :
        /\ t.sub = t.origin.sub /\ t.tenant = t.origin.tenant /\ t.method = t.origin.method
        /\ t.method = "assistant" => t.act # <<>> /\ t.act[Len(t.act)] \in Assistants

\* A platform service acting as itself is never acted for: a service is the subject
\* of an exchanged token only in the name of a tenant.  (This service's own tokens
\* at the register's doors go no further.)
ActedForATenant ==
    \A t \in tokens : (t.sub \in ServiceClients /\ t.act # <<>>) =>
        \/ t.tenant # None
        \/ t.act = <<Core>> /\ t.aud = Register

\* A set of audiences no exchange leads out of, under the documents in force so far.
Closed(A) ==
    \A doc \in deployed, c \in ServiceClients, a \in A, b \in Audiences :
        (MayActFrom(doc, c, a) /\ doc.clients[c].grants[b].given) => b \in A

\* "One product's edge cannot act on a token minted for another, nor on a token
\* delegated to a different service" (README, token exchange): every service in a
\* token's actor chain acts from an audience the chain can have come to, hop by hop,
\* from the one it began at: it acts from one of every closed set that one is in.
\* (This service acts at the register's doors for whom it signs in.)
Confined ==
    \A t \in tokens, A \in SUBSET Audiences :
        (t.origin.aud \in A /\ Closed(A)) =>
            \A i \in DOMAIN t.act : t.act[i] \in ServiceClients \ {Core} =>
                \E doc \in deployed, a \in A : MayActFrom(doc, t.act[i], a)

\* A session issued for a tenant never mints for another, whatever becomes of its
\* person's memberships and its client's row between the issues: its refreshes are
\* minted for that one, refused, or, once the client asks no membership, name none.
SessionKeepsTenant ==
    \A t \in tokens :
        (t.session # None /\ t.tenant # None /\ sessions[t.session].tenant # None)
            => t.tenant = sessions[t.session].tenant

\* "Record the client and the membership the session's tokens are minted for, so a
\* refresh re-resolves the same" (routes/token.go, grantAuthorizationCode): the
\* tokens of one session that name a tenant name the same one.
OneTenantPerSession ==
    \A t, u \in tokens :
        (t.session # None /\ t.session = u.session /\ t.tenant # None /\ u.tenant # None)
            => t.tenant = u.tenant

=============================================================================
