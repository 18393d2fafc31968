-------------------------- MODULE TokenIssueProofs --------------------------
(* Theorems about TokenIssue: for any people, clients, scopes and tenants,  *)
(* any registry documents deployed one after the other, and chains of any   *)
(* length.                                                                  *)
EXTENDS TokenIssue, TLAPS

\* A new token is one of five: for a door of the register,
NewDoorToken(t) == \E s \in Subjects : t \in DoorTokens(s)

\* a person's own, of a session that is in the store and keeps to its tenant,
NewUserToken(t) ==
    \E id \in SessionIds, p \in People, c \in SignInClients,
       scope \in SUBSET Scopes, tenant \in Tenants \cup {None} :
        /\ t = UserToken(id, p, c, scope, tenant)
        /\ sessions'[id] \in Session
        /\ tenant # None /\ sessions'[id].tenant # None => tenant = sessions'[id].tenant

\* an AI app's, of a connection that is in the store,
NewAppToken(t) ==
    \E id \in SessionIds, sess \in Session, scope \in SUBSET Boxes :
        /\ t = AppToken(id, sess, scope)
        /\ sess.assistant # None
        /\ sessions'[id] = sess

\* a service's,
NewServiceToken(t) ==
    \E c \in ServiceClients, aud \in Audiences, scope \in SUBSET Scopes,
       tenant \in Tenants \cup {None} : t = ServiceToken(c, aud, scope, tenant)

\* or exchanged from one that is out.
NewDelegated(t) ==
    \E c \in ServiceClients, u \in tokens, aud \in Audiences :
        /\ MayBeActedFor(u)
        /\ MayActFrom(registry, c, u.aud)
        /\ registry.clients[c].grants[aud].given
        /\ \E allowed \in AllowedScopes(c, aud) :
              t = Delegated(c, u, aud, ExchangeScopes(c, u, aud, allowed))

NewToken(t) ==
    NewDoorToken(t) \/ NewUserToken(t) \/ NewAppToken(t) \/ NewServiceToken(t) \/ NewDelegated(t)

\* A session in the store was made, and the document in force was deployed.
StoreInv ==
    /\ \A id \in live : sessions[id] \in Session
    /\ registry \in deployed

-----------------------------------------------------------------------------
(* What the operators answer.                                               *)

\* Deployed documents have the registry's types (load, registry.go).
LEMMA RowTypes ==
    ASSUME TypeOK
    PROVE  /\ \A c \in ServiceClients : registry.clients[c] \in Client
           /\ \A c \in SignInClients : registry.sign_in[c] \in SignInClient
BY IssueAssumption DEF TypeOK, Document

\* AllowedScopes stays within the grant, and answers only where one is given.
LEMMA AllowedType ==
    ASSUME TypeOK, NEW c \in ServiceClients, NEW aud \in Audiences,
           NEW allowed \in AllowedScopes(c, aud)
    PROVE  /\ allowed \subseteq Scopes
           /\ registry.clients[c].grants[aud].given
<1>1. registry.clients[c].grants[aud] \in Grant
  BY RowTypes DEF Client
<1> QED BY <1>1 DEF AllowedScopes, Grant

\* An exchange carries no scope that was not allowed.
LEMMA ExchangeSubset ==
    ASSUME NEW c, NEW t, NEW aud, NEW allowed
    PROVE  ExchangeScopes(c, t, aud, allowed) \subseteq allowed
BY DEF ExchangeScopes, NarrowForAssistant

\* The doors claim a subject's invitations and answer memberships.
LEMMA ClaimedType ==
    ASSUME TypeOK, NEW s \in Subjects
    PROVE  Claimed(s) \in [Tenants -> Membership]
<1> SUFFICES ASSUME NEW t \in Tenants
             PROVE  (IF memberships[s][t].standing = "invited"
                     THEN [memberships[s][t] EXCEPT !.standing = "active"]
                     ELSE memberships[s][t]) \in Membership
  BY DEF Claimed
<1>1. memberships[s][t] \in Membership
  BY DEF TypeOK
<1> QED BY <1>1 DEF Membership

\* A sign-in's answer, with an admission or without one, is of memberships.
LEMMA AtSignInType ==
    ASSUME TypeOK, NEW p \in People, NEW directory, NEW m \in AtSignIn(p, directory)
    PROVE  m \in [Tenants -> Membership]
<1>1. Claimed(p) \in [Tenants -> Membership]
  BY ClaimedType DEF Subjects
<1>2. [standing |-> "active", scopes |-> {}] \in Membership
  BY DEF Membership
<1> QED BY <1>1, <1>2 DEF AtSignIn

-----------------------------------------------------------------------------
(* What each grant issues.                                                  *)

\* grantAuthorizationCode issues for the tenant the session records.
LEMMA AuthorizationCodeIssues ==
    ASSUME TypeOK, NEW id \in SessionIds, NEW p \in People, NEW c \in SignInClients,
           NEW hint \in Tenants \cup {None}, NEW directory,
           GrantAuthorizationCode(id, p, c, hint, directory), NEW t \in tokens', t \notin tokens
    PROVE  NewToken(t)
<1>1. PICK m \in AtSignIn(p, directory), scope \in SUBSET Scopes, tenant \in Tenants \cup {None} :
          /\ tokens' \subseteq tokens \cup DoorTokens(p) \cup {UserToken(id, p, c, scope, tenant)}
          /\ sessions' = [sessions EXCEPT ![id] =
                 [person |-> p, client |-> c, tenant |-> tenant, assistant |-> None, appScopes |-> {}]]
  BY DEF GrantAuthorizationCode, Mint
<1>2. /\ sessions'[id] \in Session
      /\ sessions'[id].tenant = tenant
  BY <1>1 DEF TypeOK, Session
<1>3. CASE t \in DoorTokens(p)
  BY <1>3 DEF NewToken, NewDoorToken, Subjects
<1>4. CASE t = UserToken(id, p, c, scope, tenant)
  <2>1. NewUserToken(t)
    BY <1>2, <1>4 DEF NewUserToken
  <2> QED BY <2>1 DEF NewToken
<1> QED BY <1>1, <1>3, <1>4

\* grantRefreshToken issues for the tenant the session names, or names none.
LEMMA RefreshTokenIssues ==
    ASSUME TypeOK, StoreInv, NEW id \in SessionIds, GrantRefreshToken(id),
           NEW t \in tokens', t \notin tokens
    PROVE  NewToken(t)
<1>1. sessions[id] \in Session /\ sessions' = sessions
  BY DEF TypeOK, StoreInv, GrantRefreshToken, sessionVars
<1> DEFINE p == sessions[id].person
           c == sessions[id].client
<1>2. p \in People /\ c \in SignInClients
  BY <1>1 DEF Session
<1>3. PICK scope \in SUBSET Scopes, tenant \in Tenants \cup {None} :
          /\ tokens' \subseteq tokens \cup DoorTokens(p) \cup {UserToken(id, p, c, scope, tenant)}
          /\ \/ Baseline(p, c, scope, tenant)
             \/ Resolved(Claimed(p), sessions[id].tenant, scope, tenant)
  BY DEF GrantRefreshToken, Mint
<1>4. tenant # None /\ sessions[id].tenant # None => tenant = sessions[id].tenant
  BY <1>3 DEF Baseline, Resolved, ChooseMembership
<1>5. CASE t \in DoorTokens(p)
  BY <1>2, <1>5 DEF NewToken, NewDoorToken, Subjects
<1>6. CASE t = UserToken(id, p, c, scope, tenant)
  <2>1. NewUserToken(t)
    BY <1>1, <1>2, <1>4, <1>6 DEF NewUserToken
  <2> QED BY <2>1 DEF NewToken
<1> QED BY <1>3, <1>5, <1>6

\* appCodeExchange issues boxes only, for the connection it makes.
LEMMA AppCodeIssues ==
    ASSUME TypeOK, NEW id \in SessionIds, NEW p \in People, NEW c \in SignInClients,
           NEW asked \in SUBSET Boxes, AppCodeExchange(id, p, c, asked),
           NEW t \in tokens', t \notin tokens
    PROVE  NewToken(t)
<1>1. PICK own \in assistants[p] :
          LET sess == [person |-> p, client |-> c, tenant |-> own.tenant,
                       assistant |-> own.key, appScopes |-> asked]
          IN  /\ sessions' = [sessions EXCEPT ![id] = sess]
              /\ Mint(DoorTokens(p) \cup {AppToken(id, sess, ConnectionScopes(sess, own))})
  BY DEF AppCodeExchange
<1> DEFINE sess == [person |-> p, client |-> c, tenant |-> own.tenant,
                    assistant |-> own.key, appScopes |-> asked]
<1>2. own \in [tenant : Tenants, key : Assistants, scopes : SUBSET Boxes]
  BY DEF TypeOK
<1>3. sess \in Session /\ sess.assistant \in Assistants /\ sessions'[id] = sess
  BY <1>1, <1>2 DEF TypeOK, Session, Scopes
<1>4. ConnectionScopes(sess, own) \in SUBSET Boxes
  BY <1>2 DEF ConnectionScopes
<1>5. CASE t \in DoorTokens(p)
  BY <1>5 DEF NewToken, NewDoorToken, Subjects
<1>6. CASE t = AppToken(id, sess, ConnectionScopes(sess, own))
  <2>1. sess.assistant # None
    BY <1>3, IssueAssumption
  <2>2. NewAppToken(t)
    BY <1>3, <1>4, <1>6, <2>1 DEF NewAppToken
  <2> QED BY <2>2 DEF NewToken
<1> QED BY <1>1, <1>5, <1>6 DEF Mint

\* appRefresh issues boxes only, for the connection it renews.
LEMMA AppRefreshIssues ==
    ASSUME TypeOK, StoreInv, NEW id \in SessionIds, AppRefresh(id),
           NEW t \in tokens', t \notin tokens
    PROVE  NewToken(t)
<1> DEFINE sess == sessions[id]
<1>1. sess \in Session /\ sessions' = sessions /\ sess.assistant # None
  BY DEF TypeOK, StoreInv, AppRefresh, sessionVars
<1>2. PICK own \in OwnAssistant(sess) :
          Mint(DoorTokens(sess.person) \cup {AppToken(id, sess, ConnectionScopes(sess, own))})
  BY DEF AppRefresh
<1>3. own \in [tenant : Tenants, key : Assistants, scopes : SUBSET Boxes]
  BY <1>1 DEF TypeOK, OwnAssistant, Session
<1>4. ConnectionScopes(sess, own) \in SUBSET Boxes
  BY <1>3 DEF ConnectionScopes
<1>5. CASE t \in DoorTokens(sess.person)
  BY <1>1, <1>5 DEF NewToken, NewDoorToken, Subjects, Session
<1>6. CASE t = AppToken(id, sess, ConnectionScopes(sess, own))
  <2>1. NewAppToken(t)
    BY <1>1, <1>4, <1>6 DEF NewAppToken
  <2> QED BY <2>1 DEF NewToken
<1> QED BY <1>2, <1>5, <1>6 DEF Mint

\* grantClientCredentials issues to the client that asks.
LEMMA ClientCredentialsIssue ==
    ASSUME TypeOK, NEW c \in ServiceClients, NEW aud \in Audiences,
           NEW tenant \in Tenants \cup {None}, GrantClientCredentials(c, aud, tenant),
           NEW t \in tokens', t \notin tokens
    PROVE  NewToken(t)
<1>1. PICK allowed \in AllowedScopes(c, aud) :
          \/ t \in DoorTokens(c)
          \/ t = ServiceToken(c, aud, allowed, None)
          \/ t = ServiceToken(c, aud, ServiceAccountScopes(c, tenant, allowed), tenant)
  BY DEF GrantClientCredentials, Mint
<1>2. allowed \subseteq Scopes /\ ServiceAccountScopes(c, tenant, allowed) \subseteq Scopes
  BY AllowedType DEF ServiceAccountScopes
<1>3. CASE t \in DoorTokens(c)
  BY <1>3 DEF NewToken, NewDoorToken, Subjects
<1>4. CASE t \notin DoorTokens(c)
  <2>1. NewServiceToken(t)
    BY <1>1, <1>2, <1>4 DEF NewServiceToken
  <2> QED BY <2>1 DEF NewToken
<1> QED BY <1>3, <1>4

\* grantTokenExchange issues from a token that may be acted for, to a client that
\* may act from its audience.
LEMMA ExchangeIssues ==
    ASSUME TypeOK, NEW c \in ServiceClients, NEW u \in tokens, NEW aud \in Audiences,
           GrantTokenExchange(c, u, aud), NEW t \in tokens', t \notin tokens
    PROVE  NewToken(t)
<1>1. PICK allowed \in AllowedScopes(c, aud) :
          t = Delegated(c, u, aud, ExchangeScopes(c, u, aud, allowed))
  BY DEF GrantTokenExchange, Mint
<1>2. NewDelegated(t)
  BY <1>1, AllowedType DEF GrantTokenExchange, NewDelegated
<1> QED BY <1>2 DEF NewToken

\* Every token that appears was issued by one of the grants.
LEMMA TokenStep ==
    ASSUME TypeOK, StoreInv, [Next]_vars, NEW t \in tokens', t \notin tokens
    PROVE  NewToken(t)
<1>1. ASSUME NEW id \in SessionIds, AppRefreshEnds(id) PROVE NewToken(t)
  <2>1. t \in DoorTokens(sessions[id].person)
    BY <1>1 DEF AppRefreshEnds, Mint
  <2>2. sessions[id].person \in Subjects
    BY <1>1 DEF AppRefreshEnds, TypeOK, StoreInv, Session, Subjects
  <2> QED BY <2>1, <2>2 DEF NewToken, NewDoorToken
<1> QED BY <1>1, AuthorizationCodeIssues, RefreshTokenIssues, AppCodeIssues, AppRefreshIssues,
           ClientCredentialsIssue, ExchangeIssues
        DEF Next, EndSession, Expire, Deploy, ChangeMembership, ChangeAssistant, vars

-----------------------------------------------------------------------------
(* Types.                                                                   *)

\* Every token issued is of type Token.
LEMMA TokenType ==
    ASSUME TypeOK, NEW t, NewToken(t)
    PROVE  t \in Token
<1>1. CASE NewDoorToken(t)
  <2>1. PICK s \in Subjects, scope \in DoorScopes : t = DoorToken(s, scope)
    BY <1>1 DEF NewDoorToken, DoorTokens
  <2>2. {scope} \in SUBSET Scopes /\ Register \in Audiences /\ <<Core>> \in Seq(Actors)
    BY IssueAssumption DEF Scopes, Actors
  <2> QED BY <2>1, <2>2 DEF DoorToken, Token, Origin
<1>2. CASE NewUserToken(t)
  <2>1. PICK id \in SessionIds, p \in People, c \in SignInClients,
             scope \in SUBSET Scopes, tenant \in Tenants \cup {None} :
            t = UserToken(id, p, c, scope, tenant)
    BY <1>2 DEF NewUserToken
  <2>2. registry.sign_in[c].audience \in Audiences /\ p \in Subjects /\ <<>> \in Seq(Actors)
    BY RowTypes DEF SignInClient, Subjects
  <2> QED BY <2>1, <2>2 DEF UserToken, Token, Origin
<1>3. CASE NewAppToken(t)
  <2>1. PICK id \in SessionIds, sess \in Session, scope \in SUBSET Boxes :
            t = AppToken(id, sess, scope) /\ sess.assistant # None
    BY <1>3 DEF NewAppToken
  <2>2. /\ sess.person \in Subjects /\ sess.client \in SignInClients
        /\ sess.tenant \in Tenants \cup {None} /\ sess.assistant \in Assistants
    BY <2>1 DEF Session, Subjects
  <2>3. registry.sign_in[sess.client].audience \in Audiences
    BY <2>2, RowTypes DEF SignInClient
  <2>4. scope \in SUBSET Scopes /\ <<sess.assistant>> \in Seq(Actors)
    BY <2>2 DEF Scopes, Actors
  <2> QED BY <2>1, <2>2, <2>3, <2>4 DEF AppToken, Token, Origin
<1>4. CASE NewServiceToken(t)
  <2>1. PICK c \in ServiceClients, aud \in Audiences, scope \in SUBSET Scopes,
             tenant \in Tenants \cup {None} : t = ServiceToken(c, aud, scope, tenant)
    BY <1>4 DEF NewServiceToken
  <2>2. c \in Subjects /\ <<>> \in Seq(Actors)
    BY DEF Subjects
  <2> QED BY <2>1, <2>2 DEF ServiceToken, Token, Origin
<1>5. CASE NewDelegated(t)
  <2>1. PICK c \in ServiceClients, u \in tokens, aud \in Audiences :
            \E allowed \in AllowedScopes(c, aud) :
                t = Delegated(c, u, aud, ExchangeScopes(c, u, aud, allowed))
    BY <1>5 DEF NewDelegated
  <2>2. PICK allowed \in AllowedScopes(c, aud) :
            t = Delegated(c, u, aud, ExchangeScopes(c, u, aud, allowed))
    BY <2>1
  <2>3. ExchangeScopes(c, u, aud, allowed) \in SUBSET Scopes
    BY AllowedType, ExchangeSubset
  <2>4. u \in Token
    BY DEF TypeOK
  <2>5. <<c>> \o u.act \in Seq(Actors)
    BY <2>4 DEF Token, Actors
  <2> QED BY <2>2, <2>3, <2>4, <2>5 DEF Delegated, Token
<1> QED BY <1>1, <1>2, <1>3, <1>4, <1>5 DEF NewToken

\* Claiming a subject's invitations leaves the register well typed.
LEMMA ClaimTypes ==
    ASSUME TypeOK, NEW s \in Subjects, NEW m \in [Tenants -> Membership]
    PROVE  [memberships EXCEPT ![s] = m] \in [Subjects -> [Tenants -> Membership]]
BY DEF TypeOK

\* The register's variables keep their types.
LEMMA RegisterTypes ==
    ASSUME TypeOK, StoreInv, [Next]_vars
    PROVE  /\ memberships' \in [Subjects -> [Tenants -> Membership]]
           /\ assistants' \in
                  [People -> SUBSET [tenant : Tenants, key : Assistants, scopes : SUBSET Boxes]]
<1> DEFINE M == memberships' \in [Subjects -> [Tenants -> Membership]]
           A == assistants' \in
                  [People -> SUBSET [tenant : Tenants, key : Assistants, scopes : SUBSET Boxes]]
<1>1. ASSUME NEW id \in SessionIds, NEW p \in People, NEW c \in SignInClients,
             NEW hint \in Tenants \cup {None}, NEW directory,
             GrantAuthorizationCode(id, p, c, hint, directory)
      PROVE  M /\ A
  <2>1. PICK m \in AtSignIn(p, directory) :
            memberships' \in {memberships, [memberships EXCEPT ![p] = m]}
    BY <1>1 DEF GrantAuthorizationCode
  <2>2. m \in [Tenants -> Membership] /\ p \in Subjects
    BY AtSignInType DEF Subjects
  <2>3. M
    BY <2>1, <2>2, ClaimTypes DEF TypeOK
  <2> QED BY <1>1, <2>3 DEF GrantAuthorizationCode, TypeOK
<1>2. ASSUME NEW s \in Subjects,
             memberships' \in {memberships, [memberships EXCEPT ![s] = Claimed(s)]},
             UNCHANGED assistants
      PROVE  M /\ A
  BY <1>2, ClaimedType, ClaimTypes DEF TypeOK
<1>3. ASSUME NEW id \in live,
             GrantRefreshToken(id) \/ AppRefresh(id) \/ AppRefreshEnds(id)
      PROVE  M /\ A
  <2>1. sessions[id].person \in Subjects
    BY <1>3 DEF TypeOK, StoreInv, Session, Subjects
  <2>2. /\ memberships' \in {memberships, [memberships EXCEPT ![sessions[id].person] =
                                               Claimed(sessions[id].person)]}
        /\ UNCHANGED assistants
    BY <1>3 DEF GrantRefreshToken, AppRefresh, AppRefreshEnds
  <2> QED BY <1>2, <2>1, <2>2
<1>4. ASSUME NEW id \in SessionIds, NEW p \in People, NEW c \in SignInClients,
             NEW asked, AppCodeExchange(id, p, c, asked)
      PROVE  M /\ A
  BY <1>2, <1>4 DEF AppCodeExchange, Subjects
<1>5. ASSUME NEW c \in ServiceClients, NEW aud, NEW tenant, GrantClientCredentials(c, aud, tenant)
      PROVE  M /\ A
  BY <1>2, <1>5 DEF GrantClientCredentials, Subjects
<1>6. ASSUME NEW s \in Members, NEW t \in Tenants, NEW m \in Standings, ChangeMembership(s, t, m)
      PROVE  M /\ A
  <2>1. m \in Membership /\ s \in Subjects
    BY IssueAssumption DEF Standings, Membership
  <2> QED BY <1>6, <2>1 DEF ChangeMembership, TypeOK
<1>7. ASSUME NEW p \in People, NEW t \in Tenants, NEW a \in Assistants, NEW b \in SUBSET Boxes,
             ChangeAssistant(p, t, a, {b}) \/ ChangeAssistant(p, t, a, {})
      PROVE  M /\ A
  BY <1>7 DEF ChangeAssistant, TypeOK
<1>8. ASSUME UNCHANGED registerVars PROVE M /\ A
  BY <1>8 DEF registerVars, TypeOK
<1> HIDE DEF M, A
<1>9. M /\ A
  BY <1>1, <1>3, <1>4, <1>5, <1>6, <1>7, <1>8
     DEF Next, GrantRefreshToken, AppRefresh, AppRefreshEnds, GrantTokenExchange, EndSession,
         Expire, Deploy, registerVars, vars
<1> QED BY <1>9 DEF M, A

\* The sessions made keep their types, and the ones in the store were made.
LEMMA SessionTypes ==
    ASSUME TypeOK, StoreInv, [Next]_vars
    PROVE  /\ sessions' \in [SessionIds -> Session \cup {None}]
           /\ live' \in SUBSET SessionIds
           /\ \A id \in live' : sessions'[id] \in Session
           /\ \A id \in SessionIds : sessions[id] # None => sessions'[id] = sessions[id]
<1> DEFINE S == /\ sessions' \in [SessionIds -> Session \cup {None}]
                /\ live' \in SUBSET SessionIds
                /\ \A id \in live' : sessions'[id] \in Session
                /\ \A id \in SessionIds : sessions[id] # None => sessions'[id] = sessions[id]
<1>1. ASSUME NEW id \in SessionIds, NEW sess \in Session, sessions[id] = None,
             sessions' = [sessions EXCEPT ![id] = sess], live' = live \cup {id}
      PROVE  S
  BY <1>1 DEF TypeOK, StoreInv
<1>2. ASSUME NEW id \in SessionIds, NEW p \in People, NEW c \in SignInClients,
             NEW hint \in Tenants \cup {None}, NEW directory,
             GrantAuthorizationCode(id, p, c, hint, directory)
      PROVE  S
  <2>1. PICK tenant \in Tenants \cup {None} :
            sessions' = [sessions EXCEPT ![id] =
                [person |-> p, client |-> c, tenant |-> tenant, assistant |-> None, appScopes |-> {}]]
    BY <1>2 DEF GrantAuthorizationCode
  <2>2. [person |-> p, client |-> c, tenant |-> tenant, assistant |-> None, appScopes |-> {}]
            \in Session
    BY DEF Session
  <2> HIDE DEF S
  <2> QED BY <1>1, <1>2, <2>1, <2>2 DEF GrantAuthorizationCode
<1>3. ASSUME NEW id \in SessionIds, NEW p \in People, NEW c \in SignInClients,
             NEW asked \in SUBSET Boxes, AppCodeExchange(id, p, c, asked)
      PROVE  S
  <2>1. PICK own \in assistants[p] :
            sessions' = [sessions EXCEPT ![id] =
                [person |-> p, client |-> c, tenant |-> own.tenant, assistant |-> own.key,
                 appScopes |-> asked]]
    BY <1>3 DEF AppCodeExchange
  <2>2. own \in [tenant : Tenants, key : Assistants, scopes : SUBSET Boxes]
    BY DEF TypeOK
  <2>3. [person |-> p, client |-> c, tenant |-> own.tenant, assistant |-> own.key,
         appScopes |-> asked] \in Session
    BY <2>2 DEF Session, Scopes
  <2> HIDE DEF S
  <2> QED BY <1>1, <1>3, <2>1, <2>3 DEF AppCodeExchange
<1>4. ASSUME UNCHANGED sessions, live' \subseteq live PROVE S
  BY <1>4 DEF TypeOK, StoreInv
<1> HIDE DEF S
<1>5. S
  BY <1>2, <1>3, <1>4
     DEF Next, GrantRefreshToken, AppRefresh, AppRefreshEnds, GrantClientCredentials,
         GrantTokenExchange, EndSession, Expire, Deploy, ChangeMembership, ChangeAssistant,
         sessionVars, vars
<1> QED BY <1>5 DEF S

\* Documents deployed are never forgotten, and the one in force is among them.
LEMMA DeployedGrows ==
    ASSUME TypeOK, StoreInv, [Next]_vars
    PROVE  /\ registry' \in Documents /\ deployed' \in SUBSET Documents
           /\ deployed \subseteq deployed' /\ registry' \in deployed'
BY DEF TypeOK, StoreInv, Next, Deploy, GrantAuthorizationCode, GrantRefreshToken, AppCodeExchange,
       AppRefresh, AppRefreshEnds, GrantClientCredentials, GrantTokenExchange, EndSession, Expire,
       ChangeMembership, ChangeAssistant, deployVars, vars

\* The types of every state, and that the store's sessions were made.
LEMMA TypeInvariant == Spec => [](TypeOK /\ StoreInv)
<1>1. Init => TypeOK /\ StoreInv
  BY DEF Init, TypeOK, StoreInv, Membership
<1>2. TypeOK /\ StoreInv /\ [Next]_vars => (TypeOK /\ StoreInv)'
  <2> SUFFICES ASSUME TypeOK, StoreInv, [Next]_vars PROVE TypeOK' /\ StoreInv'
    OBVIOUS
  <2>1. tokens' \in SUBSET Token
    <3> SUFFICES ASSUME NEW t \in tokens' PROVE t \in Token
      OBVIOUS
    <3>1. CASE t \in tokens
      BY <3>1 DEF TypeOK
    <3>2. CASE t \notin tokens
      BY <3>2, TokenStep, TokenType
    <3> QED BY <3>1, <3>2
  <2> QED BY <2>1, RegisterTypes, SessionTypes, DeployedGrows DEF TypeOK, StoreInv
<1> QED BY <1>1, <1>2, PTL DEF Spec

\* Every state has the types of the registry's rows, the register's answers, the
\* sessions' and the tokens' claims, whatever is issued, exchanged or deployed.
THEOREM TypeCorrect == Spec => []TypeOK
BY TypeInvariant, PTL

-----------------------------------------------------------------------------
(* What a chain of exchanges keeps.                                         *)

\* Only an AI app's token and what is exchanged from one are an assistant's.
LEMMA AssistantTokens ==
    ASSUME NEW t, NewToken(t), t.method = "assistant"
    PROVE  NewAppToken(t) \/ NewDelegated(t)
BY DEF NewToken, NewDoorToken, DoorTokens, DoorToken, NewUserToken, UserToken,
       NewServiceToken, ServiceToken

\* An assistant's chain never gains a box: whatever services exchange it, over any
\* number of hops and redeploys of the registry, the boxes a token carries are
\* among those of the app's token it began with (narrowForAssistant, aiapp.go).
THEOREM BoxesNeverWiden == Spec => []NoBoxBeyondTheApp
<1>1. Init => NoBoxBeyondTheApp
  BY DEF Init, NoBoxBeyondTheApp
<1>2. TypeOK /\ StoreInv /\ NoBoxBeyondTheApp /\ [Next]_vars => NoBoxBeyondTheApp'
  <2> SUFFICES ASSUME TypeOK, StoreInv, NoBoxBeyondTheApp, [Next]_vars,
                      NEW t \in tokens', t.method = "assistant"
               PROVE  t.scope \cap Boxes \subseteq t.origin.scope
    BY DEF NoBoxBeyondTheApp
  <2>1. CASE t \in tokens
    BY <2>1 DEF NoBoxBeyondTheApp
  <2>2. CASE NewAppToken(t)
    BY <2>2 DEF NewAppToken, AppToken
  <2>3. CASE NewDelegated(t)
    <3>1. PICK c \in ServiceClients, u \in tokens, aud \in Audiences :
              \E allowed \in AllowedScopes(c, aud) :
                  t = Delegated(c, u, aud, ExchangeScopes(c, u, aud, allowed))
      BY <2>3 DEF NewDelegated
    <3>2. PICK allowed : t = Delegated(c, u, aud, ExchangeScopes(c, u, aud, allowed))
      BY <3>1
    <3>3. u.method = "assistant" /\ t.origin = u.origin
      BY <3>2 DEF Delegated
    <3>4. t.scope = NarrowForAssistant(allowed, u.scope, AssistantLevels(registry, c, aud))
      BY <3>2, <3>3 DEF Delegated, ExchangeScopes
    <3>5. t.scope \cap Boxes \subseteq u.scope
      BY <3>4, IssueAssumption DEF NarrowForAssistant, IsBox, IsLevel
    <3>6. u.scope \cap Boxes \subseteq u.origin.scope
      BY <3>3 DEF NoBoxBeyondTheApp
    <3> QED BY <3>3, <3>5, <3>6
  <2> QED BY <2>1, <2>2, <2>3, TokenStep, AssistantTokens
<1> QED BY <1>1, <1>2, TypeInvariant, PTL DEF Spec

\* A level rides an assistant's chain only where the registry named it for the
\* client that made the last hop, toward that audience (assistant_levels).
THEOREM LevelsAreNamed == Spec => []NamedLevelsOnly
<1>1. Init => NamedLevelsOnly
  BY DEF Init, NamedLevelsOnly
<1>2. TypeOK /\ StoreInv /\ NamedLevelsOnly /\ [Next]_vars => NamedLevelsOnly'
  <2> SUFFICES ASSUME TypeOK, StoreInv, NamedLevelsOnly, [Next]_vars,
                      NEW t \in tokens', t.method = "assistant", NEW l \in t.scope \cap Levels
               PROVE  \E doc \in deployed' :
                          /\ Head(t.act) \in ServiceClients
                          /\ l \in AssistantLevels(doc, Head(t.act), t.aud)
    BY DEF NamedLevelsOnly, AssistantLevels
  <2>0. deployed \subseteq deployed' /\ registry \in deployed
    BY DeployedGrows DEF StoreInv
  <2>1. CASE t \in tokens
    BY <2>0, <2>1 DEF NamedLevelsOnly
  <2>2. CASE NewAppToken(t)
    <3>1. t.scope \subseteq Boxes
      BY <2>2 DEF NewAppToken, AppToken
    <3> QED BY <3>1, IssueAssumption
  <2>3. CASE NewDelegated(t)
    <3>1. PICK c \in ServiceClients, u \in tokens, aud \in Audiences :
              \E allowed \in AllowedScopes(c, aud) :
                  t = Delegated(c, u, aud, ExchangeScopes(c, u, aud, allowed))
      BY <2>3 DEF NewDelegated
    <3>2. PICK allowed : t = Delegated(c, u, aud, ExchangeScopes(c, u, aud, allowed))
      BY <3>1
    <3>3. t.scope = NarrowForAssistant(allowed, u.scope, AssistantLevels(registry, c, aud))
      BY <3>2 DEF Delegated, ExchangeScopes
    <3>4. l \in AssistantLevels(registry, c, aud)
      BY <3>3, IssueAssumption DEF NarrowForAssistant, IsBox, IsLevel
    <3>5. u.act \in Seq(Actors)
      BY DEF TypeOK, Token
    <3>6. t.act = <<c>> \o u.act /\ t.aud = aud
      BY <3>2 DEF Delegated
    <3>7. Head(t.act) = c
      BY <3>5, <3>6
    <3> QED BY <2>0, <3>4, <3>6, <3>7
  <2> QED BY <2>1, <2>2, <2>3, TokenStep, AssistantTokens
<1> QED BY <1>1, <1>2, TypeInvariant, PTL DEF Spec

\* An actor put before a chain leaves its first actor, the last of the sequence.
LEMMA LastKept ==
    ASSUME NEW S, NEW c \in S, NEW s \in Seq(S), s # <<>>
    PROVE  LET a == <<c>> \o s IN a # <<>> /\ a[Len(a)] = s[Len(s)]
<1>1. Len(s) \in Nat /\ Len(s) > 0
  OBVIOUS
<1>2. Len(<<c>> \o s) = 1 + Len(s)
  OBVIOUS
<1> QED BY <1>1, <1>2

\* Delegation strips nothing, at any hop: subject, tenant, way of signing in and
\* the assistant at the root of the chain stay (IssueDelegated, issuer.go).
THEOREM DelegationCarriesForward == Spec => []CarriedForward
<1>1. Init => CarriedForward
  BY DEF Init, CarriedForward
<1>2. TypeOK /\ StoreInv /\ CarriedForward /\ [Next]_vars => CarriedForward'
  <2> SUFFICES ASSUME TypeOK, StoreInv, CarriedForward, [Next]_vars, NEW t \in tokens'
               PROVE  /\ t.sub = t.origin.sub
                      /\ t.tenant = t.origin.tenant
                      /\ t.method = t.origin.method
                      /\ t.method = "assistant" => t.act # <<>> /\ t.act[Len(t.act)] \in Assistants
    BY DEF CarriedForward
  <2>1. CASE t \in tokens
    BY <2>1 DEF CarriedForward
  <2>2. CASE NewDoorToken(t)
    BY <2>2 DEF NewDoorToken, DoorTokens, DoorToken
  <2>3. CASE NewUserToken(t)
    BY <2>3 DEF NewUserToken, UserToken
  <2>4. CASE NewAppToken(t)
    <3>1. PICK id \in SessionIds, sess \in Session, scope \in SUBSET Boxes :
              t = AppToken(id, sess, scope) /\ sess.assistant # None
      BY <2>4 DEF NewAppToken
    <3>2. sess.assistant \in Assistants /\ t.act = <<sess.assistant>>
      BY <3>1 DEF AppToken, Session
    <3> QED BY <3>1, <3>2 DEF AppToken
  <2>5. CASE NewServiceToken(t)
    BY <2>5 DEF NewServiceToken, ServiceToken
  <2>6. CASE NewDelegated(t)
    <3>1. PICK c \in ServiceClients, u \in tokens :
              \E aud, scope : t = Delegated(c, u, aud, scope)
      BY <2>6 DEF NewDelegated
    <3>2. /\ t.sub = u.sub /\ t.tenant = u.tenant /\ t.method = u.method
          /\ t.origin = u.origin /\ t.act = <<c>> \o u.act
      BY <3>1 DEF Delegated
    <3>3. u.act \in Seq(Actors) /\ c \in Actors
      BY DEF TypeOK, Token, Actors
    <3>4. u.method = "assistant" => u.act # <<>> /\ u.act[Len(u.act)] \in Assistants
      BY DEF CarriedForward
    <3>5. t.method = "assistant" => t.act # <<>> /\ t.act[Len(t.act)] \in Assistants
      BY <3>2, <3>3, <3>4, LastKept
    <3> QED BY <3>2, <3>5 DEF CarriedForward
  <2> QED BY <2>1, <2>2, <2>3, <2>4, <2>5, <2>6, TokenStep DEF NewToken
<1> QED BY <1>1, <1>2, TypeInvariant, PTL DEF Spec

\* A platform service acting as itself is never acted for, at whichever hop its
\* token turns up (mayBeActedFor, token.go).
THEOREM OnlyServiceAccountsActedFor == Spec => []ActedForATenant
<1>1. Init => ActedForATenant
  BY DEF Init, ActedForATenant
<1>2. TypeOK /\ StoreInv /\ ActedForATenant /\ [Next]_vars => ActedForATenant'
  <2> SUFFICES ASSUME TypeOK, StoreInv, ActedForATenant, [Next]_vars,
                      NEW t \in tokens', t.sub \in ServiceClients, t.act # <<>>
               PROVE  t.tenant # None \/ (t.act = <<Core>> /\ t.aud = Register)
    BY DEF ActedForATenant
  <2>1. CASE t \in tokens
    BY <2>1 DEF ActedForATenant
  <2>2. CASE NewDoorToken(t)
    BY <2>2 DEF NewDoorToken, DoorTokens, DoorToken
  <2>3. CASE NewUserToken(t)
    BY <2>3, IssueAssumption DEF NewUserToken, UserToken
  <2>4. CASE NewAppToken(t)
    <3>1. t.sub \in People
      BY <2>4 DEF NewAppToken, AppToken, Session
    <3> QED BY <3>1, IssueAssumption
  <2>5. CASE NewServiceToken(t)
    BY <2>5 DEF NewServiceToken, ServiceToken
  <2>6. CASE NewDelegated(t)
    BY <2>6 DEF NewDelegated, Delegated, MayBeActedFor, IsService
  <2> QED BY <2>1, <2>2, <2>3, <2>4, <2>5, <2>6, TokenStep DEF NewToken
<1> QED BY <1>1, <1>2, TypeInvariant, PTL DEF Spec

\* Strengthens Confined: the audience a chain has come to is in every closed set
\* of audiences that it began in.
Arrived ==
    \A t \in tokens, A \in SUBSET Audiences :
        (t.origin.aud \in A /\ Closed(A)) => t.aud \in A

\* A set that no exchange leads out of was none before a document was deployed.
LEMMA ClosedBefore ==
    ASSUME TypeOK, StoreInv, [Next]_vars, NEW A \in SUBSET Audiences, Closed(A)'
    PROVE  Closed(A)
BY DeployedGrows DEF Closed, MayActFrom

\* Chains are confined to the audiences the registry's grants and act_from lead
\* to, whatever documents are deployed one after the other (MayActFrom against
\* AllowedScopes): no product's edge gets into another product's chain.
THEOREM ChainsAreConfined == Spec => []Confined
<1>1. Init => Arrived /\ Confined
  BY DEF Init, Arrived, Confined
<1>2. TypeOK /\ StoreInv /\ Arrived /\ Confined /\ [Next]_vars => (Arrived /\ Confined)'
  <2> SUFFICES ASSUME TypeOK, StoreInv, Arrived, Confined, [Next]_vars,
                      NEW t \in tokens', NEW A \in SUBSET Audiences,
                      t.origin.aud \in A, Closed(A)'
               PROVE  /\ t.aud \in A
                      /\ \A i \in DOMAIN t.act : t.act[i] \in ServiceClients \ {Core} =>
                             \E doc \in deployed', a \in A : MayActFrom(doc, t.act[i], a)
    BY DEF Arrived, Confined, MayActFrom
  <2>0. Closed(A) /\ deployed \subseteq deployed' /\ registry \in deployed
    BY ClosedBefore, DeployedGrows DEF StoreInv
  <2>1. CASE t \in tokens
    BY <2>0, <2>1 DEF Arrived, Confined
  <2>2. CASE NewDoorToken(t)
    <3>1. t.act = <<Core>> /\ t.aud = t.origin.aud
      BY <2>2 DEF NewDoorToken, DoorTokens, DoorToken
    <3> QED BY <3>1
  <2>3. CASE NewUserToken(t)
    <3>1. t.act = <<>> /\ t.aud = t.origin.aud
      BY <2>3 DEF NewUserToken, UserToken
    <3> QED BY <3>1
  <2>4. CASE NewAppToken(t)
    <3>1. PICK id \in SessionIds, sess \in Session, scope \in SUBSET Boxes :
              t = AppToken(id, sess, scope) /\ sess.assistant # None
      BY <2>4 DEF NewAppToken
    <3>2. sess.assistant \in Assistants /\ t.act = <<sess.assistant>> /\ t.aud = t.origin.aud
      BY <3>1 DEF AppToken, Session
    <3> QED BY <3>2, IssueAssumption
  <2>5. CASE NewServiceToken(t)
    <3>1. t.act = <<>> /\ t.aud = t.origin.aud
      BY <2>5 DEF NewServiceToken, ServiceToken
    <3> QED BY <3>1
  <2>6. CASE NewDelegated(t)
    <3>1. PICK c \in ServiceClients, u \in tokens, aud \in Audiences :
              /\ MayActFrom(registry, c, u.aud)
              /\ registry.clients[c].grants[aud].given
              /\ \E scope : t = Delegated(c, u, aud, scope)
      BY <2>6 DEF NewDelegated
    <3>2. t.aud = aud /\ t.origin = u.origin /\ t.act = <<c>> \o u.act
      BY <3>1 DEF Delegated
    <3>3. u.aud \in A
      BY <2>0, <3>2 DEF Arrived
    <3>4. t.aud \in A
      BY <2>0, <3>1, <3>2, <3>3 DEF Closed
    <3>5. ASSUME NEW i \in DOMAIN t.act, t.act[i] \in ServiceClients \ {Core}
          PROVE  \E doc \in deployed', a \in A : MayActFrom(doc, t.act[i], a)
      <4>1. u.act \in Seq(Actors)
        BY DEF TypeOK, Token
      <4>2. CASE i = 1
        <5>1. t.act[i] = c
          BY <3>2, <4>1, <4>2
        <5> QED BY <2>0, <3>1, <3>3, <5>1
      <4>3. CASE i # 1
        <5>1. i - 1 \in DOMAIN u.act /\ t.act[i] = u.act[i - 1]
          BY <3>2, <3>5, <4>1, <4>3
        <5>2. \E doc \in deployed, a \in A : MayActFrom(doc, u.act[i - 1], a)
          BY <2>0, <3>2, <3>5, <5>1 DEF Confined
        <5> QED BY <2>0, <5>1, <5>2
      <4> QED BY <4>2, <4>3
    <3> QED BY <3>4, <3>5
  <2> QED BY <2>1, <2>2, <2>3, <2>4, <2>5, <2>6, TokenStep DEF NewToken
<1> QED BY <1>1, <1>2, TypeInvariant, PTL DEF Spec

\* Strengthens SessionKeepsTenant: the session a token was issued in was made.
SessionMade == \A t \in tokens : t.session # None => sessions[t.session] \in Session

\* A session issued for a tenant mints for no other, whatever becomes of the
\* person's memberships and the client's row (userScopes with the tenant the
\* session recorded, token.go).
THEOREM SessionsKeepTheirTenant == Spec => []SessionKeepsTenant
<1> DEFINE Kept == SessionMade /\ SessionKeepsTenant
<1>1. Init => Kept
  BY DEF Init, SessionMade, SessionKeepsTenant
<1>2. TypeOK /\ StoreInv /\ Kept /\ [Next]_vars => Kept'
  <2> SUFFICES ASSUME TypeOK, StoreInv, Kept, [Next]_vars, NEW t \in tokens', t.session # None
               PROVE  /\ sessions'[t.session] \in Session
                      /\ (t.tenant # None /\ sessions'[t.session].tenant # None)
                             => t.tenant = sessions'[t.session].tenant
    BY DEF SessionMade, SessionKeepsTenant
  <2>1. CASE t \in tokens
    <3>1. sessions[t.session] \in Session /\ t.session \in SessionIds
      BY <2>1 DEF SessionMade, TypeOK, Token
    <3>2. sessions'[t.session] = sessions[t.session]
      BY <3>1, SessionTypes, SessionAssumption
    <3> QED BY <2>1, <3>1, <3>2 DEF SessionKeepsTenant
  <2>2. CASE NewDoorToken(t)
    BY <2>2 DEF NewDoorToken, DoorTokens, DoorToken
  <2>3. CASE NewUserToken(t)
    BY <2>3 DEF NewUserToken, UserToken
  <2>4. CASE NewAppToken(t)
    BY <2>4 DEF NewAppToken, AppToken
  <2>5. CASE NewServiceToken(t)
    BY <2>5 DEF NewServiceToken, ServiceToken
  <2>6. CASE NewDelegated(t)
    BY <2>6 DEF NewDelegated, Delegated
  <2> QED BY <2>1, <2>2, <2>3, <2>4, <2>5, <2>6, TokenStep DEF NewToken
<1> QED BY <1>1, <1>2, TypeInvariant, PTL DEF Spec

=============================================================================
