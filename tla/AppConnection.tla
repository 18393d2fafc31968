---------------------------- MODULE AppConnection ----------------------------
(***************************************************************************)
(* The connections of AI apps (routes/aiapp.go, routes/connections.go): the *)
(* person's choice of assistant, the code exchange that makes a connection, *)
(* its refresh tokens, each good once, its use at a token exchange, and the *)
(* ways it ends: a token used twice, the assistant gone, the app's own      *)
(* revocation, a person's or an administrator's sign-out.  As in            *)
(* SharedSession a request is a process whose steps are its store calls,    *)
(* and the request that draws a random token names it.                      *)
(***************************************************************************)
EXTENDS Integers, FiniteSets

CONSTANTS
    Sessions,    \* the sessions the AI apps' sign-ins made
    Choices,     \* the requests of a behaviour: choices of assistant,
    Connects,    \* code exchanges,
    Refreshes,   \* refreshes,
    Revokes,     \* revocations by the app,
    Uses,        \* exchanges of an app's token, for a call made through it
    SignOuts,    \* sign-outs of one connection,
    EndAlls,     \* sign-outs of all connections of the assistant,
    Lists,       \* listings of them
    None,
    MaxOutages   \* the bound on the store calls that fail

Keys == Connects \cup Refreshes
Sweeps == EndAlls \cup Lists
Reqs == Keys \cup Choices \cup Revokes \cup Uses \cup SignOuts \cup Sweeps

ASSUME RequestsAssumption ==
    /\ Connects \cap Refreshes = {}
    /\ EndAlls \cap Lists = {}
    /\ SignOuts \cap Sweeps = {}
    /\ Uses \cap (SignOuts \cup Sweeps) = {}
    /\ Revokes \cap (Uses \cup SignOuts \cup Sweeps) = {}
    /\ Choices \cap (Revokes \cup Uses \cup SignOuts \cup Sweeps) = {}
    /\ Keys \cap (Choices \cup Revokes \cup Uses \cup SignOuts \cup Sweeps) = {}
    /\ None \notin Reqs \cup Sessions

ASSUME MaxOutagesAssumption == MaxOutages \in Nat

VARIABLES
    sess,     \* the sessions in the cache
    ticket,   \* the assistant page's ticket of each sign-in
    code,     \* its application code
    grant,    \* the refresh grants, by the request that drew the token
    index,    \* the connections the assistant's index lists
    owned,    \* the register: the person still has the assistant
    req,      \* where each request is and what it has read
    outages   \* how many store calls have failed

vars == <<sess, ticket, code, grant, index, owned, req, outages>>

Status == {"none", "live", "gone", "over"}

\* key: RefreshKey; named: the public name (SID) it got when it was connected.
Session == [st : Status, chosen : BOOLEAN, key : Keys \cup {None}, named : BOOLEAN]

Grant == [st : {"none", "live", "gone"}, s : Sessions \cup {None}, rotated : BOOLEAN]

Final == {"coded", "issued", "refused", "reused", "unavailable", "ended", "missing"}

Labels == Final \cup
    {"idle", "ticket", "chooseSess", "chooseSave", "chooseCode", "consume",
     "load", "grant", "loadGranted", "dropGrant", "register", "take", "saveNext",
     "markUsed", "bind", "addIndex", "snapshot", "find", "findSess", "dropIndex",
     "touch", "endSess", "endKey", "endToken", "unindex"}

Request == [pc : Labels, s : Sessions \cup {None}, k : Keys \cup {None},
            good : BOOLEAN, rotated : BOOLEAN, key : Keys \cup {None},
            named : BOOLEAN, todo : SUBSET Sessions, seen : SUBSET Sessions,
            ret : Labels]

Blank == [pc |-> "idle", s |-> None, k |-> None, good |-> TRUE, rotated |-> FALSE,
          key |-> None, named |-> FALSE, todo |-> {}, seen |-> {}, ret |-> "idle"]

TypeOK ==
    /\ sess \in [Sessions -> Session]
    /\ ticket \in [Sessions -> {"none", "saved", "spent"}]
    /\ code \in [Sessions -> {"none", "saved", "spent"}]
    /\ grant \in [Keys -> Grant]
    /\ index \in SUBSET Sessions
    /\ owned \in BOOLEAN
    /\ req \in [Reqs -> Request]
    /\ outages \in Nat

Init ==
    /\ sess = [s \in Sessions |-> [st |-> "none", chosen |-> FALSE, key |-> None,
                                   named |-> FALSE]]
    /\ ticket = [s \in Sessions |-> "none"]
    /\ code = [s \in Sessions |-> "none"]
    /\ grant = [k \in Keys |-> [st |-> "none", s |-> None, rotated |-> FALSE]]
    /\ index = {}
    /\ owned = TRUE
    /\ req = [r \in Reqs |-> Blank]
    /\ outages = 0

-----------------------------------------------------------------------------
Live(s) == sess[s].st = "live"

\* SaveRefresh and AddConnection refuse a session whose lifetime is over.
Lasts(s) == sess[s].st # "over"

LiveGrant(k) == grant[k].st = "live" /\ Lasts(grant[k].s)

Fails == outages < MaxOutages /\ outages' = outages + 1

\* What Connections answers: the index, without what has lapsed.
Listed == {s \in index : Lasts(s)}

\* The request goes on at label; a failed call that answers 503 ends it there.
Go(r, label) == req' = [req EXCEPT ![r].pc = label]

Unavailable(r) == Fails /\ Go(r, "unavailable")

storeVars == <<sess, ticket, code, grant, index>>

-----------------------------------------------------------------------------
(* The sign-in and the choice of assistant.                                 *)

\* saveSignedIn and askAssistant: a session of its own and the page's ticket.
\* Nobody knows either before the page is answered, so they are one step.
AskAssistant(s) ==
    /\ sess[s].st = "none"
    /\ sess' = [sess EXCEPT ![s].st = "live"]
    /\ ticket' = [ticket EXCEPT ![s] = "saved"]
    /\ UNCHANGED <<code, grant, index, owned, req, outages>>

\* chooseAssistant, posted from the page with its token (good: in the browser
\* the sign-in was bound to).
ChoicePosted(r, s, good) ==
    /\ req[r].pc = "idle"
    /\ ticket[s] # "none"
    /\ req' = [req EXCEPT ![r] = [@ EXCEPT !.pc = "ticket", !.s = s, !.good = good]]
    /\ UNCHANGED <<storeVars, owned, outages>>

\* ConsumeFlow: the ticket is good once, and spent in the wrong browser too.
ConsumeTicket(r) ==
    LET q == req[r] IN
    /\ q.pc = "ticket"
    /\ \/ /\ ticket[q.s] = "saved"
          /\ ticket' = [ticket EXCEPT ![q.s] = "spent"]
          /\ Go(r, IF q.good THEN "chooseSess" ELSE "refused")
          /\ UNCHANGED outages
       \/ /\ \/ ticket[q.s] # "saved" /\ UNCHANGED outages
             \/ Fails
          /\ Go(r, "refused")
          /\ UNCHANGED ticket
    /\ UNCHANGED <<sess, code, grant, index, owned>>

\* LoadSession, and the register: the assistant must be the person's own now.
ChooseLoad(r) ==
    LET q == req[r] IN
    /\ q.pc = "chooseSess"
    /\ \/ /\ Live(q.s) /\ owned
          /\ Go(r, "chooseSave")
          /\ UNCHANGED outages
       \/ /\ \/ ~(Live(q.s) /\ owned) /\ UNCHANGED outages
             \/ Fails
          /\ Go(r, "refused")
    /\ UNCHANGED <<storeVars, owned>>

\* ReplaceSession: the session names the assistant.
ChooseSave(r) ==
    LET q == req[r] IN
    /\ q.pc = "chooseSave"
    /\ \/ /\ Live(q.s)
          /\ sess' = [sess EXCEPT ![q.s].chosen = TRUE]
          /\ Go(r, "chooseCode")
          /\ UNCHANGED outages
       \/ /\ \/ ~Live(q.s) /\ UNCHANGED outages
             \/ Fails
          /\ Go(r, "refused")
          /\ UNCHANGED sess
    /\ UNCHANGED <<ticket, code, grant, index, owned>>

\* SaveAppCode and the redirect to the app.
ChooseCode(r) ==
    /\ req[r].pc = "chooseCode"
    /\ \/ /\ code' = [code EXCEPT ![req[r].s] = "saved"]
          /\ Go(r, "coded")
          /\ UNCHANGED outages
       \/ Unavailable(r) /\ UNCHANGED code
    /\ UNCHANGED <<sess, ticket, grant, index, owned>>

-----------------------------------------------------------------------------
(* appCodeExchange.                                                         *)

CodePresented(r, s, good) ==
    /\ req[r].pc = "idle"
    /\ code[s] # "none"
    /\ req' = [req EXCEPT ![r] = [@ EXCEPT !.pc = "consume", !.s = s, !.good = good]]
    /\ UNCHANGED <<storeVars, owned, outages>>

\* ConsumeAppCode, then the echo-check and PKCE; a code may also have expired.
ConsumeAppCode(r) ==
    LET q == req[r] IN
    /\ q.pc = "consume"
    /\ \/ /\ code[q.s] = "saved"
          /\ code' = [code EXCEPT ![q.s] = "spent"]
          /\ \E fresh \in BOOLEAN : Go(r, IF q.good /\ fresh THEN "load" ELSE "refused")
          /\ UNCHANGED outages
       \/ /\ code[q.s] # "saved"
          /\ Go(r, "refused")
          /\ UNCHANGED <<code, outages>>
       \/ Unavailable(r) /\ UNCHANGED code
    /\ UNCHANGED <<sess, ticket, grant, index, owned>>

\* LoadSession: the session as the code left it.
ConnectLoad(r) ==
    LET s == req[r].s IN
    /\ req[r].pc = "load"
    /\ \/ /\ Live(s) /\ sess[s].chosen
          /\ req' = [req EXCEPT ![r] = [@ EXCEPT !.pc = "register", !.key = sess[s].key,
                                                 !.named = sess[s].named]]
          /\ UNCHANGED outages
       \/ /\ \/ ~(Live(s) /\ sess[s].chosen) /\ UNCHANGED outages
             \/ Fails
          /\ Go(r, "refused")
    /\ UNCHANGED <<storeVars, owned>>

\* connectionScopes, of an exchange and of a refresh: the assistant gone ends
\* the connection; a register that cannot answer ends nothing.
AskRegister(r) ==
    /\ req[r].pc = "register"
    /\ \/ /\ owned
          /\ Go(r, IF r \in Connects THEN "saveNext" ELSE "take")
       \/ /\ ~owned
          /\ req' = [req EXCEPT ![r] = [@ EXCEPT !.pc = "endSess", !.ret = "refused"]]
       \/ Go(r, "unavailable")
    /\ UNCHANGED <<storeVars, owned, outages>>

\* Mutant: the grant names its key where the session's id belongs, both strings.
SaveNext_KeyForSession(r) ==
    /\ req[r].pc = "saveNext"
    /\ grant' = [grant EXCEPT ![r] = [st |-> "live", s |-> r, rotated |-> FALSE]]
    /\ Go(r, IF r \in Connects THEN "bind" ELSE "markUsed")
    /\ UNCHANGED <<sess, ticket, code, index, owned, outages>>

\* SaveRefresh: the grant of the new refresh token.
SaveNext(r) ==
    LET q == req[r] IN
    /\ q.pc = "saveNext"
    /\ \/ /\ Lasts(q.s)
          /\ grant' = [grant EXCEPT ![r] = [st |-> "live", s |-> q.s, rotated |-> FALSE]]
          /\ Go(r, IF r \in Connects THEN "bind" ELSE "markUsed")
          /\ UNCHANGED outages
       \/ /\ ~Lasts(q.s)
          /\ Go(r, "refused")
          /\ UNCHANGED <<grant, outages>>
       \/ Unavailable(r) /\ UNCHANGED grant
    /\ UNCHANGED <<sess, ticket, code, index, owned>>

\* Mutant: a plain SET, which brings an ended session back.
Bind_Set(r) ==
    LET q == req[r] IN
    /\ q.pc = "bind"
    /\ sess' = [sess EXCEPT ![q.s] = [@ EXCEPT !.st = "live", !.key = r, !.named = TRUE]]
    /\ Go(r, IF r \in Connects THEN "addIndex" ELSE "issued")
    /\ UNCHANGED <<ticket, code, grant, index, owned, outages>>

\* ReplaceSession: the session as it was read, naming the new grant (and, at
\* the exchange, its public name), over one that still exists.
Bind(r) ==
    LET q == req[r] IN
    /\ q.pc = "bind"
    /\ \/ /\ Live(q.s)
          /\ sess' = [sess EXCEPT ![q.s] = [@ EXCEPT !.key = r, !.named = TRUE]]
          /\ Go(r, IF r \in Connects THEN "addIndex" ELSE "issued")
          /\ UNCHANGED outages
       \/ /\ ~Live(q.s)
          /\ Go(r, "refused")
          /\ UNCHANGED <<sess, outages>>
       \/ Unavailable(r) /\ UNCHANGED sess
    /\ UNCHANGED <<ticket, code, grant, index, owned>>

\* Mutant: a connection that could not be listed is answered all the same.
AddConnection_Ignored(r) ==
    LET q == req[r] IN
    /\ q.pc = "addIndex"
    /\ Go(r, "issued")
    /\ \/ index' = index \cup {q.s} /\ UNCHANGED outages
       \/ Fails /\ UNCHANGED index
    /\ UNCHANGED <<sess, ticket, code, grant, owned>>

\* AddConnection, and the app's first token.
AddConnection(r) ==
    LET q == req[r] IN
    /\ q.pc = "addIndex"
    /\ \/ /\ Lasts(q.s)
          /\ index' = index \cup {q.s}
          /\ Go(r, "issued")
          /\ UNCHANGED outages
       \/ /\ ~Lasts(q.s)
          /\ Go(r, "refused")
          /\ UNCHANGED <<index, outages>>
       \/ Unavailable(r) /\ UNCHANGED index
    /\ UNCHANGED <<sess, ticket, code, grant, owned>>

-----------------------------------------------------------------------------
(* appRefresh.                                                              *)

\* A refresh or a revocation with the token the request k answered, by the app
\* it was issued to (good) or another.
TokenPresented(r, k, good) ==
    /\ req[r].pc = "idle"
    /\ req[k].pc = "issued"
    /\ req' = [req EXCEPT ![r] = [@ EXCEPT !.pc = "grant", !.k = k, !.good = good]]
    /\ UNCHANGED <<storeVars, owned, outages>>

\* LoadRefresh: the grant is read, and whether it was used already.
LoadRefresh(r) ==
    LET q == req[r] IN
    /\ r \in Refreshes
    /\ q.pc = "grant"
    /\ \/ /\ LiveGrant(q.k) /\ q.good
          /\ req' = [req EXCEPT ![r] = [@ EXCEPT !.pc = "loadGranted", !.s = grant[q.k].s,
                                                 !.rotated = grant[q.k].rotated]]
          /\ UNCHANGED outages
       \/ /\ ~(LiveGrant(q.k) /\ q.good)
          /\ Go(r, "refused")
          /\ UNCHANGED outages
       \/ Unavailable(r)
    /\ UNCHANGED <<storeVars, owned>>

\* The request read session s, and ends it in endConnection.
Ending(q, ret) ==
    [q EXCEPT !.pc = "endSess", !.ret = ret, !.key = sess[q.s].key,
              !.named = sess[q.s].named]

\* Mutant: a used token is refused and nothing is ended.
LoadGranted_Refuses(r) ==
    LET q == req[r] IN
    /\ r \in Refreshes
    /\ q.pc = "loadGranted"
    /\ req' = [req EXCEPT ![r] = [@ EXCEPT !.pc = IF q.rotated THEN "refused" ELSE "register",
                                           !.key = sess[q.s].key, !.named = sess[q.s].named]]
    /\ UNCHANGED <<storeVars, owned, outages>>

\* LoadSession: a token used before ends the connection (reusedRefresh).
LoadGranted(r) ==
    LET q == req[r] IN
    /\ r \in Refreshes
    /\ q.pc = "loadGranted"
    /\ \/ /\ Live(q.s) /\ q.rotated
          /\ req' = [req EXCEPT ![r] = Ending(q, "reused")]
          /\ UNCHANGED outages
       \/ /\ Live(q.s) /\ ~q.rotated
          /\ req' = [req EXCEPT ![r] = [@ EXCEPT !.pc = "register", !.key = sess[q.s].key,
                                                 !.named = sess[q.s].named]]
          /\ UNCHANGED outages
       \/ /\ ~Live(q.s)
          /\ req' = [req EXCEPT ![r] = [@ EXCEPT !.pc = "dropGrant", !.ret = "refused"]]
          /\ UNCHANGED outages
       \/ Unavailable(r)
    /\ UNCHANGED <<storeVars, owned>>

\* DeleteRefresh of a grant whose session is gone; whether it failed is ignored.
DropGrant(r) ==
    LET q == req[r] IN
    /\ q.pc = "dropGrant"
    /\ \/ /\ grant' = [grant EXCEPT ![q.k].st = "gone"]
          /\ UNCHANGED outages
       \/ Fails /\ UNCHANGED grant
    /\ Go(r, q.ret)
    /\ UNCHANGED <<sess, ticket, code, index, owned>>

\* Mutant: the token is read and left in the store.
TakeRefresh_Read(r) ==
    LET q == req[r] IN
    /\ q.pc = "take"
    /\ Go(r, IF LiveGrant(q.k) /\ ~grant[q.k].rotated THEN "saveNext" ELSE "refused")
    /\ UNCHANGED <<storeVars, owned, outages>>

\* TakeRefresh (GETDEL): of two refreshes with one token one gets it; one that
\* gets the mark the other left ends the connection, as it was read earlier.
TakeRefresh(r) ==
    LET q == req[r] IN
    /\ q.pc = "take"
    /\ \/ /\ LiveGrant(q.k)
          /\ grant' = [grant EXCEPT ![q.k].st = "gone"]
          /\ req' = [req EXCEPT ![r] =
                 IF grant[q.k].rotated THEN [@ EXCEPT !.pc = "endSess", !.ret = "reused"]
                 ELSE [@ EXCEPT !.pc = "saveNext"]]
          /\ UNCHANGED outages
       \/ /\ ~LiveGrant(q.k)
          /\ Go(r, "refused")
          /\ UNCHANGED <<grant, outages>>
       \/ Unavailable(r) /\ UNCHANGED grant
    /\ UNCHANGED <<sess, ticket, code, index, owned>>

\* Mutant: the new token is marked used.
MarkUsed_New(r) ==
    /\ req[r].pc = "markUsed"
    /\ grant' = [grant EXCEPT ![r].rotated = TRUE]
    /\ Go(r, "bind")
    /\ UNCHANGED <<sess, ticket, code, index, owned, outages>>

\* Mutant: the old token is saved again without the mark.
MarkUsed_Unmarked(r) ==
    LET q == req[r] IN
    /\ q.pc = "markUsed"
    /\ Lasts(q.s)
    /\ grant' = [grant EXCEPT ![q.k] = [st |-> "live", s |-> q.s, rotated |-> FALSE]]
    /\ Go(r, "bind")
    /\ UNCHANGED <<sess, ticket, code, index, owned, outages>>

\* SaveRefresh of the old token, marked used, after the new one was saved.
MarkUsed(r) ==
    LET q == req[r] IN
    /\ q.pc = "markUsed"
    /\ \/ /\ Lasts(q.s)
          /\ grant' = [grant EXCEPT ![q.k] = [st |-> "live", s |-> q.s, rotated |-> TRUE]]
          /\ Go(r, "bind")
          /\ UNCHANGED outages
       \/ /\ ~Lasts(q.s)
          /\ Go(r, "refused")
          /\ UNCHANGED <<grant, outages>>
       \/ Unavailable(r) /\ UNCHANGED grant
    /\ UNCHANGED <<sess, ticket, code, index, owned>>

-----------------------------------------------------------------------------
(* endConnection: the session, the grant it was read with, the grant of the *)
(* token presented, the index.                                              *)

\* After its last step: a sweep goes on with the next connection.
Done(q) == IF q.todo = {} THEN q.ret ELSE "find"

AfterGrants(q) == IF q.named THEN "unindex" ELSE Done(q)
AfterKey(q) == IF q.k # None THEN "endToken" ELSE AfterGrants(q)
AfterSession(q) == IF q.key # None THEN "endKey" ELSE AfterKey(q)

\* Mutant: a session that could not be removed is passed over, as the index is.
EndSession_GoesOn(r) ==
    LET q == req[r] IN
    /\ q.pc = "endSess"
    /\ Go(r, AfterSession(q))
    /\ \/ sess' = [sess EXCEPT ![q.s].st = "gone"] /\ UNCHANGED outages
       \/ Fails /\ UNCHANGED sess
    /\ UNCHANGED <<ticket, code, grant, index, owned>>

EndSession(r) ==
    LET q == req[r] IN
    /\ q.pc = "endSess"
    /\ \/ /\ sess' = [sess EXCEPT ![q.s].st = IF Lasts(q.s) THEN "gone" ELSE "over"]
          /\ Go(r, AfterSession(q))
          /\ UNCHANGED outages
       \/ Unavailable(r) /\ UNCHANGED sess
    /\ UNCHANGED <<ticket, code, grant, index, owned>>

EndGrant(r) ==
    LET q == req[r]
        k == IF q.pc = "endKey" THEN q.key ELSE q.k
    IN
    /\ q.pc \in {"endKey", "endToken"}
    /\ \/ /\ grant' = [grant EXCEPT ![k].st = "gone"]
          /\ Go(r, IF q.pc = "endKey" THEN AfterKey(q) ELSE AfterGrants(q))
          /\ UNCHANGED outages
       \/ Unavailable(r) /\ UNCHANGED grant
    /\ UNCHANGED <<sess, ticket, code, index, owned>>

\* RemoveConnection; a failure is logged and the connection is still ended.
Unindex(r) ==
    LET q == req[r] IN
    /\ q.pc = "unindex"
    /\ Go(r, Done(q))
    /\ \/ /\ index' = index \ {q.s}
          /\ UNCHANGED outages
       \/ Fails /\ UNCHANGED index
    /\ UNCHANGED <<sess, ticket, code, grant, owned>>

-----------------------------------------------------------------------------
(* revokeApp.                                                               *)

\* LoadRefresh: an unknown token is answered as revoked.
RevokeGrant(r) ==
    LET q == req[r] IN
    /\ r \in Revokes
    /\ q.pc = "grant"
    /\ \/ /\ ~LiveGrant(q.k)
          /\ Go(r, "ended")
          /\ UNCHANGED outages
       \/ /\ LiveGrant(q.k) /\ q.good
          /\ req' = [req EXCEPT ![r] = [@ EXCEPT !.pc = "loadGranted", !.s = grant[q.k].s]]
          /\ UNCHANGED outages
       \/ /\ LiveGrant(q.k) /\ ~q.good
          /\ Go(r, "refused")
          /\ UNCHANGED outages
       \/ Unavailable(r)
    /\ UNCHANGED <<storeVars, owned>>

\* Mutant: only the token is removed.
RevokeLoad_TokenOnly(r) ==
    /\ r \in Revokes
    /\ req[r].pc = "loadGranted"
    /\ req' = [req EXCEPT ![r] = [@ EXCEPT !.pc = "dropGrant", !.ret = "ended"]]
    /\ UNCHANGED <<storeVars, owned, outages>>

\* LoadSession: every error, an outage too, drops the grant and answers 200.
RevokeLoad(r) ==
    LET q == req[r] IN
    /\ r \in Revokes
    /\ q.pc = "loadGranted"
    /\ \/ /\ Live(q.s)
          /\ req' = [req EXCEPT ![r] = Ending(q, "ended")]
          /\ UNCHANGED outages
       \/ /\ \/ ~Live(q.s) /\ UNCHANGED outages
             \/ Fails
          /\ req' = [req EXCEPT ![r] = [@ EXCEPT !.pc = "dropGrant", !.ret = "ended"]]
    /\ UNCHANGED <<storeVars, owned>>

-----------------------------------------------------------------------------
(* connections.go, and appConnectionLive at a token exchange.               *)

\* signOutAssistantConnection, by an administrator, and signOutOwnConnection,
\* where the register first says whose assistant it is.
SignOutAsked(r, s, administrator) ==
    /\ req[r].pc = "idle"
    /\ sess[s].named
    /\ \E next \in IF administrator THEN {"find"}
                   ELSE {IF owned THEN "find" ELSE "missing", "unavailable"} :
           req' = [req EXCEPT ![r] = [@ EXCEPT !.pc = next, !.s = s, !.ret = "ended"]]
    /\ UNCHANGED <<storeVars, owned, outages>>

\* grantTokenExchange of a token issued to the app.
TokenUsed(r, k) ==
    /\ req[r].pc = "idle"
    /\ req[k].pc = "issued"
    /\ req' = [req EXCEPT ![r] = [@ EXCEPT !.pc = "find", !.s = req[k].s]]
    /\ UNCHANGED <<storeVars, owned, outages>>

\* endAssistantConnections and connectionLines: the index is read first.
Snapshot(r) ==
    /\ r \in Sweeps
    /\ req[r].pc = "idle"
    /\ \/ /\ req' = [req EXCEPT ![r] = [@ EXCEPT !.todo = Listed, !.seen = Listed, !.ret = "ended",
                         !.pc = IF Listed = {} THEN "ended"
                                ELSE IF r \in Lists THEN "findSess" ELSE "find"]]
          /\ UNCHANGED outages
       \/ Unavailable(r)
    /\ UNCHANGED <<storeVars, owned>>

\* The answer when the connection is not live.
NotLive(r, q) ==
    IF r \in Uses THEN "refused" ELSE IF r \in SignOuts THEN "missing"
    ELSE IF r \in Lists /\ q.todo # {} THEN "findSess" ELSE Done(q)

\* findConnection, the index: a sweep takes the connections one by one.
FindConnection(r) ==
    LET q == req[r] IN
    /\ q.pc = "find"
    /\ \/ /\ \E s \in IF r \in EndAlls THEN q.todo ELSE {q.s} :
                 LET at == [q EXCEPT !.s = s, !.todo = @ \ {s}] IN
                 req' = [req EXCEPT ![r] = [at EXCEPT !.pc =
                     IF s \in Listed THEN "findSess" ELSE NotLive(r, at)]]
          /\ UNCHANGED outages
       \/ Unavailable(r)
    /\ UNCHANGED <<storeVars, owned>>

\* LoadSession.  A live connection is signed out; or counts as live, and its use
\* is written at most once a minute; or is listed.
FindSession(r) ==
    LET q == req[r] IN
    /\ q.pc = "findSess"
    /\ \/ /\ \E s \in IF r \in Lists THEN q.todo ELSE {q.s} :
                 LET at == [q EXCEPT !.s = s, !.todo = @ \ {s}] IN
                 \/ /\ ~Live(s)
                    /\ req' = [req EXCEPT ![r] = [at EXCEPT !.pc = "dropIndex"]]
                 \/ /\ Live(s) /\ r \in SignOuts \cup EndAlls
                    /\ req' = [req EXCEPT ![r] = Ending(at, "ended")]
                 \/ /\ Live(s) /\ r \in Lists
                    /\ req' = [req EXCEPT ![r] = [at EXCEPT !.pc = NotLive(r, at)]]
                 \/ /\ Live(s) /\ r \in Uses
                    /\ \E next \in {"issued", "touch"} :
                           req' = [req EXCEPT ![r] = [at EXCEPT !.pc = next,
                                                                !.key = sess[s].key]]
          /\ UNCHANGED outages
       \/ Unavailable(r)
    /\ UNCHANGED <<storeVars, owned>>

\* RemoveConnection of a name whose session has ended; a failure is ignored.
DropIndex(r) ==
    LET q == req[r] IN
    /\ q.pc = "dropIndex"
    /\ Go(r, NotLive(r, q))
    /\ \/ /\ index' = index \ {q.s}
          /\ UNCHANGED outages
       \/ Fails /\ UNCHANGED index
    /\ UNCHANGED <<sess, ticket, code, grant, owned>>

\* ReplaceSession with LastUsed: the whole session as it was read.
Touch(r) ==
    LET q == req[r] IN
    /\ q.pc = "touch"
    /\ \/ /\ Live(q.s)
          /\ sess' = [sess EXCEPT ![q.s].key = q.key]
          /\ Go(r, "issued")
          /\ UNCHANGED outages
       \/ /\ ~Live(q.s)
          /\ Go(r, "refused")
          /\ UNCHANGED <<sess, outages>>
       \/ Unavailable(r) /\ UNCHANGED sess
    /\ UNCHANGED <<ticket, code, grant, index, owned>>

-----------------------------------------------------------------------------
(* The register and the clock.                                              *)

\* The assistant is removed, or given to another person.
RemoveAssistant ==
    /\ owned
    /\ owned' = FALSE
    /\ UNCHANGED <<storeVars, req, outages>>

\* The session's lifetime ends: the cache drops it and what was kept as long.
Expire(s) ==
    /\ sess[s].st \in {"live", "gone"}
    /\ sess' = [sess EXCEPT ![s].st = "over"]
    /\ UNCHANGED <<ticket, code, grant, index, owned, req, outages>>

-----------------------------------------------------------------------------
Arrive(r) ==
    \/ /\ r \in Choices
       /\ \E s \in Sessions, good \in BOOLEAN : ChoicePosted(r, s, good)
    \/ /\ r \in Connects
       /\ \E s \in Sessions, good \in BOOLEAN : CodePresented(r, s, good)
    \/ /\ r \in Refreshes \cup Revokes
       /\ \E k \in Keys, good \in BOOLEAN : TokenPresented(r, k, good)
    \/ /\ r \in SignOuts
       /\ \E s \in Sessions, administrator \in BOOLEAN : SignOutAsked(r, s, administrator)
    \/ /\ r \in Uses
       /\ \E k \in Keys : TokenUsed(r, k)
    \/ Snapshot(r)

\* One store call, or question to the register, of the request r.
Step(r) ==
    \/ ConsumeTicket(r) \/ ChooseLoad(r) \/ ChooseSave(r) \/ ChooseCode(r)
    \/ ConsumeAppCode(r) \/ ConnectLoad(r) \/ AskRegister(r) \/ SaveNext(r)
    \/ Bind(r) \/ AddConnection(r)
    \/ LoadRefresh(r) \/ LoadGranted(r) \/ DropGrant(r) \/ TakeRefresh(r) \/ MarkUsed(r)
    \/ EndSession(r) \/ EndGrant(r) \/ Unindex(r)
    \/ RevokeGrant(r) \/ RevokeLoad(r)
    \/ FindConnection(r) \/ FindSession(r) \/ DropIndex(r) \/ Touch(r)

Next ==
    \/ \E s \in Sessions : AskAssistant(s) \/ Expire(s)
    \/ \E r \in Reqs : Arrive(r) \/ Step(r)
    \/ RemoveAssistant

Spec == Init /\ [][Next]_vars

\* A request once begun runs on to its answer.
Fairness == \A r \in Reqs : WF_vars(Step(r))

FairSpec == Spec /\ Fairness

-----------------------------------------------------------------------------
(* The turn to draw a connection's next token, wherever it lies.            *)

Renewable(s) == {k \in Keys : grant[k].s = s /\ LiveGrant(k) /\ ~grant[k].rotated}

\* The requests that took the code or the token and have yet to draw the next.
InHand(s) ==
    {r \in Keys : /\ req[r].s = s
                  /\ \/ req[r].pc = "saveNext"
                     \/ r \in Connects /\ req[r].pc \in {"load", "register"}}

TurnOf(s) ==
    IF code[s] = "saved" THEN [at |-> "code", by |-> None]
    ELSE IF Renewable(s) # {} THEN [at |-> "token", by |-> CHOOSE k \in Renewable(s) : TRUE]
    ELSE IF InHand(s) # {} THEN [at |-> "hand", by |-> CHOOSE r \in InHand(s) : TRUE]
    ELSE [at |-> IF code[s] = "none" THEN "none" ELSE "lost", by |-> None]

Chain == INSTANCE TokenChain WITH
    status <- [s \in Sessions |-> IF sess[s].st \in {"gone", "over"} THEN "ended"
                                  ELSE sess[s].st],
    turn   <- [s \in Sessions |-> TurnOf(s)],
    drawn  <- {k \in Keys : grant[k].st # "none"}

-----------------------------------------------------------------------------
(* What is checked.                                                         *)

\* "A token raced by its thief never forks the connection into two live chains"
\* (appRefresh): whatever refreshes race, and whatever calls fail, one token at
\* most of a connection can still be renewed.
NoFork ==
    \A s \in Sessions :
        Cardinality({k \in Keys : grant[k].s = s /\ grant[k].st = "live"
                                    /\ ~grant[k].rotated}) <= 1

\* The store calls of every request, raced and failing as they may, implement
\* TokenChain: the right to draw a connection's next token lies in one place, is
\* passed on whole from code to request to token, and is never found again once
\* lost (ConsumeAppCode, TakeRefresh, SaveRefresh and the mark appRefresh leaves).
OneTurn == Chain!Spec

\* A session that ended never comes back: a refresh, a choice or a use that read
\* it before writes over it only while it is there (ReplaceSession, SET XX).
StaysEnded ==
    [][\A s \in Sessions : sess[s].st \in {"gone", "over"} => ~Live(s)']_vars

\* A live connection whose app holds its tokens is in its assistant's index, so
\* that a list shows it and a sign-out finds it, whatever failed on the way
\* (appCodeExchange lists it before it answers; endConnection unlists it last).
ConnectedIsListed ==
    \A k \in Connects : req[k].pc = "issued" /\ Live(req[k].s) => req[k].s \in index

\* "Rather than said ended while it goes on" (endConnection): a connection whose
\* sign-out was answered done, alone or in the sweep that found it listed, and
\* one whose reused token was answered, is ended, whatever calls failed and
\* whatever refresh or use was writing it; so is one its app revoked, when no
\* call failed.
SaidEndedIsEnded ==
    /\ \A r \in SignOuts : req[r].pc = "ended" => ~Live(req[r].s)
    /\ \A r \in Refreshes : req[r].pc = "reused" => ~Live(req[r].s)
    /\ \A r \in EndAlls : req[r].pc = "ended" => \A s \in req[r].seen : ~Live(s)
    /\ \A r \in Revokes :
           outages = 0 /\ req[r].pc = "ended" /\ req[r].s # None => ~Live(req[r].s)

\* No request is on its way.
AtRest == \A r \in Reqs : req[r].pc \in Final \cup {"idle"}

\* Without an outage no race of refreshes strands a live connection: when no
\* request is on its way its app holds a token that can be renewed.
CanStillRefresh ==
    AtRest /\ outages = 0 =>
        \A k \in Connects :
            req[k].pc = "issued" /\ Live(req[k].s) =>
                \E n \in Keys : /\ req[n].pc = "issued"
                                /\ grant[n].s = req[k].s
                                /\ LiveGrant(n) /\ ~grant[n].rotated

\* The app's revocation with a token the store held, once answered as done, has
\* ended the connection (revokeApp; README: "503 when the store cannot be read").
RevokedAppIsEnded ==
    \A r \in Revokes : req[r].pc = "ended" /\ req[r].s # None => ~Live(req[r].s)

\* "The app tries again, and the connection is ended then, rather than said
\* ended while it goes on" (endConnection): after a reuse that could not be
\* ended, the same token presented again is not simply refused with the
\* connection live.
RetryEnds ==
    [][\A f, g \in Refreshes :
          /\ req[g].pc = "unavailable" /\ req[g].ret = "reused"
          /\ req[f].k = req[g].k /\ req[f].good
          /\ req[f].pc = "grant" /\ req'[f].pc = "refused"
          => ~Live(req[g].s)]_vars

\* "RefreshKey is the key the session's refresh token is kept under" (Session):
\* with no request on its way, and no call failed, a live connection names the
\* grant that can be renewed.
RefreshKeyNamesToken ==
    AtRest =>
        \A k \in Keys :
            (/\ req[k].pc = "issued" /\ grant[k].st = "live" /\ ~grant[k].rotated
             /\ Live(grant[k].s))
            => sess[grant[k].s].key = k

\* "One used again ends that connection" (README): a used token presented by its
\* app ends the connection in every schedule, unless a call to the store fails.
ReuseEnds ==
    \A f \in Refreshes :
        (/\ req[f].pc = "grant" /\ req[f].good
         /\ LiveGrant(req[f].k) /\ grant[req[f].k].rotated)
        ~> (\/ outages > 0
            \/ req[f].k # None /\ ~Live(grant[req[f].k].s))

=============================================================================
