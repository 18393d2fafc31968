---------------------------- MODULE SharedSession ----------------------------
(***************************************************************************)
(* The browsers' shared sessions (routes/shared.go), the app sessions      *)
(* signed in under them and everything that ends either: a completed       *)
(* sign-in (saveSignedIn), an answer from the shared session               *)
(* (answerFromShared), the code exchange, a refresh, POST /revoke and      *)
(* GET /logout.  Each request is a process whose steps are its calls to    *)
(* the session store: a call is one atomic step at the cache, and between  *)
(* two calls of a request any other request may take its own, as the       *)
(* instances of the service share nothing but the cache.                   *)
(*                                                                         *)
(* A request draws at most one random value of each sort, so the request   *)
(* stands for the values it draws: the shared session, the cookie secret   *)
(* and the app session that request r makes are all named r, and so is the *)
(* refresh token of the code exchange r.                                   *)
(***************************************************************************)
EXTENDS Integers

CONSTANTS
    Browsers,      \* the browsers, each with one shared-session cookie
    Clients,       \* the client applications
    SingleSignOn,  \* the clients registered with single_sign_on
    Offered,       \* Offered[c]: the methods offered for client c
    People,        \* who signs in
    Methods,       \* the ways of signing in
    SignIns,       \* the requests of a behaviour, by handler: callbacks,
    Answers,       \* requests answered from the shared session,
    Exchanges,     \* code exchanges,
    Refreshes,     \* refreshes,
    Revokes,       \* revocations,
    Logouts,       \* front-channel logouts
    None,          \* no value
    SessionTTL,    \* SESSION_TTL, in ticks of the clock
    MaxTime,       \* the bound on the clock
    MaxOutages     \* the bound on the store calls that fail

Sids == SignIns \cup Answers
Reqs == Sids \cup Exchanges \cup Refreshes \cup Revokes \cup Logouts

ASSUME RequestsAssumption ==
    /\ SignIns \cap Answers = {}
    /\ Exchanges \cap Sids = {}
    /\ Refreshes \cap (Sids \cup Exchanges) = {}
    /\ Revokes \cap (Sids \cup Exchanges \cup Refreshes) = {}
    /\ Logouts \cap (Sids \cup Exchanges \cup Refreshes \cup Revokes) = {}
    /\ None \notin Reqs \cup Browsers \cup Clients \cup People \cup Methods

ASSUME ConfigAssumption ==
    /\ SingleSignOn \subseteq Clients
    /\ Offered \in [Clients -> SUBSET Methods]
    /\ SessionTTL \in Nat \ {0}
    /\ MaxTime \in Nat
    /\ MaxOutages \in Nat

VARIABLES
    now,       \* the clock
    shared,    \* the shared sessions, by id
    list,      \* shared-apps: per shared session, the session of each client
    listEnds,  \* when the cache drops that list
    sess,      \* the app sessions
    code,      \* the application code of each app session
    grant,     \* the refresh grants, by the exchange that drew the token
    cookie,    \* what each browser holds
    req,       \* where each request is and what it has read
    outages    \* how many store calls have failed

vars == <<now, shared, list, listEnds, sess, code, grant, cookie, req, outages>>

-----------------------------------------------------------------------------
(* What the store and the requests hold.  An entry that was removed keeps   *)
(* its last content under st = "gone", which no operation reads.            *)

Status == {"none", "live", "gone"}

Shared == [st : Status, sec : SignIns \cup {None}, p : People \cup {None},
           ways : [Methods -> Nat], ends : Nat]

Session == [st : Status, p : People \cup {None}, id : SignIns \cup {None},
            ends : Nat, key : Exchanges \cup {None}]

Grant == [st : Status, sid : Sids \cup {None}]

Cookie == [id : SignIns \cup {None}, sec : SignIns \cup {None}]

NoCookie == [id |-> None, sec |-> None]

\* The pcs at which a request has its answer.
Final == {"page", "coded", "error", "issued", "refused", "unavailable", "ended"}

Labels == Final \cup
    {"idle", "join", "load", "replace", "create", "session", "record",
     "recheck", "code", "endRecord", "takeApps", "endLoad", "endGrant",
     "endDel", "consume", "codeSess", "saveGrant", "bind", "grant",
     "grantSess", "renewSess", "delSess", "delGrant"}

Request == [pc : Labels, b : Browsers \cup {None}, c : Clients \cup {None},
            p : People \cup {None}, m : Methods \cup {None},
            good : BOOLEAN, ck : Cookie, set : {"keep", "clear", "give"},
            at : Nat, id : SignIns \cup {None}, ways : [Methods -> Nat],
            until : Nat, ends : Nat, sid : Sids \cup {None},
            key : Exchanges \cup {None}, todo : SUBSET Sids,
            cur : Sids \cup {None}, ret : Labels]

Blank == [pc |-> "idle", b |-> None, c |-> None, p |-> None, m |-> None,
          good |-> TRUE, ck |-> NoCookie, set |-> "keep", at |-> 0,
          id |-> None, ways |-> [m \in Methods |-> 0], until |-> 0,
          ends |-> 0, sid |-> None, key |-> None, todo |-> {},
          cur |-> None, ret |-> "idle"]

TypeOK ==
    /\ now \in Nat
    /\ shared \in [SignIns -> Shared]
    /\ list \in [SignIns -> [Clients -> Sids \cup {None}]]
    /\ listEnds \in [SignIns -> Nat]
    /\ sess \in [Sids -> Session]
    /\ code \in [Sids -> {"none", "saved", "spent"}]
    /\ grant \in [Exchanges -> Grant]
    /\ cookie \in [Browsers -> Cookie]
    /\ req \in [Reqs -> Request]
    /\ outages \in Nat

Init ==
    /\ now = 0
    /\ shared = [i \in SignIns |-> [st |-> "none", sec |-> None, p |-> None,
                                    ways |-> [m \in Methods |-> 0], ends |-> 0]]
    /\ list = [i \in SignIns |-> [c \in Clients |-> None]]
    /\ listEnds = [i \in SignIns |-> 0]
    /\ sess = [s \in Sids |-> [st |-> "none", p |-> None, id |-> None,
                               ends |-> 0, key |-> None]]
    /\ code = [s \in Sids |-> "none"]
    /\ grant = [k \in Exchanges |-> [st |-> "none", sid |-> None]]
    /\ cookie = [b \in Browsers |-> NoCookie]
    /\ req = [r \in Reqs |-> Blank]
    /\ outages = 0

-----------------------------------------------------------------------------
(* What the store answers.                                                  *)

\* LoadShared: a shared session the cache holds and whose end has not come.
LiveShared(id) == shared[id].st = "live" /\ now < shared[id].ends

\* LoadSession.
LiveSession(s) == sess[s].st = "live" /\ now < sess[s].ends

\* LoadRefresh: a grant is kept until its session's end.
LiveGrant(k) == grant[k].st = "live" /\ now < sess[grant[k].sid].ends

\* SharedApps: the list, while the cache keeps it.
Apps(id) == IF now < listEnds[id] THEN list[id] ELSE [c \in Clients |-> None]

\* browserShared: the cookie names a live shared session and its secret.
Holds(ck) == ck.id # None /\ LiveShared(ck.id) /\ shared[ck.id].sec = ck.sec

\* clearCookie on a cookie that names none; a request without one sets none.
ClearIfHeld(ck) == IF ck = NoCookie THEN "keep" ELSE "clear"

\* A store call that fails: it has no effect and the caller gets an error.
Fails == outages < MaxOutages /\ outages' = outages + 1

\* The request goes on to end the app sessions S, then continues at ret.
Ending(q, S, ret) ==
    [q EXCEPT !.todo = S, !.ret = ret, !.pc = IF S = {} THEN ret ELSE "endLoad"]

\* Shared.Keep: the way replaces the one of its method and the end moves to
\* the last way's.
KeptEnd(ends, end) == IF end > ends THEN end ELSE ends

\* Mutant: whoever signs in joins the browser's shared session.
SamePerson_Any(sh, q) == TRUE

\* joinShared: the browser's shared session is of the person who signed in.
SamePerson(sh, q) == sh.p = q.p

\* Mutant: a store that cannot answer is a refusal.
Unavailable_Refused(r) == Fails /\ req' = [req EXCEPT ![r].pc = "refused"]

\* storeRefusal: a store that cannot answer is answered 503.
Unavailable(r) == Fails /\ req' = [req EXCEPT ![r].pc = "unavailable"]

storeVars == <<shared, list, listEnds, sess, code, grant>>

-----------------------------------------------------------------------------
(* Requests arrive.                                                         *)

\* callback, up to saveSignedIn: person p proved method m in browser b at
\* client c.  joinShared reads the clock before it reads the store.
SignInReturns(r, b, c, p, m) ==
    /\ req[r].pc = "idle"
    /\ m \in Offered[c]
    /\ req' = [req EXCEPT ![r] = [@ EXCEPT !.pc = "join", !.b = b, !.c = c, !.p = p,
                                  !.m = m, !.ck = cookie[b], !.at = now]]
    /\ UNCHANGED <<now, storeVars, cookie, outages>>

\* authorize: a browser with a shared-session cookie at a single sign-on client.
AuthorizeArrives(r, b, c) ==
    /\ req[r].pc = "idle"
    /\ cookie[b] # NoCookie
    /\ req' = [req EXCEPT ![r] = [@ EXCEPT !.pc = "load", !.b = b, !.c = c,
                                  !.ck = cookie[b]]]
    /\ UNCHANGED <<now, storeVars, cookie, outages>>

\* grantAuthorizationCode: the code of session s, presented with the client,
\* redirect address and verifier it was issued for (good) or with others.
CodePresented(r, s, good) ==
    /\ req[r].pc = "idle"
    /\ code[s] # "none"
    /\ req' = [req EXCEPT ![r] = [@ EXCEPT !.pc = "consume", !.sid = s, !.good = good]]
    /\ UNCHANGED <<now, storeVars, cookie, outages>>

\* grantRefreshToken and revoke: the refresh token the exchange k answered,
\* presented by its client with the session's key (good) or not.
TokenPresented(r, k, good) ==
    /\ req[r].pc = "idle"
    /\ req[k].pc = "issued"
    /\ req' = [req EXCEPT ![r] = [@ EXCEPT !.pc = "grant", !.key = k, !.good = good]]
    /\ UNCHANGED <<now, storeVars, cookie, outages>>

\* logout, in browser b.
LogoutArrives(r, b) ==
    /\ req[r].pc = "idle"
    /\ cookie[b] # NoCookie
    /\ req' = [req EXCEPT ![r] = [@ EXCEPT !.pc = "load", !.b = b, !.ck = cookie[b]]]
    /\ UNCHANGED <<now, storeVars, cookie, outages>>

-----------------------------------------------------------------------------
(* joinShared: a completed sign-in becomes the browser's shared session.    *)

\* browserShared within joinShared.  The same person's session is written back
\* with the way kept; another person's is ended first; otherwise, and when the
\* store cannot answer, a new one is made.
JoinLoad(r) ==
    LET q == req[r]
        sh == shared[q.ck.id]
        end == q.at + SessionTTL
    IN
    /\ q.pc = "join"
    /\ \/ /\ Holds(q.ck)
          /\ SamePerson(sh, q)
          /\ req' = [req EXCEPT ![r] =
                 [@ EXCEPT !.pc = "replace", !.id = q.ck.id,
                           !.ways = [sh.ways EXCEPT ![q.m] = end],
                           !.until = KeptEnd(sh.ends, end)]]
          /\ UNCHANGED outages
       \/ /\ Holds(q.ck)
          /\ ~SamePerson(sh, q)
          /\ req' = [req EXCEPT ![r] = [@ EXCEPT !.pc = "endRecord", !.id = q.ck.id,
                                                 !.ret = "create"]]
          /\ UNCHANGED outages
       \/ /\ ~Holds(q.ck)
          /\ req' = [req EXCEPT ![r] = [@ EXCEPT !.pc = "create",
                                                 !.set = ClearIfHeld(q.ck)]]
          /\ UNCHANGED outages
       \/ /\ q.ck # NoCookie
          /\ Fails
          /\ req' = [req EXCEPT ![r].pc = "create"]
    /\ UNCHANGED <<now, storeVars, cookie>>

\* ReplaceShared: writes the whole record as it was read, with the new way and
\* secret, over one that still exists; one ended meanwhile stays ended and a
\* new one is made.
JoinReplace(r) ==
    LET q == req[r] IN
    /\ q.pc = "replace"
    /\ \/ /\ LiveShared(q.id) /\ now < q.until
          /\ shared' = [shared EXCEPT ![q.id] = [@ EXCEPT !.sec = r, !.ways = q.ways,
                                                         !.ends = q.until]]
          /\ req' = [req EXCEPT ![r] = [@ EXCEPT !.pc = "session", !.set = "give"]]
          /\ UNCHANGED outages
       \/ /\ ~(LiveShared(q.id) /\ now < q.until)
          /\ req' = [req EXCEPT ![r].pc = "create"]
          /\ UNCHANGED <<shared, outages>>
       \/ /\ Fails
          /\ req' = [req EXCEPT ![r].pc = "error"]
          /\ UNCHANGED shared
    /\ UNCHANGED <<now, list, listEnds, sess, code, grant, cookie>>

\* CreateShared: a new record under a new id, refused when its end has come.
JoinCreate(r) ==
    LET q == req[r]
        end == q.at + SessionTTL
    IN
    /\ q.pc = "create"
    /\ \/ /\ now < end
          /\ shared' = [shared EXCEPT ![r] =
                 [st |-> "live", sec |-> r, p |-> q.p,
                  ways |-> [m \in Methods |-> IF m = q.m THEN end ELSE 0],
                  ends |-> end]]
          /\ req' = [req EXCEPT ![r] = [@ EXCEPT !.pc = "session", !.id = r,
                                                 !.until = end, !.set = "give"]]
          /\ UNCHANGED outages
       \/ /\ \/ now >= end /\ UNCHANGED outages
             \/ Fails
          /\ req' = [req EXCEPT ![r].pc = "error"]
          /\ UNCHANGED shared
    /\ UNCHANGED <<now, list, listEnds, sess, code, grant, cookie>>

-----------------------------------------------------------------------------
(* answerFromShared.                                                        *)

\* The ways of the shared session that may answer a client: offered for it and
\* not ended.  The code takes the last one kept that the request also names and
\* finds young enough; over every request (acr_values, max_age) that is any.
Fitting(id, c) == {m \in Offered[c] : now < shared[id].ways[m]}

\* Mutant: the answer is counted to the end of the shared session, not of the way.
AnswerLoad_SharedEnd(r) ==
    LET q == req[r]
        sh == shared[q.ck.id]
    IN
    /\ r \in Answers
    /\ q.pc = "load"
    /\ Holds(q.ck)
    /\ \E m \in Fitting(q.ck.id, q.c) :
           req' = [req EXCEPT ![r] =
               [@ EXCEPT !.pc = "session", !.id = q.ck.id, !.p = sh.p, !.m = m,
                         !.at = now, !.ends = sh.ends, !.until = sh.ends]]
    /\ UNCHANGED <<now, storeVars, cookie, outages>>

\* browserShared and sharedWay.  What the request asked for (prompt, max_age,
\* acr_values), an identity code the client needs and the register's answer may
\* each send a request on to the page.
AnswerLoad(r) ==
    LET q == req[r]
        sh == shared[q.ck.id]
    IN
    /\ r \in Answers
    /\ q.pc = "load"
    /\ \/ /\ Holds(q.ck)
          /\ \E m \in Fitting(q.ck.id, q.c) :
                 req' = [req EXCEPT ![r] =
                     [@ EXCEPT !.pc = "session", !.id = q.ck.id, !.p = sh.p, !.m = m,
                               !.at = now, !.ends = sh.ways[m], !.until = sh.ends]]
          /\ UNCHANGED outages
       \/ /\ Holds(q.ck)
          /\ req' = [req EXCEPT ![r].pc = "page"]
          /\ UNCHANGED outages
       \/ /\ ~Holds(q.ck)
          /\ req' = [req EXCEPT ![r] = [@ EXCEPT !.pc = "page", !.set = "clear"]]
          /\ UNCHANGED outages
       \/ /\ Fails
          /\ req' = [req EXCEPT ![r].pc = "page"]
    /\ UNCHANGED <<now, storeVars, cookie>>

\* CreateSession: a sign-in's session lives SESSION_TTL from now; an answered
\* one for what was left of its way when the clock was read.
Lifetime(r) == IF r \in Answers THEN req[r].ends - req[r].at ELSE SessionTTL

CreateSession(r) ==
    LET q == req[r] IN
    /\ q.pc = "session"
    /\ \/ /\ sess' = [sess EXCEPT ![r] = [st |-> "live", p |-> q.p, id |-> q.id,
                                          ends |-> now + Lifetime(r), key |-> None]]
          /\ req' = [req EXCEPT ![r].pc = "record"]
          /\ UNCHANGED outages
       \/ /\ Fails
          /\ req' = [req EXCEPT ![r].pc = "error"]
          /\ UNCHANGED sess
    /\ UNCHANGED <<now, shared, list, listEnds, code, grant, cookie>>

\* Mutant: the earlier session is left to run out.
Earlier_Left(r) == {}

\* The client's earlier session under the shared one, which PutSharedApp answers.
Earlier(r) == {Apps(req[r].id)[req[r].c]} \ {None, r}

\* Mutant: an answer that was not recorded goes on like one that was.
Unrecorded_GoesOn(r) ==
    [req[r] EXCEPT !.pc = IF r \in Answers THEN "recheck" ELSE "code"]

\* An answer that was not recorded is ended; a sign-in goes on.
Unrecorded(r) ==
    IF r \in Answers THEN Ending(req[r], {r}, "page") ELSE [req[r] EXCEPT !.pc = "code"]

\* Mutant: the script is given the client where it takes the session, both strings.
AddSharedApp_Client(r) ==
    LET q == req[r] IN
    /\ q.pc = "record"
    /\ list' = [list EXCEPT ![q.id] = [Apps(q.id) EXCEPT ![q.c] = q.c]]
    /\ listEnds' = [listEnds EXCEPT ![q.id] = q.until]
    /\ req' = [req EXCEPT ![r].pc = "code"]
    /\ UNCHANGED <<now, shared, sess, code, grant, cookie, outages>>

\* addSharedApp: PutSharedApp records the session under the shared one, until
\* the end of it that was read, and the client's earlier session there is ended.
AddSharedApp(r) ==
    LET q == req[r]
        next == IF r \in Answers THEN "recheck" ELSE "code"
    IN
    /\ q.pc = "record"
    /\ \/ /\ now < q.until
          /\ list' = [list EXCEPT ![q.id] = [Apps(q.id) EXCEPT ![q.c] = r]]
          /\ listEnds' = [listEnds EXCEPT ![q.id] = q.until]
          /\ req' = [req EXCEPT ![r] = Ending(q, Earlier(r), next)]
          /\ UNCHANGED outages
       \/ /\ \/ now >= q.until /\ UNCHANGED outages
             \/ Fails
          /\ req' = [req EXCEPT ![r] = Unrecorded(r)]
          /\ UNCHANGED <<list, listEnds>>
    /\ UNCHANGED <<now, shared, sess, code, grant, cookie>>

\* Mutant: the shared session is not read again.
SharedLive_Unread(r) ==
    /\ req[r].pc = "recheck"
    /\ req' = [req EXCEPT ![r].pc = "code"]
    /\ UNCHANGED <<now, storeVars, cookie, outages>>

\* sharedLive: the answer stands only while the shared session is still there.
SharedLive(r) ==
    LET q == req[r] IN
    /\ q.pc = "recheck"
    /\ \/ /\ LiveShared(q.id)
          /\ req' = [req EXCEPT ![r].pc = "code"]
          /\ UNCHANGED outages
       \/ /\ \/ ~LiveShared(q.id) /\ UNCHANGED outages
             \/ Fails
          /\ req' = [req EXCEPT ![r] = Ending(q, {r}, "page")]
    /\ UNCHANGED <<now, storeVars, cookie>>

\* SaveAppCode, and the redirect with the code.
SaveAppCode(r) ==
    /\ req[r].pc = "code"
    /\ \/ /\ code' = [code EXCEPT ![r] = "saved"]
          /\ req' = [req EXCEPT ![r].pc = "coded"]
          /\ UNCHANGED outages
       \/ /\ Fails
          /\ req' = [req EXCEPT ![r].pc = "error"]
          /\ UNCHANGED code
    /\ UNCHANGED <<now, shared, list, listEnds, sess, grant, cookie>>

-----------------------------------------------------------------------------
(* endShared and endAppSession, within whichever request ends sessions.     *)

\* EndShared, first step: the record goes.  Of two ends only one removes it;
\* the other, and one that fails, ends nothing more.
EndRecord(r) ==
    LET q == req[r] IN
    /\ q.pc = "endRecord"
    /\ \/ /\ LiveShared(q.id)
          /\ shared' = [shared EXCEPT ![q.id].st = "gone"]
          /\ req' = [req EXCEPT ![r].pc = "takeApps"]
          /\ UNCHANGED outages
       \/ /\ \/ ~LiveShared(q.id) /\ UNCHANGED outages
             \/ Fails
          /\ req' = [req EXCEPT ![r].pc = q.ret]
          /\ UNCHANGED shared
    /\ UNCHANGED <<now, list, listEnds, sess, code, grant, cookie>>

\* EndShared, second step: the list is taken and removed in one step.
TakeApps(r) ==
    LET q == req[r]
        taken == {Apps(q.id)[c] : c \in Clients} \ {None}
    IN
    /\ q.pc = "takeApps"
    /\ \/ /\ list' = [list EXCEPT ![q.id] = [c \in Clients |-> None]]
          /\ req' = [req EXCEPT ![r] = Ending(q, taken, q.ret)]
          /\ UNCHANGED outages
       \/ /\ Fails
          /\ req' = [req EXCEPT ![r].pc = q.ret]
          /\ UNCHANGED list
    /\ UNCHANGED <<now, shared, listEnds, sess, code, grant, cookie>>

\* Mutant: a session that names no refresh grant is passed over.
EndLoad_NeedsKey(r) ==
    LET q == req[r] IN
    /\ q.pc = "endLoad"
    /\ \E s \in q.todo :
         req' = [req EXCEPT ![r] =
             IF LiveSession(s) /\ sess[s].key # None
             THEN [@ EXCEPT !.pc = "endGrant", !.cur = s, !.key = sess[s].key]
             ELSE Ending(@, q.todo \ {s}, q.ret)]
    /\ UNCHANGED <<now, storeVars, cookie, outages>>

\* endAppSession: the session is read for its refresh key,
EndLoad(r) ==
    LET q == req[r] IN
    /\ q.pc = "endLoad"
    /\ \E s \in q.todo :
         \/ /\ LiveSession(s) /\ sess[s].key # None
            /\ req' = [req EXCEPT ![r] = [@ EXCEPT !.pc = "endGrant", !.cur = s,
                                                   !.key = sess[s].key]]
            /\ UNCHANGED outages
         \/ /\ \/ ~(LiveSession(s) /\ sess[s].key # None) /\ UNCHANGED outages
               \/ Fails
            /\ req' = [req EXCEPT ![r] = [@ EXCEPT !.pc = "endDel", !.cur = s]]
    /\ UNCHANGED <<now, storeVars, cookie>>

\* its refresh grant goes,
EndGrant(r) ==
    LET q == req[r] IN
    /\ q.pc = "endGrant"
    /\ req' = [req EXCEPT ![r].pc = "endDel"]
    /\ \/ /\ grant' = [grant EXCEPT ![q.key].st = "gone"]
          /\ UNCHANGED outages
       \/ Fails /\ UNCHANGED grant
    /\ UNCHANGED <<now, shared, list, listEnds, sess, code, cookie>>

\* and then the session; a failure is logged and the next one is ended.
EndDel(r) ==
    LET q == req[r] IN
    /\ q.pc = "endDel"
    /\ req' = [req EXCEPT ![r] = Ending(q, q.todo \ {q.cur}, q.ret)]
    /\ \/ /\ sess' = [sess EXCEPT ![q.cur].st = "gone"]
          /\ UNCHANGED outages
       \/ Fails /\ UNCHANGED sess
    /\ UNCHANGED <<now, shared, list, listEnds, code, grant, cookie>>

-----------------------------------------------------------------------------
(* grantAuthorizationCode.                                                  *)

\* Mutant: the code is read and left in the store.
ConsumeAppCode_Read(r) ==
    /\ req[r].pc = "consume"
    /\ code[req[r].sid] = "saved"
    /\ req' = [req EXCEPT ![r].pc = IF req[r].good THEN "codeSess" ELSE "refused"]
    /\ UNCHANGED <<now, storeVars, cookie, outages>>

\* ConsumeAppCode (GETDEL), then the echo-check and PKCE: a code presented
\* wrongly is used up all the same, and one whose 60 seconds have passed is gone.
ConsumeAppCode(r) ==
    LET q == req[r] IN
    /\ q.pc = "consume"
    /\ \/ /\ code[q.sid] = "saved"
          /\ code' = [code EXCEPT ![q.sid] = "spent"]
          /\ \E fresh \in BOOLEAN :
                 req' = [req EXCEPT ![r].pc = IF q.good /\ fresh THEN "codeSess"
                                              ELSE "refused"]
          /\ UNCHANGED outages
       \/ /\ \/ code[q.sid] # "saved" /\ UNCHANGED outages
             \/ Fails
          /\ req' = [req EXCEPT ![r].pc = "refused"]
          /\ UNCHANGED code
    /\ UNCHANGED <<now, shared, list, listEnds, sess, grant, cookie>>

\* LoadSession and userScopes, which may refuse the person (no membership, the
\* register unreachable) with the code already spent.
ExchangeLoad(r) ==
    /\ req[r].pc = "codeSess"
    /\ \/ /\ LiveSession(req[r].sid)
          /\ \E next \in {"saveGrant", "error"} :
                 req' = [req EXCEPT ![r].pc = next]
          /\ UNCHANGED outages
       \/ /\ \/ ~LiveSession(req[r].sid) /\ UNCHANGED outages
             \/ Fails
          /\ req' = [req EXCEPT ![r].pc = "refused"]
    /\ UNCHANGED <<now, storeVars, cookie>>

\* Mutant: the grant is not stored.
SaveRefresh_Unsaved(r) ==
    /\ req[r].pc = "saveGrant"
    /\ req' = [req EXCEPT ![r].pc = "bind"]
    /\ UNCHANGED <<now, storeVars, cookie, outages>>

\* SaveRefresh: the grant of a new refresh token, until the session's end.
SaveRefresh(r) ==
    LET q == req[r] IN
    /\ q.pc = "saveGrant"
    /\ \/ /\ now < sess[q.sid].ends
          /\ grant' = [grant EXCEPT ![r] = [st |-> "live", sid |-> q.sid]]
          /\ req' = [req EXCEPT ![r].pc = "bind"]
          /\ UNCHANGED outages
       \/ /\ now >= sess[q.sid].ends
          /\ req' = [req EXCEPT ![r].pc = "refused"]
          /\ UNCHANGED <<grant, outages>>
       \/ Unavailable(r) /\ UNCHANGED grant
    /\ UNCHANGED <<now, shared, list, listEnds, sess, code, cookie>>

\* Mutant: a plain SET, which brings an ended session back.
ReplaceSession_Set(r) ==
    LET q == req[r] IN
    /\ q.pc = "bind"
    /\ sess' = [sess EXCEPT ![q.sid] = [@ EXCEPT !.key = r, !.st = "live"]]
    /\ req' = [req EXCEPT ![r].pc = "issued"]
    /\ UNCHANGED <<now, shared, list, listEnds, code, grant, cookie, outages>>

\* ReplaceSession (SET XX): the session is bound to the key and names its
\* grant, only while it still exists; then the tokens are answered.
ReplaceSession(r) ==
    LET q == req[r] IN
    /\ q.pc = "bind"
    /\ \/ /\ LiveSession(q.sid)
          /\ sess' = [sess EXCEPT ![q.sid].key = r]
          /\ req' = [req EXCEPT ![r].pc = "issued"]
          /\ UNCHANGED outages
       \/ /\ ~LiveSession(q.sid)
          /\ req' = [req EXCEPT ![r].pc = "refused"]
          /\ UNCHANGED <<sess, outages>>
       \/ Unavailable(r) /\ UNCHANGED sess
    /\ UNCHANGED <<now, shared, list, listEnds, code, grant, cookie>>

-----------------------------------------------------------------------------
(* grantRefreshToken: refreshBoundSession, then a token; nothing is written. *)

RefreshGrant(r) ==
    LET q == req[r] IN
    /\ r \in Refreshes
    /\ q.pc = "grant"
    /\ \/ /\ LiveGrant(q.key) /\ q.good
          /\ req' = [req EXCEPT ![r] = [@ EXCEPT !.pc = "renewSess",
                                                 !.sid = grant[q.key].sid]]
          /\ UNCHANGED outages
       \/ /\ ~(LiveGrant(q.key) /\ q.good)
          /\ req' = [req EXCEPT ![r].pc = "refused"]
          /\ UNCHANGED outages
       \/ Unavailable(r)
    /\ UNCHANGED <<now, storeVars, cookie>>

\* The key the session was bound to is checked, and the register asked again.
RefreshIssue(r) ==
    LET s == req[r].sid IN
    /\ req[r].pc = "renewSess"
    /\ \/ /\ LiveSession(s) /\ sess[s].key # None
          /\ \E next \in {"issued", "error"} :
                 req' = [req EXCEPT ![r].pc = next]
          /\ UNCHANGED outages
       \/ /\ ~(LiveSession(s) /\ sess[s].key # None)
          /\ req' = [req EXCEPT ![r].pc = "refused"]
          /\ UNCHANGED outages
       \/ Unavailable(r)
    /\ UNCHANGED <<now, storeVars, cookie>>

-----------------------------------------------------------------------------
(* revoke.                                                                  *)

\* LoadRefresh: a token the store does not hold is answered as revoked, and one
\* of another client is refused.
RevokeGrant(r) ==
    LET q == req[r] IN
    /\ r \in Revokes
    /\ q.pc = "grant"
    /\ \/ /\ \E next \in IF ~LiveGrant(q.key) THEN {"ended"}
                           ELSE IF q.good THEN {"grantSess"} ELSE {"grantSess", "refused"} :
                 req' = [req EXCEPT ![r].pc = next]
          /\ UNCHANGED outages
       \/ Unavailable(r)
    /\ UNCHANGED <<now, storeVars, cookie>>

\* LoadSession: of a session that has ended already only the grant is removed; a
\* proof of another key is refused.
RevokeLoad(r) ==
    LET q == req[r]
        s == grant[q.key].sid
    IN
    /\ q.pc = "grantSess"
    /\ \/ /\ LiveSession(s) /\ q.good
          /\ req' = [req EXCEPT ![r] = [@ EXCEPT !.pc = "delSess", !.sid = s,
                                                 !.id = sess[s].id]]
          /\ UNCHANGED outages
       \/ /\ LiveSession(s) /\ ~q.good
          /\ req' = [req EXCEPT ![r].pc = "refused"]
          /\ UNCHANGED outages
       \/ /\ ~LiveSession(s)
          /\ req' = [req EXCEPT ![r].pc = "delGrant"]
          /\ UNCHANGED outages
       \/ Unavailable(r)
    /\ UNCHANGED <<now, storeVars, cookie>>

\* DeleteSession: the session first, since without it the grant renews nothing.
RevokeSession(r) ==
    LET q == req[r] IN
    /\ q.pc = "delSess"
    /\ \/ /\ sess' = [sess EXCEPT ![q.sid].st = "gone"]
          /\ req' = [req EXCEPT ![r].pc = "delGrant"]
          /\ UNCHANGED outages
       \/ Unavailable(r) /\ UNCHANGED sess
    /\ UNCHANGED <<now, shared, list, listEnds, code, grant, cookie>>

\* DeleteRefresh, and then endShared on the shared session of the session that
\* was read, if one was.
RevokeToken(r) ==
    LET q == req[r] IN
    /\ q.pc = "delGrant"
    /\ \/ /\ grant' = [grant EXCEPT ![q.key].st = "gone"]
          /\ req' = [req EXCEPT ![r] =
                 [@ EXCEPT !.pc = IF q.id = None THEN "ended" ELSE "endRecord",
                           !.ret = "ended"]]
          /\ UNCHANGED outages
       \/ Unavailable(r) /\ UNCHANGED grant
    /\ UNCHANGED <<now, shared, list, listEnds, sess, code, cookie>>

-----------------------------------------------------------------------------
(* logout: the shared session the cookie names ends, and the cookie goes.   *)

LogoutLoad(r) ==
    LET q == req[r] IN
    /\ r \in Logouts
    /\ q.pc = "load"
    /\ \/ /\ Holds(q.ck)
          /\ req' = [req EXCEPT ![r] = [@ EXCEPT !.pc = "endRecord", !.id = q.ck.id,
                                                 !.ret = "ended", !.set = "clear"]]
          /\ UNCHANGED outages
       \/ /\ ~Holds(q.ck)
          /\ req' = [req EXCEPT ![r] = [@ EXCEPT !.pc = "ended", !.set = "clear"]]
          /\ UNCHANGED outages
       \/ /\ Fails
          /\ req' = [req EXCEPT ![r].pc = "ended"]
    /\ UNCHANGED <<now, storeVars, cookie>>

-----------------------------------------------------------------------------
(* The browser, the cache and the clock.                                    *)

\* The answer reaches the browser, which applies its Set-Cookie, or is lost.
Deliver(r) ==
    LET q == req[r] IN
    /\ q.pc \in Final
    /\ q.set # "keep"
    /\ req' = [req EXCEPT ![r].set = "keep"]
    /\ \/ cookie' = [cookie EXCEPT ![q.b] =
              IF q.set = "clear" THEN NoCookie ELSE [id |-> q.id, sec |-> r]]
       \/ UNCHANGED cookie
    /\ UNCHANGED <<now, storeVars, outages>>

Tick ==
    /\ now < MaxTime
    /\ now' = now + 1
    /\ UNCHANGED <<storeVars, cookie, req, outages>>

-----------------------------------------------------------------------------
Arrive(r) ==
    \/ /\ r \in SignIns
       /\ \E b \in Browsers, c \in Clients, p \in People, m \in Methods :
              SignInReturns(r, b, c, p, m)
    \/ /\ r \in Answers
       /\ \E b \in Browsers, c \in SingleSignOn : AuthorizeArrives(r, b, c)
    \/ /\ r \in Exchanges
       /\ \E s \in Sids, good \in BOOLEAN : CodePresented(r, s, good)
    \/ /\ r \in Refreshes \cup Revokes
       /\ \E k \in Exchanges, good \in BOOLEAN : TokenPresented(r, k, good)
    \/ /\ r \in Logouts
       /\ \E b \in Browsers : LogoutArrives(r, b)

\* One store call of the request r.
Step(r) ==
    \/ JoinLoad(r) \/ JoinReplace(r) \/ JoinCreate(r)
    \/ AnswerLoad(r) \/ CreateSession(r) \/ AddSharedApp(r) \/ SharedLive(r)
    \/ SaveAppCode(r)
    \/ EndRecord(r) \/ TakeApps(r) \/ EndLoad(r) \/ EndGrant(r) \/ EndDel(r)
    \/ ConsumeAppCode(r) \/ ExchangeLoad(r) \/ SaveRefresh(r) \/ ReplaceSession(r)
    \/ RefreshGrant(r) \/ RefreshIssue(r)
    \/ RevokeGrant(r) \/ RevokeLoad(r) \/ RevokeSession(r) \/ RevokeToken(r)
    \/ LogoutLoad(r)

Next ==
    \/ \E r \in Reqs : Arrive(r) \/ Step(r) \/ Deliver(r)
    \/ Tick

Spec == Init /\ [][Next]_vars

\* A request once begun runs on to its answer; nobody need send another, and
\* neither the browser, the cache nor the clock owes anything.  Each has finitely many
\* calls to make, so it is enough that one under way goes on while there is one.
UnderWay(r) == req[r].pc \notin Final \cup {"idle"}

Fairness == WF_vars(\E r \in Reqs : UnderWay(r) /\ Step(r))

FairSpec == Spec /\ Fairness

-----------------------------------------------------------------------------
(* What is checked.                                                         *)

\* One person per browser (README, "Single sign-on"): every app session signed
\* in under a shared session is of the person the shared session is of, whoever
\* else signed in in that browser meanwhile (joinShared, answerFromShared).
SharedSubject ==
    \A s \in Sids : sess[s].st # "none" => sess[s].p = shared[sess[s].id].p

\* A session or shared session that was ended never comes back, whatever request
\* was saving it when it ended (ReplaceSession and ReplaceShared write only over
\* what exists, store.go).
StaysEnded ==
    [][/\ \A s \in Sids : sess[s].st = "gone" => sess'[s].st = "gone"
       /\ \A id \in SignIns : shared[id].st = "gone" => shared'[id].st = "gone"]_vars

\* Some request has set out to end session s.
BeingEnded(s) == \E r \in Reqs : s \in req[r].todo

\* A sign-out has removed the record id and is about to take its list.
BeingTaken(id) == \E r \in Reqs : req[r].pc = "takeApps" /\ req[r].id = id

\* A sign-out reaches session s: it is on the list of a shared session that
\* can still be ended, or on its way to being ended.
Reached(s) ==
    LET id == sess[s].id IN
    \/ BeingEnded(s)
    \/ Apps(id)[req[s].c] = s /\ (LiveShared(id) \/ BeingTaken(id))

\* The shared session id has not come to the end it was made with.  Sign-ins that
\* join it move its end on, but not that of the list and of the sessions under it.
NotRunOut(id) == now < req[id].at + SessionTTL

\* An app answered from a shared session is reached by every later sign-out: while
\* the store answers, no order of the answer's and the sign-out's steps leaves its
\* session behind (answerFromShared records it and then reads the shared session
\* again).  One made a little later than its shared session outlives it.
AnsweredReached ==
    outages = 0 =>
        \A s \in Answers :
            req[s].pc = "coded" /\ LiveSession(s) /\ NotRunOut(sess[s].id) => Reached(s)

\* The same, of a completed sign-in: "Signing out of one app signs out of every
\* app" (README), "an app recorded after the list was taken finds the record
\* gone when it reads it again" (EndShared, store.go).
SignedInReached ==
    \A s \in SignIns : req[s].pc = "coded" /\ LiveSession(s) => Reached(s)

\* "The same client signing in again in a browser ends its own earlier session
\* there" (README): of two recorded sessions of one client under one shared
\* session, one is ended or being ended (putSharedApp answers the earlier one), while
\* the store answers and the list that names them has not run out.
OneSessionPerClient ==
    outages = 0 =>
        \A s, t \in Sids :
            /\ s # t
            /\ sess[s].id = sess[t].id
            /\ req[s].c = req[t].c
            /\ req[s].pc = "coded" /\ LiveSession(s)
            /\ req[t].pc = "coded" /\ LiveSession(t)
            /\ NotRunOut(sess[s].id)
            => BeingEnded(s) \/ BeingEnded(t)

\* A live session whose refresh token was answered names that token's grant, so
\* ending the session also finds the grant to remove (endAppSession); with it,
\* no session is exchanged twice.
SessionNamesItsGrant ==
    \A k \in Exchanges :
        req[k].pc = "issued" /\ LiveSession(req[k].sid) => sess[req[k].sid].key = k

\* While the store answers, a refresh by the right client with the right key is
\* refused only when the session is ended or being ended: no interleaving with
\* the code exchange that made the token, and no expiry, refuses a live session
\* (refreshBoundSession).
RefusedOnlyWhenEnded ==
    outages = 0 => \A r \in Refreshes :
        req[r].pc = "refused" /\ req[r].good =>
            LET s == req[req[r].key].sid IN ~LiveSession(s) \/ BeingEnded(s)
                                            \/ \E v \in Revokes : req[v].sid = s

\* An outage is never answered as a refusal: a refused refresh of the right
\* caller means the grant or its session is gone (storeRefusal; README: "a
\* caller that ends its own session on a refusal keeps it through an outage").
OutageIsNoRefusal ==
    \A r \in Refreshes :
        req[r].pc = "refused" /\ req[r].good =>
            LET k == req[r].key IN ~LiveGrant(k) \/ ~LiveSession(grant[k].sid)

\* While a shared session lives, a client answered from it is on its list, even
\* when store calls fail on the way: an answer that could not be recorded is not
\* given (answerFromShared).  The list itself may run out first (ListKeptToTheEnd).
AnsweredListed ==
    \A s \in Answers :
        req[s].pc = "coded" /\ LiveShared(sess[s].id) /\ NotRunOut(sess[s].id) =>
            Apps(sess[s].id)[req[s].c] # None

\* An app is answered on proof: the person it is answered with proved that way
\* themselves, in that browser, and what is counted against the answer is the end of
\* that sign-in's own way, whatever sign-ins of whom else wrote the shared session
\* meanwhile ("a way ... its end, a whole session lifetime after the sign-in
\* completed.  Nothing renews it", shared.go; joinShared, Keep, answerFromShared).
AnsweredOnProof ==
    \A a \in Answers :
        req[a].pc = "coded" =>
            \E s \in SignIns :
                /\ req[s].b = req[a].b
                /\ req[s].p = req[a].p
                /\ req[s].m = req[a].m
                /\ req[a].ends = req[s].at + SessionTTL

\* No sign-in is forgotten: while a shared session lives, it holds the way of every
\* completed sign-in that joined it until that way ends.
KeepsEveryWay ==
    \A s \in SignIns :
        (req[s].pc = "coded" /\ LiveShared(req[s].id) /\ now < req[s].at + SessionTTL)
            => shared[req[s].id].ways[req[s].m] # 0

\* A session answered from a way "ends when that way ends, never later" (README).
AnsweredEndsWithItsWay ==
    \A s \in Answers : sess[s].st # "none" => sess[s].ends <= req[s].ends

\* No request is on its way.
AtRest == \A r \in Reqs : req[r].pc \in Final \cup {"idle"}

\* The list of app sessions is kept for "the shared session's end" (README, the
\* shared-apps row): with no request on its way it is there while the shared
\* session is (PutSharedApp).
ListKeptToTheEnd ==
    AtRest =>
        \A id \in SignIns :
            LiveShared(id) /\ (\E c \in Clients : list[id][c] # None)
                => now < listEnds[id]

\* "One sign-out signs the person out of every app: the browser's shared session
\* it came from ends" (revoke): once the revocation of a session's token was
\* answered as done and no request is on its way, that shared session is ended.
RevokedMeansEnded ==
    AtRest =>
        \A r \in Revokes, s \in Sids :
            req[r].pc = "ended" /\ req[r].key # None /\ sess[s].key = req[r].key
                => ~LiveShared(sess[s].id)

\* Every sign-out is carried through: once its shared session has been ended, the
\* session of an answered app ends (endShared ends every one it took).
SignOutReaches ==
    \A s \in Answers :
        (req[s].pc = "coded" /\ shared[sess[s].id].st = "gone") ~> ~LiveSession(s)

=============================================================================
