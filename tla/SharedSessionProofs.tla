------------------------- MODULE SharedSessionProofs -------------------------
(* Theorems about SharedSession, for any number of requests of each sort:   *)
(* what ended stays ended, a session is of the person of its shared         *)
(* session, a token is of its session, a refresh is refused only for a      *)
(* reason, a sign-out reaches who was answered and whoever is answered is   *)
(* answered on a sign-in of their own.  The first two rest on one more      *)
(* invariant, that a session is made once, by its own request, and that     *)
(* nobody names a session before it was made; the others on what a spent    *)
(* code, a list, a cookie and a request on its way still hold.              *)
EXTENDS SharedSessionShape

\* The session of the request is still to be made.
BeforeSession(q) ==
    \/ q.pc \in {"idle", "join", "load", "replace", "create", "session"}
    \/ q.pc \in Ends /\ q.ret = "create"

\* It was made.
AfterSession(q) ==
    \/ q.pc \in {"record", "recheck", "code", "coded"}
    \/ q.pc \in Ends /\ q.ret # "create"

\* Its shared session is still to be made, if it makes one.
BeforeShared(q) ==
    \/ q.pc \in {"idle", "join", "replace", "create"}
    \/ q.pc \in Ends /\ q.ret = "create"

\* With sessions S and shared sessions H: what request r has made, and that it names only
\* sessions somebody made.
Known(r, q, S, H) ==
    /\ r \in Sids => /\ BeforeSession(q) => S[r].st = "none"
                     /\ AfterSession(q) => S[r].st # "none"
    /\ r \in SignIns /\ BeforeShared(q) => H[r].st = "none"
    /\ \A s \in q.todo : S[s].st # "none"
    /\ q.pc \in {"endGrant", "endDel"} => q.cur \in Sids /\ S[q.cur].st # "none"
    /\ r \in Exchanges /\ q.pc # "idle" => S[q.sid].st # "none"
    /\ q.pc = "delSess" => q.sid \in Sids /\ S[q.sid].st # "none"

\* The store names only sessions somebody made.
StoreKnown ==
    /\ \A id \in SignIns, c \in Clients : list[id][c] # None => sess[list[id][c]].st # "none"
    /\ \A s \in Sids : code[s] # "none" => sess[s].st # "none"
    /\ \A k \in Exchanges : grant[k].st # "none" => sess[grant[k].sid].st # "none"

\* The inductive invariant of StaysEnded.
FreshInv ==
    /\ StoreKnown
    /\ \A r \in Reqs : Known(r, req[r], sess, shared)

\* A step of r makes at most the session and the shared session of r.
MakesOwn(r) ==
    /\ \A x \in Reqs \ {r} : req'[x] = req[x]
    /\ \A s \in Sids : sess[s].st # "none" => sess'[s].st # "none"
    /\ \A s \in Sids \ {r} : sess[s].st = "none" => sess'[s].st = "none"
    /\ \A i \in SignIns \ {r} : shared[i].st = "none" => shared'[i].st = "none"

\* Of a step of request r it is enough to look at what r knows.
LEMMA KnownFrame ==
    ASSUME ShapeInv, FreshInv, NEW r \in Reqs, MakesOwn(r),
           Known(r, req'[r], sess', shared'), StoreKnown'
    PROVE  FreshInv'
<1>1. ASSUME NEW x \in Reqs, x # r PROVE Known(x, req'[x], sess', shared')
  <2>1. Known(x, req[x], sess, shared) /\ req'[x] = req[x] /\ req[x] \in Request
    BY <1>1, Shape DEF FreshInv, MakesOwn
  <2>2. x \in Exchanges /\ req[x].pc # "idle" => req[x].sid \in Sids
    BY Shape DEF Informed
  <2> QED BY <1>1, <2>1, <2>2 DEF Known, MakesOwn, Request
<1> QED BY <1>1 DEF FreshInv

\* Nothing in the store changes what was made.
LEMMA StoreKnownSame ==
    ASSUME ShapeInv, FreshInv, UNCHANGED <<list, code, grant>>,
           \A s \in Sids : sess[s].st # "none" => sess'[s].st # "none"
    PROVE  StoreKnown'
<1>1. \A id \in SignIns, c \in Clients : list[id][c] # None => list[id][c] \in Sids
  BY DEF ShapeInv, TypeOK
<1>2. \A k \in Exchanges : grant[k].st # "none" => grant[k].sid \in Sids
  BY DEF ShapeInv, GrantsNamed
<1> QED BY <1>1, <1>2 DEF FreshInv, StoreKnown

\* A code names a session that was made.
LEMMA ArriveKnown ==
    ASSUME ShapeInv, FreshInv, NEW r \in Reqs, Arrive(r)
    PROVE  FreshInv'
<1> DEFINE e == req[r]
<1>0. e \in Request /\ Known(r, e, sess, shared) /\ req \in [Reqs -> Request] /\ e.pc = "idle"
  BY Shape DEF FreshInv, ShapeInv, TypeOK, Arrive, SignInReturns, AuthorizeArrives,
     CodePresented, TokenPresented, LogoutArrives
<1>1. UNCHANGED storeVars
  BY DEF Arrive, SignInReturns, AuthorizeArrives, CodePresented, TokenPresented, LogoutArrives
<1>2. StoreKnown'
  BY <1>1, StoreKnownSame DEF storeVars
<1>3. MakesOwn(r)
  BY <1>0, <1>1
     DEF MakesOwn, storeVars, Arrive, SignInReturns, AuthorizeArrives, CodePresented,
         TokenPresented, LogoutArrives
<1>4. Known(r, req'[r], sess, shared)
  <2>1. ASSUME NEW b \in Browsers, NEW c \in Clients, NEW p \in People, NEW m \in Methods,
               r \in SignIns, SignInReturns(r, b, c, p, m)
        PROVE  Known(r, req'[r], sess, shared)
    BY <1>0, <2>1, RequestsAssumption
       DEF SignInReturns, Known, Request, BeforeSession, AfterSession, BeforeShared, Sids,
           Ends, EndsApps
  <2>2. ASSUME NEW b \in Browsers, NEW c, r \in Answers, AuthorizeArrives(r, b, c)
        PROVE  Known(r, req'[r], sess, shared)
    BY <1>0, <2>2, RequestsAssumption
       DEF AuthorizeArrives, Known, Request, BeforeSession, AfterSession, BeforeShared, Sids,
           Ends, EndsApps
  <2>3. ASSUME NEW s \in Sids, NEW good \in BOOLEAN, r \in Exchanges, CodePresented(r, s, good)
        PROVE  Known(r, req'[r], sess, shared)
    BY <1>0, <2>3, RequestsAssumption
       DEF CodePresented, Known, Request, Sids, FreshInv, StoreKnown
  <2>4. ASSUME NEW k \in Exchanges, NEW good \in BOOLEAN,
               r \in Refreshes \cup Revokes, TokenPresented(r, k, good)
        PROVE  Known(r, req'[r], sess, shared)
    BY <1>0, <2>4, RequestsAssumption DEF TokenPresented, Known, Request, Sids
  <2>5. ASSUME NEW b \in Browsers, r \in Logouts, LogoutArrives(r, b)
        PROVE  Known(r, req'[r], sess, shared)
    BY <1>0, <2>5, RequestsAssumption DEF LogoutArrives, Known, Request, Sids
  <2> QED BY <2>1, <2>2, <2>3, <2>4, <2>5 DEF Arrive
<1> QED BY <1>1, <1>2, <1>3, <1>4, KnownFrame DEF storeVars

\* The parts of a request that the proofs below look at.
LEMMA Fields ==
    ASSUME ShapeInv, NEW r \in Reqs
    PROVE  DOMAIN req = Reqs /\ {"pc", "todo", "ret", "cur", "sid"} \subseteq DOMAIN req[r]
BY DEF ShapeInv, TypeOK, Request

\* A request that leaves the store as it is.
LEMMA ReadsOnly ==
    ASSUME ShapeInv, FreshInv, NEW r \in Reqs, \A x \in Reqs \ {r} : req'[x] = req[x],
           UNCHANGED storeVars, Known(r, req'[r], sess, shared)
    PROVE  FreshInv'
<1>1. MakesOwn(r) /\ StoreKnown'
  BY StoreKnownSame DEF MakesOwn, storeVars
<1> QED BY <1>1, KnownFrame DEF storeVars

\* JoinLoad keeps what is known of made sessions.
LEMMA JoinLoadKnown ==
    ASSUME ShapeInv, FreshInv, NEW r \in Reqs, JoinLoad(r)
    PROVE  FreshInv'
<1> DEFINE e == req[r]
<1>0. e \in Request /\ Known(r, e, sess, shared) /\ e.pc = "join" /\ Placed(r, e)
  BY Shape DEF FreshInv, JoinLoad
<1>1. r \in SignIns
  BY <1>0, RequestsAssumption DEF Placed, Ends, EndsApps, Reqs, Sids
<1>2. UNCHANGED storeVars
  BY DEF JoinLoad
<1>3. /\ \A x \in Reqs \ {r} : req'[x] = req[x]
      /\ \/ req'[r].pc \in {"replace", "create"}
         \/ req'[r].pc = "endRecord" /\ req'[r].ret = "create"
      /\ req'[r].todo = e.todo
  BY <1>0, Fields DEF JoinLoad
<1>4. Known(r, req'[r], sess, shared)
  BY <1>0, <1>1, <1>3, RequestsAssumption
     DEF Known, BeforeSession, AfterSession, BeforeShared, Ends, EndsApps, Sids
<1> QED BY <1>2, <1>3, <1>4, ReadsOnly

\* JoinReplace keeps what is known of made sessions.
LEMMA JoinReplaceKnown ==
    ASSUME ShapeInv, FreshInv, NEW r \in Reqs, JoinReplace(r)
    PROVE  FreshInv'
<1> DEFINE e == req[r]
<1>0. e \in Request /\ Known(r, e, sess, shared) /\ e.pc = "replace" /\ Placed(r, e)
  BY Shape DEF FreshInv, JoinReplace
<1>1. r \in SignIns
  BY <1>0, RequestsAssumption DEF Placed, Ends, EndsApps, Reqs, Sids
<1>2. UNCHANGED <<list, code, grant, sess>> /\ StoreKnown'
  BY StoreKnownSame DEF JoinReplace
<1>3. /\ \A x \in Reqs \ {r} : req'[x] = req[x]
      /\ req'[r].pc \in {"session", "create", "error"}
      /\ req'[r].todo = e.todo
      /\ req'[r].pc = "create" => shared' = shared
  BY <1>0, Fields DEF JoinReplace
<1>4. \A i \in SignIns : shared'[i].st = shared[i].st
  <2> DEFINE n == [shared[e.id] EXCEPT !.sec = r, !.ways = e.ways, !.ends = e.until]
  <2>1. e.id \in SignIns => n.st = shared[e.id].st
    BY DEF ShapeInv, TypeOK, Shared
  <2> HIDE DEF n
  <2>2. shared' = [shared EXCEPT ![e.id] = n] \/ shared' = shared
    BY DEF JoinReplace, n
  <2> QED BY <2>1, <2>2 DEF ShapeInv, TypeOK
<1>5. Known(r, req'[r], sess', shared')
  BY <1>0, <1>1, <1>2, <1>3, <1>4, RequestsAssumption
     DEF Known, BeforeSession, AfterSession, BeforeShared, Ends, EndsApps, Sids
<1>6. MakesOwn(r)
  BY <1>2, <1>3, <1>4 DEF MakesOwn, ShapeInv, TypeOK
<1> QED BY <1>2, <1>5, <1>6, KnownFrame

\* JoinCreate keeps what is known of made sessions.
LEMMA JoinCreateKnown ==
    ASSUME ShapeInv, FreshInv, NEW r \in Reqs, JoinCreate(r)
    PROVE  FreshInv'
<1> DEFINE e == req[r]
<1>0. e \in Request /\ Known(r, e, sess, shared) /\ e.pc = "create" /\ Placed(r, e)
  BY Shape DEF FreshInv, JoinCreate
<1>1. r \in SignIns
  BY <1>0, RequestsAssumption DEF Placed, Ends, EndsApps, Reqs, Sids
<1>2. UNCHANGED <<list, code, grant, sess>> /\ StoreKnown'
  BY StoreKnownSame DEF JoinCreate
<1>3. /\ \A x \in Reqs \ {r} : req'[x] = req[x]
      /\ req'[r].pc \in {"session", "error"}
      /\ req'[r].todo = e.todo
  BY <1>0, Fields DEF JoinCreate
<1>4. \A i \in SignIns \ {r} : shared'[i].st = shared[i].st
  BY DEF JoinCreate, ShapeInv, TypeOK
<1>5. Known(r, req'[r], sess', shared')
  BY <1>0, <1>1, <1>2, <1>3, RequestsAssumption
     DEF Known, BeforeSession, AfterSession, BeforeShared, Ends, EndsApps, Sids
<1>6. MakesOwn(r)
  BY <1>2, <1>3, <1>4 DEF MakesOwn, ShapeInv, TypeOK
<1> QED BY <1>2, <1>5, <1>6, KnownFrame

\* AnswerLoad keeps what is known of made sessions.
LEMMA AnswerLoadKnown ==
    ASSUME ShapeInv, FreshInv, NEW r \in Reqs, AnswerLoad(r)
    PROVE  FreshInv'
<1> DEFINE e == req[r]
<1>0. e \in Request /\ Known(r, e, sess, shared) /\ e.pc = "load" /\ r \in Answers
  BY Shape DEF FreshInv, AnswerLoad
<1>1. UNCHANGED storeVars
  BY DEF AnswerLoad
<1>2. /\ \A x \in Reqs \ {r} : req'[x] = req[x]
      /\ req'[r].pc \in {"session", "page"}
      /\ req'[r].todo = e.todo
  BY <1>0, Fields DEF AnswerLoad
<1>3. Known(r, req'[r], sess, shared)
  BY <1>0, <1>2, RequestsAssumption
     DEF Known, BeforeSession, AfterSession, BeforeShared, Ends, EndsApps, Sids
<1> QED BY <1>1, <1>2, <1>3, ReadsOnly

\* CreateSession keeps what is known of made sessions.
LEMMA CreateSessionKnown ==
    ASSUME ShapeInv, FreshInv, NEW r \in Reqs, CreateSession(r)
    PROVE  FreshInv'
<1> DEFINE e == req[r]
<1>0. e \in Request /\ Known(r, e, sess, shared) /\ e.pc = "session" /\ Placed(r, e)
  BY Shape DEF FreshInv, CreateSession
<1>1. r \in Sids
  BY <1>0, RequestsAssumption DEF Placed, Ends, EndsApps, Reqs, Sids
<1>2. /\ \A s \in Sids : sess[s].st # "none" => sess'[s].st # "none"
      /\ \A s \in Sids \ {r} : sess'[s].st = sess[s].st
  BY DEF CreateSession, ShapeInv, TypeOK
<1>3. UNCHANGED <<list, code, grant, shared>> /\ StoreKnown'
  BY <1>2, StoreKnownSame DEF CreateSession
<1>4. /\ \A x \in Reqs \ {r} : req'[x] = req[x]
      /\ req'[r].pc = "error" \/ (req'[r].pc = "record" /\ sess'[r].st = "live")
      /\ req'[r].todo = e.todo
  <2>1. DOMAIN sess = Sids
    BY DEF ShapeInv, TypeOK
  <2> QED BY <1>1, <2>1, Fields DEF CreateSession
<1>5. e.todo \subseteq Sids
  BY <1>0 DEF Request
<1>6. Known(r, req'[r], sess', shared')
  BY <1>0, <1>1, <1>2, <1>3, <1>4, <1>5, RequestsAssumption
     DEF Known, BeforeSession, AfterSession, BeforeShared, Ends, EndsApps, Sids
<1>7. MakesOwn(r)
  BY <1>2, <1>3, <1>4 DEF MakesOwn, ShapeInv, TypeOK
<1> QED BY <1>3, <1>6, <1>7, KnownFrame

\* The list that the cache answers names sessions that were made.
LEMMA AppsMade ==
    ASSUME ShapeInv, FreshInv, NEW id \in SignIns, NEW c \in Clients, Apps(id)[c] # None
    PROVE  Apps(id)[c] \in Sids /\ sess[Apps(id)[c]].st # "none"
<1>1. Apps(id)[c] \in Sids
  BY AppsType
<1>2. Apps(id)[c] = list[id][c]
  BY DEF Apps
<1> QED BY <1>1, <1>2 DEF FreshInv, StoreKnown

\* AddSharedApp keeps what is known of made sessions.
LEMMA AddSharedAppKnown ==
    ASSUME ShapeInv, FreshInv, NEW r \in Reqs, AddSharedApp(r)
    PROVE  FreshInv'
<1> DEFINE e == req[r]
<1>0. /\ e \in Request /\ Known(r, e, sess, shared) /\ e.pc = "record"
      /\ Placed(r, e) /\ Informed(r, e, grant)
  BY Shape DEF FreshInv, AddSharedApp
<1>1. r \in Sids /\ e.c \in Clients /\ e.id \in SignIns /\ sess[r].st # "none"
  BY <1>0, RequestsAssumption
     DEF Placed, Informed, Ends, EndsApps, Reqs, Sids, Known, AfterSession
<1>2. UNCHANGED <<sess, shared, code, grant>>
  BY DEF AddSharedApp
<1>3. Earlier(r) \subseteq Sids /\ \A s \in Earlier(r) : sess[s].st # "none"
  BY <1>1, AppsMade DEF Earlier
<1>4. /\ \A x \in Reqs \ {r} : req'[x] = req[x]
      /\ \/ /\ req'[r].todo = e.todo /\ req'[r].pc = "code"
         \/ /\ req'[r].todo = Earlier(r) \/ req'[r].todo = {r}
            /\ req'[r].pc = req'[r].ret \/ req'[r].pc = "endLoad"
            /\ req'[r].ret \in {"recheck", "code", "page"}
  <2>1. CASE \E ret \in {"recheck", "code"} : req' = [req EXCEPT ![r] = Ending(e, Earlier(r), ret)]
    BY <2>1, Fields DEF Ending
  <2>2. CASE req' = [req EXCEPT ![r] = Ending(e, {r}, "page")]
    BY <2>2, Fields DEF Ending
  <2>3. CASE req' = [req EXCEPT ![r] = [e EXCEPT !.pc = "code"]]
    BY <2>3, Fields
  <2> QED BY <2>1, <2>2, <2>3 DEF AddSharedApp, Unrecorded
<1>5. Known(r, req'[r], sess, shared)
  BY <1>0, <1>1, <1>3, <1>4, RequestsAssumption
     DEF Known, BeforeSession, AfterSession, BeforeShared, Ends, EndsApps, Sids
<1>6. StoreKnown'
  <2>1. CASE list' = [list EXCEPT ![e.id] = [Apps(e.id) EXCEPT ![e.c] = r]]
    <3>1. ASSUME NEW id \in SignIns, NEW c \in Clients, list'[id][c] # None
          PROVE  sess'[list'[id][c]].st # "none"
      <4>1. CASE id # e.id
        BY <1>2, <2>1, <3>1, <4>1 DEF FreshInv, StoreKnown, ShapeInv, TypeOK
      <4>2. CASE id = e.id
        <5>1. DOMAIN list = SignIns /\ DOMAIN Apps(id) = Clients
          BY AppsType DEF ShapeInv, TypeOK
        <5>2. list'[id][c] = IF c = e.c THEN r ELSE Apps(id)[c]
          BY <2>1, <4>2, <5>1
        <5> QED BY <1>1, <1>2, <3>1, <5>2, AppsMade
      <4> QED BY <4>1, <4>2
    <3> QED BY <1>2, <3>1 DEF FreshInv, StoreKnown
  <2>2. CASE UNCHANGED list
    BY <1>2, <2>2, StoreKnownSame
  <2> QED BY <2>1, <2>2 DEF AddSharedApp
<1>7. MakesOwn(r)
  BY <1>2, <1>4 DEF MakesOwn
<1> QED BY <1>2, <1>5, <1>6, <1>7, KnownFrame

\* SharedLive keeps what is known of made sessions.
LEMMA SharedLiveKnown ==
    ASSUME ShapeInv, FreshInv, NEW r \in Reqs, SharedLive(r)
    PROVE  FreshInv'
<1> DEFINE e == req[r]
<1>0. e \in Request /\ Known(r, e, sess, shared) /\ e.pc = "recheck" /\ Placed(r, e)
  BY Shape DEF FreshInv, SharedLive
<1>1. r \in Answers /\ sess[r].st # "none"
  BY <1>0, RequestsAssumption DEF Placed, Ends, EndsApps, Reqs, Sids, Known, AfterSession
<1>2. UNCHANGED storeVars
  BY DEF SharedLive
<1>3. /\ \A x \in Reqs \ {r} : req'[x] = req[x]
      /\ \/ req'[r].todo = e.todo /\ req'[r].pc = "code"
         \/ req'[r].todo = {r} /\ req'[r].pc = "endLoad" /\ req'[r].ret = "page"
  BY Fields DEF SharedLive, Ending
<1>4. Known(r, req'[r], sess, shared)
  BY <1>0, <1>1, <1>3, RequestsAssumption
     DEF Known, BeforeSession, AfterSession, BeforeShared, Ends, EndsApps, Sids
<1> QED BY <1>2, <1>3, <1>4, ReadsOnly

\* SaveAppCode keeps what is known of made sessions.
LEMMA SaveAppCodeKnown ==
    ASSUME ShapeInv, FreshInv, NEW r \in Reqs, SaveAppCode(r)
    PROVE  FreshInv'
<1> DEFINE e == req[r]
<1>0. e \in Request /\ Known(r, e, sess, shared) /\ e.pc = "code" /\ Placed(r, e)
  BY Shape DEF FreshInv, SaveAppCode
<1>1. r \in Sids /\ sess[r].st # "none"
  BY <1>0, RequestsAssumption DEF Placed, Ends, EndsApps, Reqs, Sids, Known, AfterSession
<1>2. UNCHANGED <<sess, shared, list, grant>>
  BY DEF SaveAppCode
<1>3. /\ \A x \in Reqs \ {r} : req'[x] = req[x]
      /\ req'[r].todo = e.todo /\ req'[r].pc \in {"coded", "error"}
  BY Fields DEF SaveAppCode
<1>4. Known(r, req'[r], sess, shared)
  BY <1>0, <1>1, <1>3, RequestsAssumption
     DEF Known, BeforeSession, AfterSession, BeforeShared, Ends, EndsApps, Sids
<1>5. StoreKnown'
  <2>1. \A s \in Sids \ {r} : code'[s] = code[s]
    BY DEF SaveAppCode, ShapeInv, TypeOK
  <2> QED BY <1>1, <1>2, <2>1 DEF FreshInv, StoreKnown
<1>6. MakesOwn(r)
  BY <1>2, <1>3 DEF MakesOwn
<1> QED BY <1>2, <1>4, <1>5, <1>6, KnownFrame

\* EndRecord keeps what is known of made sessions.
LEMMA EndRecordKnown ==
    ASSUME ShapeInv, FreshInv, NEW r \in Reqs, EndRecord(r)
    PROVE  FreshInv'
<1> DEFINE e == req[r]
<1>0. e \in Request /\ Known(r, e, sess, shared) /\ e.pc = "endRecord" /\ Placed(r, e)
  BY Shape DEF FreshInv, EndRecord
<1>1. UNCHANGED <<sess, list, code, grant>> /\ StoreKnown'
  BY StoreKnownSame DEF EndRecord
<1>2. /\ \A x \in Reqs \ {r} : req'[x] = req[x]
      /\ req'[r].todo = e.todo /\ req'[r].ret = e.ret /\ req'[r].pc \in {"takeApps", e.ret}
  BY Fields DEF EndRecord
<1>3. \A i \in SignIns : shared[i].st = "none" => shared'[i].st = "none"
  BY DEF EndRecord, LiveShared, ShapeInv, TypeOK
<1>4. Known(r, req'[r], sess, shared')
  BY <1>0, <1>2, <1>3, RequestsAssumption
     DEF Known, Placed, BeforeSession, AfterSession, BeforeShared, Ends, EndsApps, Reqs, Sids
<1>5. MakesOwn(r)
  BY <1>1, <1>2, <1>3 DEF MakesOwn
<1> QED BY <1>1, <1>4, <1>5, KnownFrame

\* TakeApps keeps what is known of made sessions.
LEMMA TakeAppsKnown ==
    ASSUME ShapeInv, FreshInv, NEW r \in Reqs, TakeApps(r)
    PROVE  FreshInv'
<1> DEFINE e == req[r]
           taken == {Apps(e.id)[c] : c \in Clients} \ {None}
<1>0. /\ e \in Request /\ Known(r, e, sess, shared) /\ e.pc = "takeApps"
      /\ Placed(r, e) /\ e.id \in SignIns
  BY Shape DEF FreshInv, TakeApps, Informed
<1>1. UNCHANGED <<sess, shared, code, grant>>
  BY DEF TakeApps
<1>2. \A s \in taken : sess[s].st # "none"
  BY <1>0, AppsMade
<1>3. /\ \A x \in Reqs \ {r} : req'[x] = req[x]
      /\ req'[r].todo = e.todo \/ req'[r].todo = taken
      /\ req'[r].ret = e.ret
      /\ req'[r].pc \in {"endLoad", e.ret}
  BY Fields DEF TakeApps, Ending
<1> HIDE DEF taken
<1>4. Known(r, req'[r], sess, shared)
  BY <1>0, <1>2, <1>3, RequestsAssumption
     DEF Known, Placed, BeforeSession, AfterSession, BeforeShared, Ends, EndsApps, Reqs, Sids
<1>5. StoreKnown'
  <2>1. \A id \in SignIns, c \in Clients : list'[id][c] = list[id][c] \/ list'[id][c] = None
    BY DEF TakeApps, ShapeInv, TypeOK
  <2> QED BY <1>1, <2>1 DEF FreshInv, StoreKnown
<1>6. MakesOwn(r)
  BY <1>1, <1>3 DEF MakesOwn
<1> QED BY <1>1, <1>4, <1>5, <1>6, KnownFrame

\* EndLoad keeps what is known of made sessions.
LEMMA EndLoadKnown ==
    ASSUME ShapeInv, FreshInv, NEW r \in Reqs, EndLoad(r)
    PROVE  FreshInv'
<1> DEFINE e == req[r]
<1>0. e \in Request /\ Known(r, e, sess, shared) /\ e.pc = "endLoad" /\ Placed(r, e)
  BY Shape DEF FreshInv, EndLoad
<1>1. UNCHANGED storeVars
  BY DEF EndLoad
<1>2. /\ \A x \in Reqs \ {r} : req'[x] = req[x]
      /\ req'[r].todo = e.todo /\ req'[r].cur \in e.todo /\ req'[r].ret = e.ret
      /\ req'[r].pc \in {"endGrant", "endDel"}
  BY Fields DEF EndLoad
<1>3. req'[r].cur \in Sids
  BY <1>0, <1>2 DEF Request
<1>4. Known(r, req'[r], sess, shared)
  BY <1>0, <1>2, <1>3, RequestsAssumption
     DEF Known, Placed, BeforeSession, AfterSession, BeforeShared, Ends, EndsApps, Reqs, Sids
<1> QED BY <1>1, <1>2, <1>4, ReadsOnly

\* A grant that goes keeps its session's name.
LEMMA GrantGone ==
    ASSUME ShapeInv, FreshInv, UNCHANGED <<sess, list, code>>,
           NEW k \in Exchanges, grant[k].st # "none",
           grant' = [grant EXCEPT ![k].st = "gone"] \/ grant' = grant
    PROVE  StoreKnown'
<1>1. \A j \in Exchanges : /\ grant'[j].sid = grant[j].sid
                           /\ grant'[j].st # "none" => grant[j].st # "none"
  BY DEF ShapeInv, TypeOK, Grant
<1> QED BY <1>1 DEF FreshInv, StoreKnown

\* EndGrant keeps what is known of made sessions.
LEMMA EndGrantKnown ==
    ASSUME ShapeInv, FreshInv, NEW r \in Reqs, EndGrant(r)
    PROVE  FreshInv'
<1> DEFINE e == req[r]
<1>0. /\ e \in Request /\ Known(r, e, sess, shared) /\ e.pc = "endGrant" /\ Placed(r, e)
      /\ e.key \in Exchanges /\ grant[e.key].st # "none"
  BY Shape DEF FreshInv, EndGrant, Informed
<1>1. UNCHANGED <<sess, shared, list, code>> /\ StoreKnown'
  BY <1>0, GrantGone DEF EndGrant
<1>2. /\ \A x \in Reqs \ {r} : req'[x] = req[x]
      /\ req'[r].todo = e.todo /\ req'[r].cur = e.cur /\ req'[r].ret = e.ret
      /\ req'[r].pc = "endDel"
  BY Fields DEF EndGrant
<1>3. Known(r, req'[r], sess, shared)
  BY <1>0, <1>2, RequestsAssumption
     DEF Known, Placed, BeforeSession, AfterSession, BeforeShared, Ends, EndsApps, Reqs, Sids
<1>4. MakesOwn(r)
  BY <1>1, <1>2 DEF MakesOwn
<1> QED BY <1>1, <1>3, <1>4, KnownFrame

\* A session that goes was made, so none that is still to be made goes.
LEMMA SessionGone ==
    ASSUME ShapeInv, NEW s \in Sids, sess[s].st # "none",
           sess' = [sess EXCEPT ![s].st = "gone"] \/ sess' = sess
    PROVE  \A t \in Sids : /\ sess[t].st = "none" <=> sess'[t].st = "none"
                           /\ sess[t].st = "gone" => sess'[t].st = "gone"
                           /\ sess'[t].p = sess[t].p /\ sess'[t].id = sess[t].id
<1> DEFINE n == [sess[s] EXCEPT !.st = "gone"]
<1>1. n.st = "gone" /\ n.p = sess[s].p /\ n.id = sess[s].id
  BY DEF ShapeInv, TypeOK, Session
<1> HIDE DEF n
<1>2. sess' = [sess EXCEPT ![s] = n] \/ sess' = sess
  BY DEF n
<1>3. DOMAIN sess = Sids
  BY DEF ShapeInv, TypeOK
<1> QED BY <1>1, <1>2, <1>3

\* EndDel keeps what is known of made sessions.
LEMMA EndDelKnown ==
    ASSUME ShapeInv, FreshInv, NEW r \in Reqs, EndDel(r)
    PROVE  FreshInv'
<1> DEFINE e == req[r]
<1>0. /\ e \in Request /\ Known(r, e, sess, shared) /\ e.pc = "endDel" /\ Placed(r, e)
      /\ e.cur \in Sids /\ sess[e.cur].st # "none" /\ e.todo \subseteq Sids
  BY Shape DEF FreshInv, EndDel, Known, Request
<1>1. \A t \in Sids : sess[t].st = "none" <=> sess'[t].st = "none"
  BY <1>0, SessionGone DEF EndDel
<1>2. UNCHANGED <<shared, list, code, grant>> /\ StoreKnown'
  BY <1>1, StoreKnownSame DEF EndDel
<1>3. /\ \A x \in Reqs \ {r} : req'[x] = req[x]
      /\ req'[r].todo \subseteq e.todo /\ req'[r].ret = e.ret
      /\ req'[r].pc \in {"endLoad", e.ret}
  BY Fields DEF EndDel, Ending
<1>4. Known(r, req'[r], sess', shared)
  BY <1>0, <1>1, <1>3, RequestsAssumption
     DEF Known, Placed, BeforeSession, AfterSession, BeforeShared, Ends, EndsApps, Reqs, Sids
<1>5. MakesOwn(r)
  BY <1>1, <1>2, <1>3 DEF MakesOwn
<1> QED BY <1>2, <1>4, <1>5, KnownFrame

\* ConsumeAppCode keeps what is known of made sessions.
LEMMA ConsumeAppCodeKnown ==
    ASSUME ShapeInv, FreshInv, NEW r \in Reqs, ConsumeAppCode(r)
    PROVE  FreshInv'
<1> DEFINE e == req[r]
<1>0. /\ e \in Request /\ Known(r, e, sess, shared) /\ e.pc = "consume" /\ Placed(r, e)
      /\ Informed(r, e, grant)
  BY Shape DEF FreshInv, ConsumeAppCode
<1>1. r \in Exchanges /\ e.sid \in Sids
  BY <1>0, RequestsAssumption DEF Placed, Informed, Ends, EndsApps, Reqs, Sids
<1>2. UNCHANGED <<sess, shared, list, grant>>
  BY DEF ConsumeAppCode
<1>3. /\ \A x \in Reqs \ {r} : req'[x] = req[x]
      /\ req'[r].todo = e.todo /\ req'[r].sid = e.sid
      /\ req'[r].pc \in {"codeSess", "refused"}
  BY Fields DEF ConsumeAppCode
<1>4. Known(r, req'[r], sess, shared)
  BY <1>0, <1>1, <1>3, RequestsAssumption DEF Known, Sids
<1>5. StoreKnown'
  <2>1. \A s \in Sids : code'[s] # "none" => code[s] # "none"
    BY <1>1 DEF ConsumeAppCode, ShapeInv, TypeOK
  <2> QED BY <1>2, <2>1 DEF FreshInv, StoreKnown
<1>6. MakesOwn(r)
  BY <1>2, <1>3 DEF MakesOwn
<1> QED BY <1>2, <1>4, <1>5, <1>6, KnownFrame

\* ExchangeLoad keeps what is known of made sessions.
LEMMA ExchangeLoadKnown ==
    ASSUME ShapeInv, FreshInv, NEW r \in Reqs, ExchangeLoad(r)
    PROVE  FreshInv'
<1> DEFINE e == req[r]
<1>0. e \in Request /\ Known(r, e, sess, shared) /\ e.pc = "codeSess" /\ Placed(r, e)
  BY Shape DEF FreshInv, ExchangeLoad
<1>1. r \in Exchanges
  BY <1>0, RequestsAssumption DEF Placed, Ends, EndsApps, Reqs, Sids
<1>2. UNCHANGED storeVars
  BY DEF ExchangeLoad
<1>3. /\ \A x \in Reqs \ {r} : req'[x] = req[x]
      /\ req'[r].todo = e.todo /\ req'[r].sid = e.sid
      /\ req'[r].pc \in {"saveGrant", "error", "refused"}
  BY Fields DEF ExchangeLoad
<1>4. Known(r, req'[r], sess, shared)
  BY <1>0, <1>1, <1>3, RequestsAssumption DEF Known, Sids
<1> QED BY <1>2, <1>3, <1>4, ReadsOnly

\* SaveRefresh keeps what is known of made sessions.
LEMMA SaveRefreshKnown ==
    ASSUME ShapeInv, FreshInv, NEW r \in Reqs, SaveRefresh(r)
    PROVE  FreshInv'
<1> DEFINE e == req[r]
<1>0. /\ e \in Request /\ Known(r, e, sess, shared) /\ e.pc = "saveGrant" /\ Placed(r, e)
      /\ Informed(r, e, grant)
  BY Shape DEF FreshInv, SaveRefresh
<1>1. r \in Exchanges /\ e.sid \in Sids /\ sess[e.sid].st # "none"
  BY <1>0, RequestsAssumption DEF Placed, Informed, Ends, EndsApps, Reqs, Sids, Known
<1>2. UNCHANGED <<sess, shared, list, code>>
  BY DEF SaveRefresh
<1>3. /\ \A x \in Reqs \ {r} : req'[x] = req[x]
      /\ req'[r].todo = e.todo /\ req'[r].sid = e.sid
      /\ req'[r].pc \in {"bind", "refused", "unavailable"}
  BY Fields DEF SaveRefresh, Unavailable
<1>4. Known(r, req'[r], sess, shared)
  BY <1>0, <1>1, <1>3, RequestsAssumption DEF Known, Sids
<1>5. StoreKnown'
  <2>1. grant' = [grant EXCEPT ![r] = [st |-> "live", sid |-> e.sid]] \/ grant' = grant
    BY DEF SaveRefresh
  <2>2. \A k \in Exchanges : grant'[k] = grant[k] \/ grant'[k].sid = e.sid
    BY <2>1 DEF ShapeInv, TypeOK
  <2> QED BY <1>1, <1>2, <2>2 DEF FreshInv, StoreKnown
<1>6. MakesOwn(r)
  BY <1>2, <1>3 DEF MakesOwn
<1> QED BY <1>2, <1>4, <1>5, <1>6, KnownFrame

\* ReplaceSession keeps what is known of made sessions.
LEMMA ReplaceSessionKnown ==
    ASSUME ShapeInv, FreshInv, NEW r \in Reqs, ReplaceSession(r)
    PROVE  FreshInv'
<1> DEFINE e == req[r]
<1>0. /\ e \in Request /\ Known(r, e, sess, shared) /\ e.pc = "bind" /\ Placed(r, e)
      /\ Informed(r, e, grant) /\ e.todo \subseteq Sids
  BY Shape DEF FreshInv, ReplaceSession, Request
<1>1. r \in Exchanges /\ e.sid \in Sids
  BY <1>0, RequestsAssumption DEF Placed, Informed, Ends, EndsApps, Reqs, Sids
<1>2. \A s \in Sids : sess'[s].st = sess[s].st
  BY <1>1 DEF ReplaceSession, ShapeInv, TypeOK, Session
<1>3. UNCHANGED <<shared, list, code, grant>> /\ StoreKnown'
  BY <1>2, StoreKnownSame DEF ReplaceSession
<1>4. /\ \A x \in Reqs \ {r} : req'[x] = req[x]
      /\ req'[r].todo = e.todo /\ req'[r].sid = e.sid
      /\ req'[r].pc \in {"issued", "refused", "unavailable"}
  BY Fields DEF ReplaceSession, Unavailable
<1>5. Known(r, req'[r], sess', shared)
  BY <1>0, <1>1, <1>2, <1>4, RequestsAssumption DEF Known, Sids
<1>6. MakesOwn(r)
  BY <1>2, <1>3, <1>4 DEF MakesOwn
<1> QED BY <1>3, <1>5, <1>6, KnownFrame

\* RefreshGrant keeps what is known of made sessions.
LEMMA RefreshGrantKnown ==
    ASSUME ShapeInv, FreshInv, NEW r \in Reqs, RefreshGrant(r)
    PROVE  FreshInv'
<1> DEFINE e == req[r]
<1>0. Known(r, e, sess, shared) /\ e.pc = "grant" /\ r \in Refreshes
  BY DEF FreshInv, RefreshGrant
<1>1. UNCHANGED storeVars
  BY DEF RefreshGrant
<1>2. /\ \A x \in Reqs \ {r} : req'[x] = req[x]
      /\ req'[r].todo = e.todo /\ req'[r].pc \in {"renewSess", "refused", "unavailable"}
  <2>1. CASE req' = [req EXCEPT ![r] = [@ EXCEPT !.pc = "renewSess", !.sid = grant[e.key].sid]]
    BY <2>1, Fields
  <2>2. CASE \E l \in {"refused", "unavailable"} : req' = [req EXCEPT ![r].pc = l]
    BY <2>2, Fields
  <2> QED BY <2>1, <2>2 DEF RefreshGrant, Unavailable
<1>3. Known(r, req'[r], sess, shared)
  BY <1>0, <1>2, RequestsAssumption DEF Known, Sids
<1> QED BY <1>1, <1>2, <1>3, ReadsOnly

\* RefreshIssue keeps what is known of made sessions.
LEMMA RefreshIssueKnown ==
    ASSUME ShapeInv, FreshInv, NEW r \in Reqs, RefreshIssue(r)
    PROVE  FreshInv'
<1> DEFINE e == req[r]
<1>0. Known(r, e, sess, shared) /\ Placed(r, e) /\ e.pc = "renewSess"
  BY Shape DEF FreshInv, RefreshIssue
<1>1. UNCHANGED storeVars
  BY DEF RefreshIssue
<1>2. /\ \A x \in Reqs \ {r} : req'[x] = req[x]
      /\ req'[r].todo = e.todo /\ req'[r].pc \in {"issued", "error", "refused", "unavailable"}
  BY Fields DEF RefreshIssue, Unavailable
<1>3. r \in Refreshes
  BY <1>0 DEF Placed, Ends, EndsApps, Reqs, Sids
<1>4. Known(r, req'[r], sess, shared)
  BY <1>0, <1>2, <1>3, RequestsAssumption DEF Known, Sids
<1> QED BY <1>1, <1>2, <1>4, ReadsOnly

\* RevokeGrant keeps what is known of made sessions.
LEMMA RevokeGrantKnown ==
    ASSUME ShapeInv, FreshInv, NEW r \in Reqs, RevokeGrant(r)
    PROVE  FreshInv'
<1> DEFINE e == req[r]
<1>0. Known(r, e, sess, shared) /\ e.pc = "grant" /\ r \in Revokes
  BY DEF FreshInv, RevokeGrant
<1>1. UNCHANGED storeVars
  BY DEF RevokeGrant
<1>2. /\ \A x \in Reqs \ {r} : req'[x] = req[x]
      /\ req'[r].todo = e.todo /\ req'[r].pc \in {"ended", "grantSess", "refused", "unavailable"}
  BY Fields DEF RevokeGrant, Unavailable
<1>3. Known(r, req'[r], sess, shared)
  BY <1>0, <1>2, RequestsAssumption DEF Known, Sids
<1> QED BY <1>1, <1>2, <1>3, ReadsOnly

\* RevokeLoad keeps what is known of made sessions.
LEMMA RevokeLoadKnown ==
    ASSUME ShapeInv, FreshInv, NEW r \in Reqs, RevokeLoad(r)
    PROVE  FreshInv'
<1> DEFINE e == req[r]
           s == grant[e.key].sid
<1>0. Known(r, e, sess, shared) /\ Placed(r, e) /\ Informed(r, e, grant) /\ e.pc = "grantSess"
  BY Shape DEF FreshInv, RevokeLoad
<1>1. r \in Revokes /\ s \in Sids /\ sess[s].st # "none"
  BY <1>0 DEF Placed, Informed, Ends, EndsApps, Reqs, Sids, FreshInv, StoreKnown,
     ShapeInv, GrantsNamed
<1>2. UNCHANGED storeVars
  BY DEF RevokeLoad
<1>3. /\ \A x \in Reqs \ {r} : req'[x] = req[x]
      /\ req'[r].todo = e.todo /\ req'[r].pc \in {"delSess", "delGrant", "refused", "unavailable"}
      /\ req'[r].pc = "delSess" => req'[r].sid = s
  <2>1. CASE req' = [req EXCEPT ![r] = [@ EXCEPT !.pc = "delSess", !.sid = s, !.id = sess[s].id]]
    BY <2>1, Fields
  <2>2. CASE \E l \in {"delGrant", "refused", "unavailable"} : req' = [req EXCEPT ![r].pc = l]
    BY <2>2, Fields
  <2> QED BY <2>1, <2>2 DEF RevokeLoad, Unavailable
<1>4. Known(r, req'[r], sess, shared)
  BY <1>0, <1>1, <1>3, RequestsAssumption DEF Known, Sids
<1> QED BY <1>2, <1>3, <1>4, ReadsOnly

\* RevokeSession keeps what is known of made sessions.
LEMMA RevokeSessionKnown ==
    ASSUME ShapeInv, FreshInv, NEW r \in Reqs, RevokeSession(r)
    PROVE  FreshInv'
<1> DEFINE e == req[r]
<1>0. /\ Known(r, e, sess, shared) /\ Placed(r, e) /\ e.pc = "delSess"
      /\ e.sid \in Sids /\ sess[e.sid].st # "none" /\ e.todo \subseteq Sids
  BY Shape DEF FreshInv, RevokeSession, Known, Request
<1>1. r \in Revokes
  BY <1>0 DEF Placed, Ends, EndsApps, Reqs, Sids
<1>2. \A t \in Sids : sess[t].st = "none" <=> sess'[t].st = "none"
  BY <1>0, SessionGone DEF RevokeSession
<1>3. UNCHANGED <<shared, list, code, grant>> /\ StoreKnown'
  BY <1>2, StoreKnownSame DEF RevokeSession
<1>4. /\ \A x \in Reqs \ {r} : req'[x] = req[x]
      /\ req'[r].todo = e.todo /\ req'[r].pc \in {"delGrant", "unavailable"}
  BY Fields DEF RevokeSession, Unavailable
<1>5. Known(r, req'[r], sess', shared)
  BY <1>0, <1>1, <1>2, <1>4, RequestsAssumption DEF Known, Sids
<1>6. MakesOwn(r)
  BY <1>2, <1>3, <1>4 DEF MakesOwn
<1> QED BY <1>3, <1>5, <1>6, KnownFrame

\* RevokeToken keeps what is known of made sessions.
LEMMA RevokeTokenKnown ==
    ASSUME ShapeInv, FreshInv, NEW r \in Reqs, RevokeToken(r)
    PROVE  FreshInv'
<1> DEFINE e == req[r]
<1>0. /\ Known(r, e, sess, shared) /\ Placed(r, e) /\ e.pc = "delGrant"
      /\ e.key \in Exchanges /\ grant[e.key].st # "none"
  BY Shape DEF FreshInv, RevokeToken, Informed
<1>1. r \in Revokes
  BY <1>0 DEF Placed, Ends, EndsApps, Reqs, Sids
<1>2. UNCHANGED <<sess, shared, list, code>> /\ StoreKnown'
  BY <1>0, GrantGone DEF RevokeToken
<1>3. /\ \A x \in Reqs \ {r} : req'[x] = req[x]
      /\ req'[r].todo = e.todo /\ req'[r].pc \in {"ended", "endRecord", "unavailable"}
  BY Fields DEF RevokeToken, Unavailable
<1>4. Known(r, req'[r], sess, shared)
  BY <1>0, <1>1, <1>3, RequestsAssumption DEF Known, Sids
<1>5. MakesOwn(r)
  BY <1>2, <1>3 DEF MakesOwn
<1> QED BY <1>2, <1>4, <1>5, KnownFrame

\* LogoutLoad keeps what is known of made sessions.
LEMMA LogoutLoadKnown ==
    ASSUME ShapeInv, FreshInv, NEW r \in Reqs, LogoutLoad(r)
    PROVE  FreshInv'
<1> DEFINE e == req[r]
<1>0. Known(r, e, sess, shared) /\ e.pc = "load" /\ r \in Logouts
  BY DEF FreshInv, LogoutLoad
<1>1. UNCHANGED storeVars
  BY DEF LogoutLoad
<1>2. /\ \A x \in Reqs \ {r} : req'[x] = req[x]
      /\ req'[r].todo = e.todo /\ req'[r].pc \in {"endRecord", "ended"}
  BY Fields DEF LogoutLoad
<1>3. Known(r, req'[r], sess, shared)
  BY <1>0, <1>2, RequestsAssumption DEF Known, Sids
<1> QED BY <1>1, <1>2, <1>3, ReadsOnly

\* Deliver keeps what is known of made sessions.
LEMMA DeliverKnown ==
    ASSUME ShapeInv, FreshInv, NEW r \in Reqs, Deliver(r)
    PROVE  FreshInv'
<1> DEFINE e == req[r]
<1>0. Known(r, e, sess, shared)
  BY DEF FreshInv
<1>1. UNCHANGED storeVars
  BY DEF Deliver
<1>2. /\ \A x \in Reqs \ {r} : req'[x] = req[x]
      /\ req'[r].todo = e.todo /\ req'[r].pc = e.pc /\ req'[r].ret = e.ret
      /\ req'[r].cur = e.cur /\ req'[r].sid = e.sid
  BY Fields DEF Deliver
<1>3. Known(r, req'[r], sess, shared)
  BY <1>0, <1>2 DEF Known, BeforeSession, AfterSession, BeforeShared
<1> QED BY <1>1, <1>2, <1>3, ReadsOnly

\* Nothing was made.
LEMMA FreshInit == Init => FreshInv
<1> SUFFICES ASSUME Init PROVE FreshInv
  OBVIOUS
<1>1. StoreKnown
  BY DEF Init, StoreKnown
<1>2. \A r \in Reqs : Known(r, req[r], sess, shared)
  BY DEF Init, Blank, Known, AfterSession, Ends, EndsApps
<1> QED BY <1>1, <1>2 DEF FreshInv

\* What is said of made sessions is inductive, given the shape.
LEMMA FreshStep == ShapeInv /\ FreshInv /\ [Next]_vars => FreshInv'
<1> SUFFICES ASSUME ShapeInv, FreshInv, [Next]_vars PROVE FreshInv'
  OBVIOUS
<1>1. CASE UNCHANGED <<storeVars, req>>
  BY <1>1 DEF storeVars, FreshInv, StoreKnown, Known
<1>2. ASSUME NEW r \in Reqs, Step(r) PROVE FreshInv'
  BY <1>2, JoinLoadKnown, JoinReplaceKnown, JoinCreateKnown, AnswerLoadKnown,
     CreateSessionKnown, AddSharedAppKnown, SharedLiveKnown, SaveAppCodeKnown, EndRecordKnown,
     TakeAppsKnown, EndLoadKnown, EndGrantKnown, EndDelKnown, ConsumeAppCodeKnown,
     ExchangeLoadKnown, SaveRefreshKnown, ReplaceSessionKnown, RefreshGrantKnown,
     RefreshIssueKnown, RevokeGrantKnown, RevokeLoadKnown, RevokeSessionKnown,
     RevokeTokenKnown, LogoutLoadKnown DEF Step
<1>3. CASE Tick \/ UNCHANGED vars
  BY <1>1, <1>3 DEF Tick, vars, storeVars
<1> QED BY <1>2, <1>3, ArriveKnown, DeliverKnown DEF Next

\* The step of StaysEnded.
EndedKept ==
    /\ \A s \in Sids : sess[s].st = "gone" => sess'[s].st = "gone"
    /\ \A id \in SignIns : shared[id].st = "gone" => shared'[id].st = "gone"

\* No store call brings back what ended: a new record or session goes where
\* there was none, and the others write over what is live.
LEMMA StepKeepsEnded ==
    ASSUME ShapeInv, FreshInv, NEW r \in Reqs, Step(r)
    PROVE  EndedKept
<1> DEFINE e == req[r]
<1>0. Placed(r, e) /\ Informed(r, e, grant) /\ Known(r, e, sess, shared)
  BY Shape DEF FreshInv
<1>1. CASE JoinReplace(r)
  BY <1>1 DEF JoinReplace, LiveShared, EndedKept, ShapeInv, TypeOK
<1>2. CASE JoinCreate(r)
  <2>1. r \in SignIns /\ shared[r].st = "none"
    BY <1>0, <1>2, RequestsAssumption
       DEF JoinCreate, Placed, Ends, EndsApps, Reqs, Sids, Known, BeforeShared
  <2> QED BY <1>2, <2>1 DEF JoinCreate, EndedKept, ShapeInv, TypeOK
<1>3. CASE CreateSession(r)
  <2>1. r \in Sids /\ sess[r].st = "none"
    BY <1>0, <1>3, RequestsAssumption
       DEF CreateSession, Placed, Ends, EndsApps, Reqs, Sids, Known, BeforeSession
  <2> QED BY <1>3, <2>1 DEF CreateSession, EndedKept, ShapeInv, TypeOK
<1>4. CASE EndRecord(r)
  BY <1>4 DEF EndRecord, LiveShared, EndedKept, ShapeInv, TypeOK
<1>5. CASE EndDel(r)
  <2>1. e.cur \in Sids /\ sess[e.cur].st # "none"
    BY <1>0, <1>5 DEF EndDel, Known
  <2> QED BY <1>5, <2>1, SessionGone DEF EndDel, EndedKept
<1>6. CASE ReplaceSession(r)
  <2>1. r \in Exchanges
    BY <1>0, <1>6 DEF ReplaceSession, Placed, Ends, EndsApps, Reqs, Sids
  <2>2. \A s \in Sids : sess'[s].st = sess[s].st
    BY <1>6 DEF ReplaceSession, ShapeInv, TypeOK, Session
  <2> QED BY <1>6, <2>2 DEF ReplaceSession, EndedKept
<1>7. CASE RevokeSession(r)
  <2>1. e.sid \in Sids /\ sess[e.sid].st # "none"
    BY <1>0, <1>7 DEF RevokeSession, Known
  <2> QED BY <1>7, <2>1, SessionGone DEF RevokeSession, EndedKept
<1>8. CASE UNCHANGED <<sess, shared>>
  BY <1>8 DEF EndedKept
<1> QED BY <1>1, <1>2, <1>3, <1>4, <1>5, <1>6, <1>7, <1>8
        DEF Step, JoinLoad, AnswerLoad, AddSharedApp, SharedLive, SaveAppCode, TakeApps,
            EndLoad, EndGrant, ConsumeAppCode, ExchangeLoad, SaveRefresh, RefreshGrant,
            RefreshIssue, RevokeGrant, RevokeLoad, RevokeToken, LogoutLoad, storeVars

\* Nor does anything else that happens.
LEMMA NextEnded ==
    ASSUME ShapeInv, FreshInv, [Next]_vars
    PROVE  EndedKept
<1>1. ASSUME NEW r \in Reqs, Arrive(r) \/ Deliver(r) PROVE EndedKept
  BY <1>1 DEF Arrive, SignInReturns, AuthorizeArrives, CodePresented, TokenPresented,
     LogoutArrives, Deliver, storeVars, EndedKept
<1>2. CASE Tick \/ UNCHANGED vars
  BY <1>2 DEF Tick, storeVars, vars, EndedKept
<1> QED BY <1>1, <1>2, StepKeepsEnded DEF Next

\* A session or shared session that ended never comes back, for any number of
\* requests of any sort, whatever calls fail and however the clock runs: a sign-in,
\* an exchange or an answer that was under way when it ended cannot save it again
\* (ReplaceSession, ReplaceShared and CreateSession, store.go).
THEOREM EndedStaysEnded == Spec => StaysEnded
<1>1. Spec => [](ShapeInv /\ FreshInv)
  BY ShapeInit, ShapeStep, FreshInit, FreshStep, PTL DEF Spec
<1>2. ShapeInv /\ FreshInv /\ [Next]_vars => [EndedKept]_vars
  BY NextEnded
<1> QED BY <1>1, <1>2, PTL DEF Spec, StaysEnded, EndedKept

\* Whoever is about to make a session names a shared session of its person, as does
\* every session that was made.
Names(q, H) ==
    q.pc \in {"replace", "session"} => H[q.id].st # "none" /\ q.p = H[q.id].p

\* The inductive invariant of SharedSubject.
SubjectInv ==
    /\ \A r \in Reqs : Names(req[r], shared)
    /\ \A s \in Sids : sess[s].st # "none" =>
          /\ sess[s].id \in SignIns /\ shared[sess[s].id].st # "none"
          /\ sess[s].p = shared[sess[s].id].p

\* A shared session that was made keeps its person.
PersonKept ==
    \A i \in SignIns : shared[i].st # "none" =>
        shared'[i].st # "none" /\ shared'[i].p = shared[i].p

\* No session is made and none changes its person or its shared session.
NoneMade ==
    \A s \in Sids : /\ sess[s].st = "none" => sess'[s].st = "none"
                    /\ sess'[s].p = sess[s].p /\ sess'[s].id = sess[s].id

\* Of a step of r that makes no session it is enough to look at r.
LEMMA SubjectFrame ==
    ASSUME ShapeInv, SubjectInv, NEW r \in Reqs, \A x \in Reqs \ {r} : req'[x] = req[x],
           Names(req'[r], shared'), PersonKept, NoneMade
    PROVE  SubjectInv'
<1>1. ASSUME NEW x \in Reqs, x # r PROVE Names(req'[x], shared')
  <2>1. req[x].pc \in {"replace", "session"} => req[x].id \in SignIns
    BY Shape DEF Informed
  <2> QED BY <1>1, <2>1 DEF SubjectInv, Names, PersonKept
<1> QED BY <1>1 DEF SubjectInv, PersonKept, NoneMade

\* JoinLoad keeps each session with its person.
LEMMA JoinLoadSubject ==
    ASSUME ShapeInv, SubjectInv, NEW r \in Reqs, JoinLoad(r)
    PROVE  SubjectInv'
<1> DEFINE e == req[r]
<1>1. DOMAIN req = Reqs /\ {"pc", "p", "id"} \subseteq DOMAIN e
  BY Shape DEF ShapeInv, TypeOK, Request
<1>2. UNCHANGED <<shared, sess>>
  BY DEF JoinLoad, storeVars
<1>3. /\ \A x \in Reqs \ {r} : req'[x] = req[x]
      /\ \/ req'[r].pc \in {"endRecord", "create"}
         \/ /\ Holds(e.ck) /\ SamePerson(shared[e.ck.id], e)
            /\ req'[r].id = e.ck.id /\ req'[r].p = e.p
  BY <1>1 DEF JoinLoad
<1>4. Names(req'[r], shared)
  BY <1>3 DEF Names, Holds, LiveShared, SamePerson
<1>5. PersonKept /\ NoneMade
  BY <1>2 DEF PersonKept, NoneMade
<1> QED BY <1>2, <1>3, <1>4, <1>5, SubjectFrame

\* JoinReplace keeps each session with its person.
LEMMA JoinReplaceSubject ==
    ASSUME ShapeInv, SubjectInv, NEW r \in Reqs, JoinReplace(r)
    PROVE  SubjectInv'
<1> DEFINE e == req[r]
<1>1. DOMAIN req = Reqs /\ {"pc", "p", "id"} \subseteq DOMAIN e /\ e.pc = "replace"
  BY Shape DEF ShapeInv, TypeOK, Request, JoinReplace
<1>2. e.id \in SignIns /\ shared[e.id] \in Shared
  BY <1>1, Shape DEF Informed, ShapeInv, TypeOK
<1>3. \A i \in SignIns : shared'[i].st = shared[i].st /\ shared'[i].p = shared[i].p
  <2> DEFINE n == [shared[e.id] EXCEPT !.sec = r, !.ways = e.ways, !.ends = e.until]
  <2>1. n.st = shared[e.id].st /\ n.p = shared[e.id].p
    BY <1>2 DEF Shared
  <2> HIDE DEF n
  <2>2. shared' = [shared EXCEPT ![e.id] = n] \/ shared' = shared
    BY DEF JoinReplace, n
  <2> QED BY <1>2, <2>1, <2>2 DEF ShapeInv, TypeOK
<1>4. /\ \A x \in Reqs \ {r} : req'[x] = req[x]
      /\ req'[r].id = e.id /\ req'[r].p = e.p
  BY <1>1 DEF JoinReplace
<1>5. Names(req'[r], shared')
  BY <1>1, <1>2, <1>3, <1>4 DEF SubjectInv, Names
<1>6. PersonKept /\ NoneMade
  BY <1>3 DEF PersonKept, NoneMade, JoinReplace
<1> QED BY <1>4, <1>5, <1>6, SubjectFrame

\* JoinCreate keeps each session with its person.
LEMMA JoinCreateSubject ==
    ASSUME ShapeInv, FreshInv, SubjectInv, NEW r \in Reqs, JoinCreate(r)
    PROVE  SubjectInv'
<1> DEFINE e == req[r]
<1>1. DOMAIN req = Reqs /\ {"pc", "p", "id"} \subseteq DOMAIN e /\ DOMAIN shared = SignIns
  BY Shape DEF ShapeInv, TypeOK, Request
<1>2. r \in SignIns /\ shared[r].st = "none"
  BY Shape, RequestsAssumption
     DEF JoinCreate, Placed, Ends, EndsApps, Reqs, Sids, FreshInv, Known, BeforeShared
<1>3. /\ \A x \in Reqs \ {r} : req'[x] = req[x]
      /\ \/ req'[r].pc = "error"
         \/ /\ req'[r].id = r /\ req'[r].p = e.p
            /\ shared'[r].st = "live" /\ shared'[r].p = e.p
  <2> DEFINE end == e.at + SessionTTL
             n == [st |-> "live", sec |-> r, p |-> e.p,
                   ways |-> [m \in Methods |-> IF m = e.m THEN end ELSE 0], ends |-> end]
  <2>1. n.st = "live" /\ n.p = e.p
    OBVIOUS
  <2>2. CASE /\ shared' = [shared EXCEPT ![r] = n]
             /\ req' = [req EXCEPT ![r] = [@ EXCEPT !.pc = "session", !.id = r, !.until = end,
                                                    !.set = "give"]]
    <3> HIDE DEF n
    <3> QED BY <1>1, <1>2, <2>1, <2>2
  <2>3. CASE req' = [req EXCEPT ![r].pc = "error"]
    BY <1>1, <2>3
  <2> QED BY <2>2, <2>3 DEF JoinCreate
<1>4. \A i \in SignIns \ {r} : shared'[i] = shared[i]
  BY <1>1 DEF JoinCreate
<1>5. Names(req'[r], shared')
  BY <1>3 DEF Names
<1>6. PersonKept /\ NoneMade
  BY <1>2, <1>4 DEF PersonKept, NoneMade, JoinCreate
<1> QED BY <1>3, <1>5, <1>6, SubjectFrame

\* AnswerLoad keeps each session with its person.
LEMMA AnswerLoadSubject ==
    ASSUME ShapeInv, SubjectInv, NEW r \in Reqs, AnswerLoad(r)
    PROVE  SubjectInv'
<1> DEFINE e == req[r]
<1>1. DOMAIN req = Reqs /\ {"pc", "p", "id"} \subseteq DOMAIN e
  BY Shape DEF ShapeInv, TypeOK, Request
<1>2. UNCHANGED <<shared, sess>>
  BY DEF AnswerLoad, storeVars
<1>3. /\ \A x \in Reqs \ {r} : req'[x] = req[x]
      /\ \/ req'[r].pc = "page"
         \/ Holds(e.ck) /\ req'[r].id = e.ck.id /\ req'[r].p = shared[e.ck.id].p
  BY <1>1 DEF AnswerLoad
<1>4. Names(req'[r], shared)
  BY <1>3 DEF Names, Holds, LiveShared
<1>5. PersonKept /\ NoneMade
  BY <1>2 DEF PersonKept, NoneMade
<1> QED BY <1>2, <1>3, <1>4, <1>5, SubjectFrame

\* CreateSession keeps each session with its person.
LEMMA CreateSessionSubject ==
    ASSUME ShapeInv, SubjectInv, NEW r \in Reqs, CreateSession(r)
    PROVE  SubjectInv'
<1> DEFINE e == req[r]
<1>1. DOMAIN req = Reqs /\ {"pc", "p", "id"} \subseteq DOMAIN e /\ DOMAIN sess = Sids
  BY Shape DEF ShapeInv, TypeOK, Request
<1>2. /\ e.pc = "session" /\ e.id \in SignIns
      /\ shared[e.id].st # "none" /\ e.p = shared[e.id].p
  BY Shape DEF CreateSession, Informed, SubjectInv, Names
<1>3. /\ \A x \in Reqs \ {r} : req'[x] = req[x]
      /\ req'[r].pc \in {"record", "error"} /\ shared' = shared
  BY <1>1 DEF CreateSession
<1>4. \A s \in Sids : \/ sess'[s] = sess[s]
                      \/ sess'[s].id = e.id /\ sess'[s].p = e.p
  BY <1>1 DEF CreateSession
<1>5. \A x \in Reqs : Names(req'[x], shared')
  BY <1>3 DEF SubjectInv, Names
<1> QED BY <1>2, <1>3, <1>4, <1>5 DEF SubjectInv

\* The request goes on where sessions are not made.
LEMMA ElsewhereSubject ==
    ASSUME ShapeInv, SubjectInv, NEW r \in Reqs, \A x \in Reqs \ {r} : req'[x] = req[x],
           req'[r].pc \notin {"replace", "session"}, PersonKept, NoneMade
    PROVE  SubjectInv'
BY SubjectFrame DEF Names

\* Where a request goes after it has ended sessions.
LEMMA Returns ==
    ASSUME ShapeInv, NEW r \in Reqs, req[r].pc \in Ends
    PROVE  req[r].ret \in {"create", "code", "recheck", "page", "ended"}
<1>1. Placed(r, req[r])
  BY Shape
<1> QED BY <1>1 DEF Placed, Ends, EndsApps, Reqs, Sids

\* No store call breaks the tie between a session and its shared session.
LEMMA StepSubject ==
    ASSUME ShapeInv, FreshInv, SubjectInv, NEW r \in Reqs, Step(r)
    PROVE  SubjectInv'
<1> DEFINE e == req[r]
           Others == \A x \in Reqs \ {r} : req'[x] = req[x]
<1>0. DOMAIN req = Reqs /\ {"pc", "todo", "ret", "cur", "sid"} \subseteq DOMAIN e
  BY Fields
<1>1. CASE UNCHANGED <<shared, sess>> /\ Others /\ req'[r].pc \notin {"replace", "session"}
  BY <1>1, ElsewhereSubject DEF PersonKept, NoneMade
<1>2. CASE AddSharedApp(r)
  <2>1. CASE \E l \in {"recheck", "code"} : req' = [req EXCEPT ![r] = Ending(e, Earlier(r), l)]
    BY <1>0, <1>1, <1>2, <2>1 DEF Ending, AddSharedApp
  <2>2. CASE req' = [req EXCEPT ![r] = Ending(e, {r}, "page")]
    BY <1>0, <1>1, <1>2, <2>2 DEF Ending, AddSharedApp
  <2>3. CASE req' = [req EXCEPT ![r] = [e EXCEPT !.pc = "code"]]
    BY <1>0, <1>1, <1>2, <2>3 DEF AddSharedApp
  <2> QED BY <1>2, <2>1, <2>2, <2>3 DEF AddSharedApp, Unrecorded
<1>3. CASE SharedLive(r) \/ SaveAppCode(r)
  BY <1>0, <1>1, <1>3 DEF SharedLive, SaveAppCode, Ending, storeVars
<1>4. CASE EndRecord(r)
  <2>1. Others /\ req'[r].pc \notin {"replace", "session"}
    BY <1>0, <1>4, Returns DEF EndRecord, Ends
  <2>2. PersonKept /\ NoneMade
    <3> DEFINE n == [shared[e.id] EXCEPT !.st = "gone"]
    <3>1. e.id \in SignIns /\ shared[e.id] \in Shared
      BY <1>4, Shape DEF EndRecord, Informed, ShapeInv, TypeOK
    <3>2. n.st = "gone" /\ n.p = shared[e.id].p
      BY <3>1 DEF Shared
    <3> HIDE DEF n
    <3>3. (shared' = [shared EXCEPT ![e.id] = n] \/ shared' = shared) /\ sess' = sess
      BY <1>4 DEF EndRecord, n
    <3> QED BY <3>1, <3>2, <3>3 DEF PersonKept, NoneMade, ShapeInv, TypeOK
  <2> QED BY <2>1, <2>2, ElsewhereSubject
<1>5. CASE TakeApps(r)
  <2>1. e.ret \notin {"replace", "session"}
    BY <1>5, Returns DEF TakeApps, Ends
  <2> QED BY <1>0, <1>1, <1>5, <2>1 DEF TakeApps, Ending
<1>6. CASE EndLoad(r) \/ EndGrant(r)
  BY <1>0, <1>1, <1>6 DEF EndLoad, EndGrant, storeVars
<1>7. CASE EndDel(r)
  <2>1. e.ret \notin {"replace", "session"}
    BY <1>7, Returns DEF EndDel, Ends, EndsApps
  <2>2. Others /\ req'[r].pc \notin {"replace", "session"}
    BY <1>0, <1>7, <2>1 DEF EndDel, Ending
  <2>3. e.cur \in Sids /\ sess[e.cur].st # "none"
    BY <1>7 DEF EndDel, FreshInv, Known
  <2>4. PersonKept /\ NoneMade
    BY <1>7, <2>3, SessionGone DEF EndDel, PersonKept, NoneMade
  <2> QED BY <2>2, <2>4, ElsewhereSubject
<1>8. CASE ConsumeAppCode(r) \/ ExchangeLoad(r) \/ SaveRefresh(r)
  BY <1>0, <1>1, <1>8 DEF ConsumeAppCode, ExchangeLoad, SaveRefresh, Unavailable, storeVars
<1>9. CASE ReplaceSession(r)
  <2>1. Others /\ req'[r].pc \notin {"replace", "session"}
    BY <1>0, <1>9 DEF ReplaceSession, Unavailable
  <2>2. PersonKept /\ NoneMade
    BY <1>9 DEF ReplaceSession, PersonKept, NoneMade, ShapeInv, TypeOK, Session
  <2> QED BY <2>1, <2>2, ElsewhereSubject
<1>10. CASE RefreshIssue(r) \/ RevokeGrant(r) \/ RevokeToken(r) \/ LogoutLoad(r)
  BY <1>0, <1>1, <1>10
     DEF RefreshIssue, RevokeGrant, RevokeToken, LogoutLoad, Unavailable, storeVars
<1>11. CASE RefreshGrant(r)
  <2>1. CASE req' = [req EXCEPT ![r] = [@ EXCEPT !.pc = "renewSess", !.sid = grant[e.key].sid]]
    BY <1>0, <1>1, <1>11, <2>1 DEF RefreshGrant, storeVars
  <2>2. CASE \E l \in {"refused", "unavailable"} : req' = [req EXCEPT ![r].pc = l]
    BY <1>0, <1>1, <1>11, <2>2 DEF RefreshGrant, storeVars
  <2> QED BY <1>11, <2>1, <2>2 DEF RefreshGrant, Unavailable
<1>12. CASE RevokeLoad(r)
  <2> DEFINE s == grant[e.key].sid
  <2>1. CASE req' = [req EXCEPT ![r] = [@ EXCEPT !.pc = "delSess", !.sid = s, !.id = sess[s].id]]
    BY <1>0, <1>1, <1>12, <2>1 DEF RevokeLoad, storeVars
  <2>2. CASE \E l \in {"delGrant", "refused", "unavailable"} : req' = [req EXCEPT ![r].pc = l]
    BY <1>0, <1>1, <1>12, <2>2 DEF RevokeLoad, storeVars
  <2> QED BY <1>12, <2>1, <2>2 DEF RevokeLoad, Unavailable
<1>13. CASE RevokeSession(r)
  <2>1. Others /\ req'[r].pc \notin {"replace", "session"}
    BY <1>0, <1>13 DEF RevokeSession, Unavailable
  <2>2. e.sid \in Sids /\ sess[e.sid].st # "none"
    BY <1>13 DEF RevokeSession, FreshInv, Known
  <2>3. PersonKept /\ NoneMade
    BY <1>13, <2>2, SessionGone DEF RevokeSession, PersonKept, NoneMade
  <2> QED BY <2>1, <2>3, ElsewhereSubject
<1> QED BY <1>2, <1>3, <1>4, <1>5, <1>6, <1>7, <1>8, <1>9, <1>10, <1>11, <1>12, <1>13,
           JoinLoadSubject, JoinReplaceSubject, JoinCreateSubject, AnswerLoadSubject,
           CreateSessionSubject DEF Step

\* A request that arrives has made no session.
LEMMA ArriveSubject ==
    ASSUME ShapeInv, SubjectInv, NEW r \in Reqs, Arrive(r)
    PROVE  SubjectInv'
<1>1. UNCHANGED <<shared, sess>>
  BY DEF Arrive, SignInReturns, AuthorizeArrives, CodePresented, TokenPresented,
     LogoutArrives, storeVars
<1>2. /\ \A x \in Reqs \ {r} : req'[x] = req[x]
      /\ req'[r].pc \notin {"replace", "session"}
  BY Fields DEF Arrive, SignInReturns, AuthorizeArrives, CodePresented, TokenPresented,
     LogoutArrives
<1> QED BY <1>1, <1>2, ElsewhereSubject DEF PersonKept, NoneMade

\* A request that has its answer makes none.
LEMMA DeliverSubject ==
    ASSUME ShapeInv, SubjectInv, NEW r \in Reqs, Deliver(r)
    PROVE  SubjectInv'
<1>1. UNCHANGED <<shared, sess>>
  BY DEF Deliver, storeVars
<1>2. /\ \A x \in Reqs \ {r} : req'[x] = req[x]
      /\ req'[r].pc \notin {"replace", "session"}
  BY Fields DEF Deliver, Final
<1> QED BY <1>1, <1>2, ElsewhereSubject DEF PersonKept, NoneMade

\* The tie is inductive, given what was made.
LEMMA SubjectStep == ShapeInv /\ FreshInv /\ SubjectInv /\ [Next]_vars => SubjectInv'
<1> SUFFICES ASSUME ShapeInv, FreshInv, SubjectInv, [Next]_vars PROVE SubjectInv'
  OBVIOUS
<1>1. CASE UNCHANGED <<shared, sess, req>>
  BY <1>1 DEF SubjectInv, Names
<1>2. CASE Tick \/ UNCHANGED vars
  BY <1>1, <1>2 DEF Tick, vars, storeVars
<1> QED BY <1>2, ArriveSubject, StepSubject, DeliverSubject DEF Next

\* Every session is of the person of the shared session it was signed in under,
\* whoever signs in in the browser and however the requests interleave (joinShared,
\* answerFromShared).
THEOREM OnePersonPerBrowser == Spec => []SharedSubject
<1>1. Init => SubjectInv
  BY DEF Init, Blank, SubjectInv, Names
<1>2. Spec => []SubjectInv
  BY <1>1, ShapeInit, ShapeStep, FreshInit, FreshStep, SubjectStep, PTL DEF Spec
<1>3. SubjectInv => SharedSubject
  BY DEF SubjectInv, SharedSubject
<1> QED BY <1>2, <1>3, PTL

-----------------------------------------------------------------------------
(* The tokens of a code exchange.                                           *)

\* The exchange has used up its code, and has not been refused.
HasSpent(q) == q.pc \in {"codeSess", "saveGrant", "bind", "issued"}

\* A code is used up by one exchange, whose grant and whose session's key are of
\* the session it was issued for.
ExchangedInv ==
    /\ \A s \in Sids : code[s] # "none" => req[s].pc = "coded"
    /\ \A k \in Exchanges : HasSpent(req[k]) => code[req[k].sid] = "spent"
    /\ \A k, l \in Exchanges :
           HasSpent(req[k]) /\ HasSpent(req[l]) /\ req[k].sid = req[l].sid => k = l
    /\ \A k \in Exchanges : grant[k].st # "none" =>
           /\ req[k].pc \in {"bind", "issued", "refused", "unavailable"}
           /\ grant[k].sid = req[k].sid
    /\ \A k \in Exchanges : req[k].pc = "issued" => grant[k].st # "none"
    /\ \A s \in Sids : sess[s].key # None =>
           req[sess[s].key].pc = "issued" /\ req[sess[s].key].sid = s

\* No grant is made, and none changes its session or comes back.
GrantsSame ==
    \A k \in Exchanges : /\ grant'[k].sid = grant[k].sid
                         /\ grant[k].st = "none" <=> grant'[k].st = "none"
                         /\ grant[k].st = "gone" => grant'[k].st = "gone"

\* No session is given a key.
KeysSame == \A s \in Sids : sess'[s].key \in {sess[s].key, None}

\* Only request r moves, and an answered one only delivers its answer.
Moves(r) ==
    /\ \A x \in Reqs \ {r} : req'[x] = req[x]
    /\ req[r].pc \in Final =>
           /\ req'[r].pc = req[r].pc /\ req'[r].sid = req[r].sid
           /\ req'[r].key = req[r].key /\ req'[r].good = req[r].good
           /\ req'[r].todo = req[r].todo

\* Of a step of a request that exchanges no code it is enough that it adds no
\* code, no grant and no key.
LEMMA ExchangedFrame ==
    ASSUME ShapeInv, ExchangedInv, NEW r \in Reqs \ Exchanges, Moves(r),
           UNCHANGED code, GrantsSame, KeysSame
    PROVE  ExchangedInv'
<1>1. \A k \in Exchanges : req'[k] = req[k]
  BY RequestsAssumption DEF Moves, Reqs
<1>2. \A s \in Sids : req[s].pc = "coded" => req'[s].pc = "coded"
  BY DEF Moves, Final, Reqs
<1>3. \A s \in Sids : sess[s].key \in Exchanges \cup {None}
  BY DEF ShapeInv, TypeOK, Session
<1> QED BY <1>1, <1>2, <1>3 DEF ExchangedInv, GrantsSame, KeysSame, HasSpent

\* Every action is of one request, and an answered one takes no further step.
LEMMA StepMoves ==
    ASSUME ShapeInv, NEW r \in Reqs, Step(r)
    PROVE  Moves(r) /\ req[r].pc \notin Final \cup {"idle"}
<1>0. DOMAIN req = Reqs
  BY Fields
<1>1. \A x \in Reqs \ {r} : req'[x] = req[x]
  <2>1. CASE AddSharedApp(r) \/ EndDel(r) \/ TakeApps(r) \/ SharedLive(r)
    <3>1. PICK q : req' = [req EXCEPT ![r] = q]
      BY <2>1 DEF AddSharedApp, EndDel, TakeApps, SharedLive
    <3> QED BY <1>0, <3>1
  <2>2. CASE JoinLoad(r) \/ JoinReplace(r) \/ JoinCreate(r) \/ AnswerLoad(r) \/ CreateSession(r)
    BY <1>0, <2>2 DEF JoinLoad, JoinReplace, JoinCreate, AnswerLoad, CreateSession
  <2>3. CASE SaveAppCode(r) \/ EndRecord(r) \/ EndLoad(r) \/ EndGrant(r) \/ ConsumeAppCode(r)
             \/ ExchangeLoad(r) \/ LogoutLoad(r)
    BY <1>0, <2>3 DEF SaveAppCode, EndRecord, EndLoad, EndGrant, ConsumeAppCode, ExchangeLoad,
       LogoutLoad
  <2>4. CASE SaveRefresh(r) \/ ReplaceSession(r) \/ RefreshGrant(r) \/ RefreshIssue(r)
             \/ RevokeGrant(r) \/ RevokeLoad(r) \/ RevokeSession(r) \/ RevokeToken(r)
    BY <1>0, <2>4 DEF SaveRefresh, ReplaceSession, RefreshGrant, RefreshIssue, RevokeGrant,
       RevokeLoad, RevokeSession, RevokeToken, Unavailable
  <2> QED BY <2>1, <2>2, <2>3, <2>4 DEF Step
<1>2. req[r].pc \notin Final \cup {"idle"}
  BY DEF Step, JoinLoad, JoinReplace, JoinCreate, AnswerLoad, CreateSession, AddSharedApp,
     SharedLive, SaveAppCode, EndRecord, TakeApps, EndLoad, EndGrant, EndDel, ConsumeAppCode,
     ExchangeLoad, SaveRefresh, ReplaceSession, RefreshGrant, RefreshIssue, RevokeGrant,
     RevokeLoad, RevokeSession, RevokeToken, LogoutLoad, Final
<1> QED BY <1>1, <1>2 DEF Moves

\* A request that arrives had not begun, and one whose answer is delivered stays there.
LEMMA EdgeMoves ==
    ASSUME ShapeInv, NEW r \in Reqs, Arrive(r) \/ Deliver(r)
    PROVE  Moves(r) /\ UNCHANGED <<now, storeVars, outages>>
<1>0. DOMAIN req = Reqs /\ req[r] \in Request
  BY Fields, Shape
<1>1. CASE Arrive(r)
  <2>1. req[r].pc = "idle" /\ \A x \in Reqs \ {r} : req'[x] = req[x]
    BY <1>0, <1>1 DEF Arrive, SignInReturns, AuthorizeArrives, CodePresented, TokenPresented,
       LogoutArrives
  <2> QED BY <1>1, <2>1 DEF Moves, Final, Arrive, SignInReturns, AuthorizeArrives,
       CodePresented, TokenPresented, LogoutArrives, storeVars
<1>2. CASE Deliver(r)
  <2>1. \A x \in Reqs \ {r} : req'[x] = req[x]
    BY <1>0, <1>2 DEF Deliver
  <2>2. /\ req'[r].pc = req[r].pc /\ req'[r].sid = req[r].sid
        /\ req'[r].key = req[r].key /\ req'[r].good = req[r].good
        /\ req'[r].todo = req[r].todo
    BY <1>0, <1>2 DEF Deliver, Request
  <2> QED BY <1>2, <2>1, <2>2 DEF Moves, Deliver, storeVars
<1> QED BY <1>1, <1>2

\* A code exchange takes four steps, and no other request takes them.
LEMMA ExchangeSteps ==
    ASSUME ShapeInv, NEW r \in Reqs, Step(r)
    PROVE  r \in Exchanges
           <=> ConsumeAppCode(r) \/ ExchangeLoad(r) \/ SaveRefresh(r) \/ ReplaceSession(r)
<1>1. Placed(r, req[r])
  BY Shape
<1>2. CASE r \in Exchanges
  BY <1>1, <1>2
     DEF Step, Placed, JoinLoad, JoinReplace, JoinCreate, AnswerLoad, CreateSession,
         AddSharedApp, SharedLive, SaveAppCode, EndRecord, TakeApps, EndLoad, EndGrant, EndDel,
         RefreshGrant, RefreshIssue, RevokeGrant, RevokeLoad, RevokeSession, RevokeToken,
         LogoutLoad
<1>3. CASE r \notin Exchanges
  BY <1>1, <1>3 DEF Placed, ConsumeAppCode, ExchangeLoad, SaveRefresh, ReplaceSession, Ends,
     EndsApps, Reqs, Sids
<1> QED BY <1>2, <1>3

\* What the other requests leave alone: of the codes only SaveAppCode adds one.
LEMMA OtherSteps ==
    ASSUME ShapeInv, FreshInv, NEW r \in Reqs \ Exchanges, Step(r)
    PROVE  /\ UNCHANGED code \/ SaveAppCode(r)
           /\ GrantsSame /\ KeysSame
<1> DEFINE e == req[r]
<1>0. /\ e \in Request /\ Placed(r, e) /\ Informed(r, e, grant) /\ Known(r, e, sess, shared)
      /\ ~(ConsumeAppCode(r) \/ ExchangeLoad(r) \/ SaveRefresh(r) \/ ReplaceSession(r))
  BY Shape, ExchangeSteps DEF FreshInv
<1>1. UNCHANGED code \/ SaveAppCode(r)
  BY <1>0 DEF Step, JoinLoad, JoinReplace, JoinCreate, AnswerLoad, CreateSession,
     AddSharedApp, SharedLive, EndRecord, TakeApps, EndLoad, EndGrant, EndDel,
     RefreshGrant, RefreshIssue, RevokeGrant, RevokeLoad, RevokeSession, RevokeToken,
     LogoutLoad, storeVars
<1>2. GrantsSame
  <2>1. CASE EndGrant(r) \/ RevokeToken(r)
    <3>1. e.key \in Exchanges /\ grant[e.key].st # "none"
      BY <1>0, <2>1 DEF EndGrant, RevokeToken, Informed
    <3>2. grant' = [grant EXCEPT ![e.key].st = "gone"] \/ grant' = grant
      BY <2>1 DEF EndGrant, RevokeToken
    <3> DEFINE n == [grant[e.key] EXCEPT !.st = "gone"]
    <3>3. n.sid = grant[e.key].sid /\ n.st = "gone"
      BY <3>1 DEF ShapeInv, TypeOK, Grant
    <3>4. /\ DOMAIN grant = Exchanges
          /\ grant' = [grant EXCEPT ![e.key] = n] \/ grant' = grant
      BY <3>2 DEF ShapeInv, TypeOK
    <3> HIDE DEF n
    <3> QED BY <3>1, <3>3, <3>4 DEF GrantsSame
  <2>2. CASE UNCHANGED grant
    BY <2>2 DEF GrantsSame
  <2> QED BY <1>0, <2>1, <2>2 DEF Step, JoinLoad, JoinReplace, JoinCreate, AnswerLoad,
     CreateSession, AddSharedApp, SharedLive, SaveAppCode, EndRecord, TakeApps, EndLoad, EndDel,
     RefreshGrant, RefreshIssue, RevokeGrant, RevokeLoad, RevokeSession, LogoutLoad, storeVars
<1>3. KeysSame
  <2>1. CASE EndDel(r) \/ RevokeSession(r)
    <3>1. PICK s \in Sids : sess' = [sess EXCEPT ![s].st = "gone"] \/ sess' = sess
      BY <1>0, <2>1 DEF EndDel, RevokeSession, Known
    <3> DEFINE n == [sess[s] EXCEPT !.st = "gone"]
    <3>2. n.key = sess[s].key
      BY DEF ShapeInv, TypeOK, Session
    <3>3. DOMAIN sess = Sids /\ (sess' = [sess EXCEPT ![s] = n] \/ sess' = sess)
      BY <3>1 DEF ShapeInv, TypeOK
    <3> HIDE DEF n
    <3> QED BY <3>2, <3>3 DEF KeysSame
  <2>2. CASE CreateSession(r)
    BY <2>2 DEF CreateSession, KeysSame, ShapeInv, TypeOK
  <2>3. CASE UNCHANGED sess
    BY <2>3 DEF KeysSame
  <2> QED BY <1>0, <2>1, <2>2, <2>3 DEF Step, JoinLoad, JoinReplace, JoinCreate, AnswerLoad,
     AddSharedApp, SharedLive, SaveAppCode, EndRecord, TakeApps, EndLoad, EndGrant,
     RefreshGrant, RefreshIssue, RevokeGrant, RevokeLoad, RevokeToken, LogoutLoad, storeVars
<1> QED BY <1>1, <1>2, <1>3

\* Of a step of an exchange that writes neither code nor grant nor key, it is enough
\* that it goes on with the code it had.
LEMMA ExchangeFrame ==
    ASSUME ShapeInv, ExchangedInv, NEW r \in Exchanges, Moves(r),
           UNCHANGED <<code, grant>>, KeysSame,
           HasSpent(req'[r]) => HasSpent(req[r]),
           req'[r].pc = "issued" => req[r].pc = "issued",
           req[r].pc # "idle" => req'[r].sid = req[r].sid,
           req[r].pc = "bind" => req'[r].pc \in {"bind", "refused", "unavailable"},
           req[r].pc = "idle" => req'[r].pc = "consume"
    PROVE  ExchangedInv'
<1>0. r \in Reqs /\ \A k \in Exchanges : k \in Reqs
  BY DEF Reqs
<1>1. \A s \in Sids : req'[s] = req[s]
  BY RequestsAssumption DEF Moves, Reqs
<1>2. \A s \in Sids : sess[s].key \in Exchanges \cup {None}
  BY DEF ShapeInv, TypeOK, Session
<1>3. HasSpent(req'[r]) => req'[r].sid = req[r].sid
  BY DEF HasSpent
<1>4. \A k \in Exchanges \ {r} : req'[k] = req[k]
  BY <1>0 DEF Moves
<1>5. grant[r].st # "none" =>
          req'[r].pc \in {"bind", "issued", "refused", "unavailable"} /\ req'[r].sid = req[r].sid
  BY <1>0 DEF ExchangedInv, Moves, Final
<1>6. req[r].pc = "issued" => req'[r].pc = "issued" /\ req'[r].sid = req[r].sid
  BY DEF Moves, Final
<1>7. \A k \in Exchanges : HasSpent(req'[k]) => HasSpent(req[k]) /\ req'[k].sid = req[k].sid
  BY <1>3, <1>4
<1>8. \A k \in Exchanges : grant[k].st # "none" =>
          req'[k].pc \in {"bind", "issued", "refused", "unavailable"} /\ grant[k].sid = req'[k].sid
  BY <1>4, <1>5 DEF ExchangedInv
<1>9. \A k \in Exchanges : req'[k].pc = "issued" => grant[k].st # "none"
  BY <1>4 DEF ExchangedInv
<1>10. \A s \in Sids : sess'[s].key # None =>
           req'[sess'[s].key].pc = "issued" /\ req'[sess'[s].key].sid = s
  BY <1>2, <1>4, <1>6, RequestsAssumption DEF ExchangedInv, KeysSame
<1> QED BY <1>1, <1>7, <1>8, <1>9, <1>10 DEF ExchangedInv

\* The code is used up: no other exchange has it, or ever will.
LEMMA ConsumeAppCodeExchanged ==
    ASSUME ShapeInv, ExchangedInv, NEW r \in Exchanges, Moves(r), ConsumeAppCode(r)
    PROVE  ExchangedInv'
<1> DEFINE e == req[r]
<1>0. r \in Reqs /\ e.pc = "consume" /\ e.sid \in Sids /\ DOMAIN code = Sids
  BY Shape DEF Reqs, ConsumeAppCode, Informed, ShapeInv, TypeOK
<1>1. UNCHANGED <<grant, sess>>
  BY DEF ConsumeAppCode
<1>2. req'[r].pc \in {"codeSess", "refused"} /\ req'[r].sid = e.sid
  BY <1>0, Fields DEF ConsumeAppCode
<1>3. CASE req'[r].pc = "refused" /\ UNCHANGED code
  BY <1>0, <1>1, <1>2, <1>3, ExchangeFrame DEF HasSpent, KeysSame
<1>4. CASE code[e.sid] = "saved" /\ code' = [code EXCEPT ![e.sid] = "spent"]
  <2>1. \A s \in Sids : req'[s] = req[s]
    BY RequestsAssumption DEF Moves, Reqs
  <2>2. \A k \in Exchanges \ {r} : req'[k] = req[k]
    BY DEF Moves, Reqs
  <2>3. \A k \in Exchanges \ {r} : HasSpent(req[k]) => req[k].sid # e.sid
    BY <1>4 DEF ExchangedInv
  <2>4. grant[r].st = "none" /\ \A s \in Sids : sess[s].key # r
    BY <1>0, RequestsAssumption DEF ExchangedInv, Reqs
  <2>5. \A s \in Sids : code'[s] = IF s = e.sid THEN "spent" ELSE code[s]
    BY <1>0, <1>4
  <2>6. \A s \in Sids : sess[s].key \in Exchanges \cup {None}
    BY DEF ShapeInv, TypeOK, Session
  <2>7. \A s \in Sids : code'[s] # "none" => req'[s].pc = "coded"
    BY <1>4, <2>1, <2>5 DEF ExchangedInv
  <2>8. \A k \in Exchanges : HasSpent(req'[k]) => code'[req'[k].sid] = "spent"
    <3>1. \A k \in Exchanges : HasSpent(req[k]) => req[k].sid \in Sids
      BY Shape DEF HasSpent, Informed, Reqs
    <3> QED BY <1>0, <1>2, <2>2, <2>5, <3>1 DEF ExchangedInv
  <2>9. \A k, l \in Exchanges :
            HasSpent(req'[k]) /\ HasSpent(req'[l]) /\ req'[k].sid = req'[l].sid => k = l
    BY <1>2, <2>2, <2>3 DEF ExchangedInv
  <2>10. /\ \A k \in Exchanges : grant[k].st # "none" =>
               /\ req'[k].pc \in {"bind", "issued", "refused", "unavailable"}
               /\ grant[k].sid = req'[k].sid
         /\ \A k \in Exchanges : req'[k].pc = "issued" => grant[k].st # "none"
    BY <1>2, <2>2, <2>4 DEF ExchangedInv
  <2>11. \A s \in Sids : sess[s].key # None =>
             req'[sess[s].key].pc = "issued" /\ req'[sess[s].key].sid = s
    BY <2>2, <2>4, <2>6 DEF ExchangedInv
  <2> QED BY <1>1, <2>7, <2>8, <2>9, <2>10, <2>11 DEF ExchangedInv
<1> QED BY <1>0, <1>3, <1>4, Fields DEF ConsumeAppCode

\* The grant is of the session the code was issued for.
LEMMA SaveRefreshExchanged ==
    ASSUME ShapeInv, ExchangedInv, NEW r \in Exchanges, Moves(r), SaveRefresh(r)
    PROVE  ExchangedInv'
<1> DEFINE e == req[r]
<1>0. r \in Reqs /\ e.pc = "saveGrant" /\ DOMAIN grant = Exchanges
  BY DEF Reqs, SaveRefresh, ShapeInv, TypeOK
<1>1. UNCHANGED <<code, sess>> /\ KeysSame
  BY DEF SaveRefresh, KeysSame
<1>2. CASE UNCHANGED grant /\ req'[r].pc \in {"refused", "unavailable"} /\ req'[r].sid = e.sid
  BY <1>0, <1>1, <1>2, ExchangeFrame DEF HasSpent
<1>3. CASE /\ grant' = [grant EXCEPT ![r] = [st |-> "live", sid |-> e.sid]]
           /\ req'[r].pc = "bind" /\ req'[r].sid = e.sid
  <2>1. \A s \in Sids : req'[s] = req[s]
    BY RequestsAssumption DEF Moves, Reqs
  <2>2. \A k \in Exchanges \ {r} : req'[k] = req[k] /\ grant'[k] = grant[k]
    BY <1>0, <1>3 DEF Moves, Reqs
  <2>3. HasSpent(req[r]) /\ grant'[r].sid = e.sid /\ grant'[r].st = "live"
    BY <1>0, <1>3 DEF HasSpent
  <2>4. \A s \in Sids : sess[s].key \in Exchanges \cup {None} /\ sess[s].key # r
    BY <1>0, RequestsAssumption DEF ShapeInv, TypeOK, Session, ExchangedInv, Reqs
  <2>5. \A k \in Exchanges : /\ HasSpent(req'[k]) <=> HasSpent(req[k])
                             /\ req'[k].sid = req[k].sid
    BY <1>3, <2>2, <2>3 DEF HasSpent
  <2>6. \A k \in Exchanges : grant'[k].st # "none" =>
            req'[k].pc \in {"bind", "issued", "refused", "unavailable"} /\ grant'[k].sid = req'[k].sid
    BY <1>3, <2>2, <2>3 DEF ExchangedInv
  <2>7. \A k \in Exchanges : req'[k].pc = "issued" => grant'[k].st # "none"
    BY <1>3, <2>2, <2>3 DEF ExchangedInv
  <2>8. \A s \in Sids : sess[s].key # None =>
             req'[sess[s].key].pc = "issued" /\ req'[sess[s].key].sid = s
    BY <2>2, <2>4 DEF ExchangedInv
  <2> QED BY <1>1, <2>1, <2>5, <2>6, <2>7, <2>8 DEF ExchangedInv
<1> QED BY <1>0, <1>2, <1>3, Fields DEF SaveRefresh, Unavailable

\* What ReplaceSession writes.
LEMMA Bound ==
    ASSUME ShapeInv, NEW r \in Exchanges, ReplaceSession(r)
    PROVE  /\ req[r].pc = "bind" /\ req[r].sid \in Sids /\ UNCHANGED <<now, code, grant>>
           /\ req'[r].sid = req[r].sid
           /\ \/ /\ LiveSession(req[r].sid) /\ req'[r].pc = "issued"
                 /\ \A s \in Sids : sess'[s].key = IF s = req[r].sid THEN r ELSE sess[s].key
              \/ req'[r].pc \in {"refused", "unavailable"} /\ UNCHANGED sess
           /\ \A s \in Sids : sess'[s].st = sess[s].st /\ sess'[s].ends = sess[s].ends
<1> DEFINE e == req[r]
           n == [sess[e.sid] EXCEPT !.key = r]
<1>1. r \in Reqs /\ e.pc = "bind" /\ e.sid \in Sids
  BY Shape DEF Reqs, ReplaceSession, Informed
<1>2. n.key = r /\ n.st = sess[e.sid].st /\ n.ends = sess[e.sid].ends
  BY <1>1 DEF ShapeInv, TypeOK, Session
<1>3. DOMAIN req = Reqs /\ {"pc", "sid"} \subseteq DOMAIN e /\ DOMAIN sess = Sids
  BY <1>1, Fields DEF ShapeInv, TypeOK
<1>4. CASE LiveSession(e.sid) /\ sess' = [sess EXCEPT ![e.sid].key = r]
           /\ req' = [req EXCEPT ![r].pc = "issued"]
  <2>1. sess' = [sess EXCEPT ![e.sid] = n]
    BY <1>4
  <2> HIDE DEF n
  <2>2. \A s \in Sids : sess'[s] = IF s = e.sid THEN n ELSE sess[s]
    BY <1>1, <1>3, <2>1
  <2>3. req'[r].pc = "issued" /\ req'[r].sid = e.sid
    BY <1>1, <1>3, <1>4
  <2> QED BY <1>1, <1>2, <1>4, <2>2, <2>3 DEF ReplaceSession
<1>5. CASE UNCHANGED sess /\ \E l \in {"refused", "unavailable"} : req' = [req EXCEPT ![r].pc = l]
  BY <1>1, <1>3, <1>5 DEF ReplaceSession
<1> QED BY <1>4, <1>5 DEF ReplaceSession, Unavailable

\* The key is of the exchange of the session's code.
LEMMA ReplaceSessionExchanged ==
    ASSUME ShapeInv, ExchangedInv, NEW r \in Exchanges, Moves(r), ReplaceSession(r)
    PROVE  ExchangedInv'
<1> DEFINE e == req[r]
<1>0. /\ r \in Reqs /\ e.pc = "bind" /\ e.sid \in Sids /\ UNCHANGED <<code, grant>>
      /\ req'[r].sid = e.sid /\ grant[r].st # "none"
  BY Bound, Shape DEF Reqs, Informed
<1>1. CASE req'[r].pc \in {"refused", "unavailable"} /\ UNCHANGED sess
  BY <1>0, <1>1, ExchangeFrame DEF HasSpent, KeysSame
<1>2. CASE req'[r].pc = "issued"
  <2>1. \A s \in Sids : sess'[s].key = IF s = e.sid THEN r ELSE sess[s].key
    BY <1>2, Bound
  <2>2. \A s \in Sids : req'[s] = req[s]
    BY RequestsAssumption DEF Moves, Reqs
  <2>3. \A k \in Exchanges \ {r} : req'[k] = req[k]
    BY DEF Moves, Reqs
  <2>4. HasSpent(req[r]) /\ HasSpent(req'[r])
    BY <1>0, <1>2 DEF HasSpent
  <2>5. \A k \in Exchanges : /\ HasSpent(req'[k]) <=> HasSpent(req[k])
                             /\ req'[k].sid = req[k].sid
    BY <1>0, <2>3, <2>4
  <2>6. \A k \in Exchanges : grant[k].st # "none" =>
            req'[k].pc \in {"bind", "issued", "refused", "unavailable"} /\ grant[k].sid = req'[k].sid
    BY <1>0, <1>2, <2>3 DEF ExchangedInv
  <2>7. \A k \in Exchanges : req'[k].pc = "issued" => grant[k].st # "none"
    BY <1>0, <2>3 DEF ExchangedInv
  <2>8. \A s \in Sids : sess[s].key \in Exchanges \cup {None}
    BY DEF ShapeInv, TypeOK, Session
  <2>9. \A s \in Sids : sess'[s].key # None =>
            req'[sess'[s].key].pc = "issued" /\ req'[sess'[s].key].sid = s
    BY <1>0, <1>2, <2>1, <2>3, <2>8 DEF ExchangedInv
  <2> QED BY <1>0, <2>2, <2>5, <2>6, <2>7, <2>9 DEF ExchangedInv
<1> QED BY <1>1, <1>2, Bound

\* A code is saved by the request that then answers it.
LEMMA SaveAppCodeExchanged ==
    ASSUME ShapeInv, ExchangedInv, NEW r \in Reqs \ Exchanges, Moves(r), SaveAppCode(r)
    PROVE  ExchangedInv'
<1> DEFINE e == req[r]
<1>0. r \in Sids /\ e.pc = "code" /\ DOMAIN code = Sids
  BY Shape DEF SaveAppCode, Placed, Reqs, Sids, Ends, EndsApps, ShapeInv, TypeOK
<1>1. UNCHANGED <<grant, sess>> /\ GrantsSame /\ KeysSame
  BY DEF SaveAppCode, GrantsSame, KeysSame
<1>2. CASE UNCHANGED code
  BY <1>1, <1>2, ExchangedFrame
<1>3. CASE code' = [code EXCEPT ![r] = "saved"] /\ req'[r].pc = "coded"
  <2>1. \A k \in Exchanges : req'[k] = req[k]
    BY DEF Moves, Reqs
  <2>2. code[r] = "none"
    BY <1>0 DEF ExchangedInv
  <2>3. \A s \in Sids \ {r} : code'[s] = code[s] /\ req'[s] = req[s]
    BY <1>0, <1>3 DEF Moves, Reqs
  <2>4. \A k \in Exchanges : HasSpent(req[k]) => req[k].sid \in Sids \ {r}
    BY <2>2, Shape DEF HasSpent, Informed, ExchangedInv, Reqs
  <2>5. \A s \in Sids : sess[s].key \in Exchanges \cup {None}
    BY DEF ShapeInv, TypeOK, Session
  <2> QED BY <1>1, <1>3, <2>1, <2>3, <2>4, <2>5 DEF ExchangedInv
<1> QED BY <1>0, <1>2, <1>3, Fields DEF SaveAppCode

\* A code is exchanged once: the rule is inductive.
LEMMA ExchangedStep == ShapeInv /\ FreshInv /\ ExchangedInv /\ [Next]_vars => ExchangedInv'
<1> SUFFICES ASSUME ShapeInv, FreshInv, ExchangedInv, [Next]_vars PROVE ExchangedInv'
  OBVIOUS
<1>1. CASE UNCHANGED <<req, storeVars>>
  BY <1>1 DEF storeVars, ExchangedInv, HasSpent
<1>2. ASSUME NEW r \in Reqs \ Exchanges, Step(r) PROVE ExchangedInv'
  BY <1>2, OtherSteps, StepMoves, ExchangedFrame, SaveAppCodeExchanged
<1>3. ASSUME NEW r \in Exchanges, Step(r) PROVE ExchangedInv'
  <2>1. r \in Reqs /\ Moves(r)
    BY <1>3, StepMoves DEF Reqs
  <2>2. CASE ExchangeLoad(r)
    <3>1. UNCHANGED <<code, grant, sess>> /\ KeysSame
      BY <2>2 DEF ExchangeLoad, storeVars, KeysSame
    <3>2. /\ req[r].pc = "codeSess" /\ req'[r].sid = req[r].sid
          /\ req'[r].pc \in {"saveGrant", "error", "refused"}
      BY <2>1, <2>2, Fields DEF ExchangeLoad
    <3> QED BY <2>1, <3>1, <3>2, ExchangeFrame DEF HasSpent
  <2> QED BY <1>3, <2>1, <2>2, ExchangeSteps, ConsumeAppCodeExchanged, SaveRefreshExchanged,
             ReplaceSessionExchanged
<1>4. ASSUME NEW r \in Reqs, Arrive(r) \/ Deliver(r) PROVE ExchangedInv'
  <2>1. Moves(r) /\ UNCHANGED <<code, grant, sess>> /\ GrantsSame /\ KeysSame
    BY <1>4, EdgeMoves DEF storeVars, GrantsSame, KeysSame
  <2>2. CASE r \notin Exchanges
    BY <2>1, <2>2, ExchangedFrame
  <2>3. CASE r \in Exchanges /\ Arrive(r)
    <3>1. PICK s \in Sids, good \in BOOLEAN : CodePresented(r, s, good)
      BY <2>3, RequestsAssumption DEF Arrive, Sids
    <3>2. req[r].pc = "idle" /\ req'[r].pc = "consume"
      BY <3>1, Fields DEF CodePresented
    <3> QED BY <2>1, <2>3, <3>2, ExchangeFrame DEF HasSpent
  <2>4. CASE r \in Exchanges /\ Deliver(r)
    <3>1. req[r].pc \in Final
      BY <2>4 DEF Deliver
    <3>2. req[r].pc # "idle" /\ req[r].pc # "bind"
      BY <3>1 DEF Final
    <3> QED BY <2>1, <2>4, <3>1, <3>2, ExchangeFrame DEF HasSpent, Moves
  <2> QED BY <1>4, <2>2, <2>3, <2>4
<1> QED BY <1>1, <1>2, <1>3, <1>4 DEF Next, Tick, vars, storeVars

\* No code has been saved.
LEMMA ExchangedInit == Init => ExchangedInv
<1> SUFFICES ASSUME Init PROVE ExchangedInv
  OBVIOUS
<1>1. \A x \in Reqs : req[x].pc = "idle"
  BY DEF Init, Blank
<1>2. Exchanges \subseteq Reqs
  BY DEF Reqs
<1>3. \A k \in Exchanges : grant[k].st = "none" /\ ~HasSpent(req[k]) /\ req[k].pc # "issued"
  BY <1>1, <1>2 DEF Init, HasSpent
<1> QED BY <1>3 DEF Init, ExchangedInv

\* The session is live after the step.
LiveNext(s) == sess'[s].st = "live" /\ now' < sess'[s].ends

\* A session that was made keeps its shared session and its end, and comes back to
\* life no more.
SessionsKept ==
    \A s \in Sids : sess[s].st # "none" =>
        /\ sess'[s].st # "none" /\ sess'[s].ends = sess[s].ends /\ sess'[s].id = sess[s].id
        /\ LiveNext(s) => LiveSession(s)

\* Only the exchange of its code gives it a key.
KeysKept == \A s \in Sids : sess[s].st # "none" => sess'[s].key = sess[s].key

\* A session that goes keeps the rest.
LEMMA GoneKeeps ==
    ASSUME ShapeInv, NEW s \in Sids, UNCHANGED now,
           sess' = [sess EXCEPT ![s].st = "gone"] \/ sess' = sess
    PROVE  SessionsKept /\ KeysKept
<1> DEFINE n == [sess[s] EXCEPT !.st = "gone"]
<1>1. n.st = "gone" /\ n.ends = sess[s].ends /\ n.id = sess[s].id /\ n.key = sess[s].key
  BY DEF ShapeInv, TypeOK, Session
<1> HIDE DEF n
<1>2. DOMAIN sess = Sids /\ (sess' = [sess EXCEPT ![s] = n] \/ sess' = sess)
  BY DEF n, ShapeInv, TypeOK
<1> QED BY <1>1, <1>2 DEF SessionsKept, KeysKept, LiveSession, LiveNext

\* No step changes a session but to end it or to bind it to its key.
LEMMA StepSessions ==
    ASSUME ShapeInv, FreshInv, NEW r \in Reqs, Step(r)
    PROVE  SessionsKept /\ (KeysKept \/ ReplaceSession(r))
<1> DEFINE e == req[r]
<1>0. Placed(r, e) /\ Informed(r, e, grant) /\ Known(r, e, sess, shared) /\ UNCHANGED now
  BY Shape DEF FreshInv, Step, JoinLoad, JoinReplace, JoinCreate, AnswerLoad, CreateSession,
     AddSharedApp, SharedLive, SaveAppCode, EndRecord, TakeApps, EndLoad, EndGrant, EndDel,
     ConsumeAppCode, ExchangeLoad, SaveRefresh, ReplaceSession, RefreshGrant, RefreshIssue,
     RevokeGrant, RevokeLoad, RevokeSession, RevokeToken, LogoutLoad
<1>1. CASE CreateSession(r)
  <2>1. r \in Sids /\ sess[r].st = "none"
    BY <1>0, <1>1, RequestsAssumption
       DEF CreateSession, Placed, Ends, EndsApps, Reqs, Sids, Known, BeforeSession
  <2>2. \A s \in Sids : sess[s].st # "none" => sess'[s] = sess[s]
    BY <1>1, <2>1 DEF CreateSession, ShapeInv, TypeOK
  <2> QED BY <1>0, <2>2 DEF SessionsKept, KeysKept, LiveSession, LiveNext
<1>2. CASE EndDel(r) \/ RevokeSession(r)
  <2>1. PICK s \in Sids : sess' = [sess EXCEPT ![s].st = "gone"] \/ sess' = sess
    BY <1>0, <1>2 DEF EndDel, RevokeSession, Known
  <2> QED BY <1>0, <2>1, GoneKeeps
<1>3. CASE ReplaceSession(r)
  <2>1. r \in Exchanges
    BY <1>3, ExchangeSteps
  <2>2. \A s \in Sids : sess'[s].st = sess[s].st /\ sess'[s].ends = sess[s].ends
    BY <1>3, <2>1, Bound
  <2>3. \A s \in Sids : sess'[s].id = sess[s].id
    BY <1>3 DEF ReplaceSession, ShapeInv, TypeOK, Session
  <2> QED BY <1>0, <1>3, <2>2, <2>3 DEF SessionsKept, LiveSession, LiveNext
<1>4. CASE UNCHANGED sess
  BY <1>0, <1>4 DEF SessionsKept, KeysKept, LiveSession, LiveNext
<1> QED BY <1>1, <1>2, <1>3, <1>4
        DEF Step, JoinLoad, JoinReplace, JoinCreate, AnswerLoad, AddSharedApp, SharedLive,
            SaveAppCode, EndRecord, TakeApps, EndLoad, EndGrant, ConsumeAppCode, ExchangeLoad,
            SaveRefresh, RefreshGrant, RefreshIssue, RevokeGrant, RevokeLoad, RevokeToken,
            LogoutLoad, storeVars

\* Nor does the clock bring one back.
LEMMA NextSessions ==
    ASSUME ShapeInv, FreshInv, [Next]_vars
    PROVE  SessionsKept
<1>1. CASE Tick
  <2>1. now \in Nat /\ now' = now + 1 /\ sess' = sess
    BY <1>1 DEF Tick, storeVars, ShapeInv, TypeOK
  <2>2. \A s \in Sids : sess[s].ends \in Nat
    BY DEF ShapeInv, TypeOK, Session
  <2> QED BY <2>1, <2>2 DEF SessionsKept, LiveSession, LiveNext
<1>2. CASE UNCHANGED <<now, sess>>
  BY <1>2 DEF SessionsKept, LiveSession, LiveNext
<1>3. ASSUME NEW r \in Reqs, Arrive(r) \/ Deliver(r) PROVE SessionsKept
  BY <1>2, <1>3, EdgeMoves DEF storeVars
<1> QED BY <1>1, <1>2, <1>3, StepSessions DEF Next, vars

\* The key of a live session is its one exchange's: the rule of its code leaves no
\* other to overwrite it.
LEMMA NamesStep ==
    ASSUME ShapeInv, FreshInv, ExchangedInv, SessionNamesItsGrant, [Next]_vars
    PROVE  SessionNamesItsGrant'
<1>0. /\ \A k \in Exchanges : req[k].pc = "issued" =>
             req[k].sid \in Sids /\ sess[req[k].sid].st # "none"
      /\ Exchanges \subseteq Reqs
  BY Shape DEF Informed, FreshInv, Known, Reqs
<1>1. SessionsKept
  BY NextSessions
<1>2. ASSUME NEW r \in Reqs, Moves(r), KeysKept,
             r \in Exchanges /\ req'[r].pc = "issued" => req[r].pc = "issued"
      PROVE  SessionNamesItsGrant'
  <2>1. \A k \in Exchanges : req'[k].pc = "issued" =>
            req[k].pc = "issued" /\ req'[k].sid = req[k].sid
    BY <1>0, <1>2 DEF Moves, Final
  <2>2. \A k \in Exchanges : req'[k].pc = "issued" /\ LiveNext(req'[k].sid) =>
            sess'[req'[k].sid].key = k
    BY <1>0, <1>1, <1>2, <2>1 DEF SessionNamesItsGrant, SessionsKept, KeysKept
  <2> QED BY <2>2 DEF SessionNamesItsGrant, LiveSession, LiveNext
<1>3. ASSUME NEW r \in Reqs, Step(r) PROVE SessionNamesItsGrant'
  <2>0. Moves(r) /\ req[r].pc \notin Final
    BY <1>3, StepMoves
  <2>1. CASE ReplaceSession(r)
    <3>1. r \in Exchanges /\ HasSpent(req[r])
      BY <1>3, <2>1, ExchangeSteps DEF HasSpent, ReplaceSession
    <3>2. CASE req'[r].pc \in {"refused", "unavailable"} /\ UNCHANGED sess
      BY <1>2, <2>0, <3>2 DEF KeysKept
    <3>3. CASE req'[r].pc = "issued" /\ req'[r].sid = req[r].sid
               /\ \A s \in Sids : sess'[s].key = IF s = req[r].sid THEN r ELSE sess[s].key
      <4>1. \A k \in Exchanges \ {r} : req'[k] = req[k]
        BY <1>0, <2>0 DEF Moves
      <4>2. \A k \in Exchanges \ {r} : req[k].pc = "issued" => req[k].sid # req[r].sid
        BY <3>1 DEF ExchangedInv, HasSpent
      <4>3. \A k \in Exchanges \ {r} : req'[k].pc = "issued" /\ LiveNext(req'[k].sid) =>
                sess'[req'[k].sid].key = k
        BY <1>0, <1>1, <3>3, <4>1, <4>2 DEF SessionNamesItsGrant, SessionsKept
      <4>4. req'[r].sid \in Sids
        BY <2>1, <3>1, <3>3, Bound
      <4> QED BY <3>3, <4>3, <4>4 DEF SessionNamesItsGrant, LiveSession, LiveNext
    <3> QED BY <2>1, <3>1, <3>2, <3>3, Bound
  <2>2. CASE ~ReplaceSession(r)
    <3>1. r \in Exchanges => req'[r].pc # "issued"
      <4>1. r \in Exchanges => ConsumeAppCode(r) \/ ExchangeLoad(r) \/ SaveRefresh(r)
        BY <1>3, <2>2, ExchangeSteps
      <4> QED BY <4>1, Fields DEF ConsumeAppCode, ExchangeLoad, SaveRefresh, Unavailable
    <3>2. KeysKept
      BY <1>3, <2>2, StepSessions
    <3> QED BY <1>2, <2>0, <3>1, <3>2
  <2> QED BY <2>1, <2>2
<1>4. ASSUME NEW r \in Reqs, Arrive(r) \/ Deliver(r) PROVE SessionNamesItsGrant'
  <2>1. Moves(r) /\ KeysKept
    BY <1>4, EdgeMoves DEF storeVars, KeysKept
  <2>2. r \in Exchanges /\ req'[r].pc = "issued" => req[r].pc = "issued"
    <3>1. CASE Deliver(r)
      BY <2>1, <3>1 DEF Deliver, Moves
    <3>2. CASE Arrive(r)
      BY <3>2, Fields DEF Arrive, SignInReturns, AuthorizeArrives, CodePresented,
         TokenPresented, LogoutArrives
    <3> QED BY <1>4, <3>1, <3>2
  <2> QED BY <1>2, <2>1, <2>2
<1>5. CASE UNCHANGED <<req, sess>>
  <2>1. \A k \in Exchanges : req[k].pc = "issued" =>
            (LiveNext(req[k].sid) => LiveSession(req[k].sid))
    BY <1>0, <1>1 DEF SessionsKept
  <2> QED BY <1>5, <2>1 DEF SessionNamesItsGrant, LiveSession, LiveNext
<1> QED BY <1>3, <1>4, <1>5 DEF Next, Tick, vars, storeVars

\* What the code exchanges keep, with the shape and what was made.
TokenInv == ShapeInv /\ FreshInv /\ ExchangedInv /\ SessionNamesItsGrant

LEMMA TokenInvHolds == Spec => []TokenInv
<1>1. Init => SessionNamesItsGrant
  <2> SUFFICES ASSUME Init PROVE SessionNamesItsGrant
    OBVIOUS
  <2>1. \A k \in Exchanges : req[k].pc # "issued"
    BY DEF Init, Blank, Reqs
  <2> QED BY <2>1 DEF SessionNamesItsGrant
<1> QED BY <1>1, ShapeInit, ShapeStep, FreshInit, FreshStep, ExchangedInit, ExchangedStep,
           NamesStep, PTL DEF Spec, TokenInv

\* A live session whose refresh token was answered names that token's grant, however
\* many exchanges present its code at once: ending the session finds the grant to
\* remove (ConsumeAppCode, ReplaceSession and endAppSession).
THEOREM NamesItsGrant == Spec => []SessionNamesItsGrant
<1>1. TokenInv => SessionNamesItsGrant
  BY DEF TokenInv
<1> QED BY <1>1, TokenInvHolds, PTL

-----------------------------------------------------------------------------
(* What a refused refresh means.                                            *)

\* An answered exchange stays answered, and its grant keeps its session and never
\* comes back.
IssuedKept ==
    \A k \in Exchanges : req[k].pc = "issued" =>
        /\ req'[k].pc = "issued" /\ req'[k].sid = req[k].sid
        /\ grant'[k].sid = grant[k].sid
        /\ grant[k].st = "gone" => grant'[k].st = "gone"
        /\ grant'[k].st # "none"

LEMMA NextIssued ==
    ASSUME TokenInv, [Next]_vars
    PROVE  IssuedKept
<1>0. ShapeInv /\ FreshInv /\ ExchangedInv /\ Exchanges \subseteq Reqs
  BY DEF TokenInv, Reqs
<1>1. \A k \in Exchanges : req[k].pc = "issued" => grant[k].st # "none"
  BY <1>0 DEF ExchangedInv
<1>2. ASSUME NEW r \in Reqs, Step(r) PROVE IssuedKept
  <2>1. \A k \in Exchanges : req[k].pc = "issued" =>
            k # r /\ req'[k].pc = "issued" /\ req'[k].sid = req[k].sid
    BY <1>0, <1>2, StepMoves DEF Moves, Final
  <2>2. CASE GrantsSame
    BY <1>1, <2>1, <2>2 DEF IssuedKept, GrantsSame
  <2>3. CASE r \in Exchanges
    <3>1. \A k \in Exchanges \ {r} : grant'[k] = grant[k]
      <4>1. ConsumeAppCode(r) \/ ExchangeLoad(r) \/ SaveRefresh(r) \/ ReplaceSession(r)
        BY <1>0, <1>2, <2>3, ExchangeSteps
      <4>2. grant' = grant \/ grant' = [grant EXCEPT ![r] = [st |-> "live", sid |-> req[r].sid]]
        BY <4>1 DEF ConsumeAppCode, ExchangeLoad, SaveRefresh, ReplaceSession, storeVars
      <4> QED BY <1>0, <4>2 DEF ShapeInv, TypeOK
    <3> QED BY <1>1, <2>1, <3>1 DEF IssuedKept
  <2> QED BY <1>0, <1>2, <2>2, <2>3, OtherSteps
<1>3. ASSUME NEW r \in Reqs, Arrive(r) \/ Deliver(r) PROVE IssuedKept
  <2>1. Moves(r) /\ UNCHANGED grant
    BY <1>0, <1>3, EdgeMoves DEF storeVars
  <2> QED BY <1>0, <1>1, <2>1 DEF IssuedKept, Moves, Final
<1>4. CASE UNCHANGED <<req, grant>>
  BY <1>1, <1>4 DEF IssuedKept
<1> QED BY <1>2, <1>3, <1>4 DEF Next, Tick, vars, storeVars

\* The clock never goes back.
LEMMA NextClock ==
    ASSUME ShapeInv, [Next]_vars
    PROVE  now \in Nat /\ now' \in Nat /\ now' >= now
<1>0. now \in Nat
  BY DEF ShapeInv, TypeOK
<1>1. ASSUME NEW r \in Reqs, Step(r) PROVE UNCHANGED now
  BY <1>1 DEF Step, JoinLoad, JoinReplace, JoinCreate, AnswerLoad, CreateSession,
     AddSharedApp, SharedLive, SaveAppCode, EndRecord, TakeApps, EndLoad, EndGrant, EndDel,
     ConsumeAppCode, ExchangeLoad, SaveRefresh, ReplaceSession, RefreshGrant, RefreshIssue,
     RevokeGrant, RevokeLoad, RevokeSession, RevokeToken, LogoutLoad
<1>2. now' = now \/ now' = now + 1
  BY <1>1, EdgeMoves DEF Next, Tick, vars
<1> QED BY <1>0, <1>2

\* A refresh presents an answered token and goes on with its grant's session.
RefreshKnown(r) ==
    LET q == req[r] IN
    /\ q.pc # "idle" => q.key \in Exchanges /\ req[q.key].pc = "issued"
    /\ q.pc = "renewSess" => q.sid = req[q.key].sid

\* The grant of the token or its session is gone.
NotServed(k) == ~LiveGrant(k) \/ ~LiveSession(grant[k].sid)

\* The inductive invariant of OutageIsNoRefusal.
RefreshInv ==
    \A r \in Refreshes :
        RefreshKnown(r) /\ (req[r].pc = "refused" /\ req[r].good => NotServed(req[r].key))

\* What is not served is not served later either.
LEMMA NotServedKept ==
    ASSUME TokenInv, [Next]_vars, NEW k \in Exchanges, req[k].pc = "issued", NotServed(k)
    PROVE  NotServed(k)'
<1>1. grant[k].sid \in Sids /\ sess[grant[k].sid].st # "none" /\ grant[k].st # "none"
      /\ grant[k].st \in {"none", "live", "gone"}
  BY DEF TokenInv, ExchangedInv, ShapeInv, TypeOK, Grant, Status, GrantsNamed, FreshInv, StoreKnown
<1>2. /\ grant'[k].sid = grant[k].sid
      /\ grant[k].st = "gone" => grant'[k].st = "gone"
  BY NextIssued DEF IssuedKept
<1>3. SessionsKept
  BY NextSessions DEF TokenInv
<1>4. now \in Nat /\ now' \in Nat /\ now' >= now
  BY NextClock DEF TokenInv
<1>5. PICK s : s = grant[k].sid
  OBVIOUS
<1>6. sess[s].ends \in Nat /\ sess'[s].ends = sess[s].ends /\ (LiveNext(s) => LiveSession(s))
  BY <1>1, <1>3, <1>5 DEF SessionsKept, TokenInv, ShapeInv, TypeOK, Session
<1> QED BY <1>1, <1>2, <1>4, <1>5, <1>6 DEF NotServed, LiveGrant, LiveSession, LiveNext

\* A refresh takes two steps.
LEMMA RefreshSteps ==
    ASSUME ShapeInv, NEW r \in Refreshes, Step(r)
    PROVE  RefreshGrant(r) \/ RefreshIssue(r)
<1>1. Placed(r, req[r]) /\ r \in Reqs
  BY Shape DEF Reqs
<1> QED BY <1>1, RequestsAssumption
   DEF Step, Placed, JoinLoad, JoinReplace, JoinCreate, AnswerLoad, CreateSession,
       AddSharedApp, SharedLive, SaveAppCode, EndRecord, TakeApps, EndLoad, EndGrant, EndDel,
       ConsumeAppCode, ExchangeLoad, SaveRefresh, ReplaceSession, RevokeGrant, RevokeLoad,
       RevokeSession, RevokeToken, LogoutLoad, Reqs, Sids

\* A refusal is of a grant or a session that is gone: a live session's key is there,
\* since it names its grant.
LEMMA RefreshStepKnown ==
    ASSUME TokenInv, RefreshInv, NEW r \in Refreshes, Step(r), [Next]_vars
    PROVE  /\ RefreshKnown(r)'
           /\ req'[r].pc = "refused" /\ req'[r].good => NotServed(req[r].key)
           /\ req'[r].key = req[r].key
<1> DEFINE e == req[r]
<1>0. r \in Reqs /\ DOMAIN req = Reqs /\ e \in Request /\ ShapeInv
  BY Shape, Fields DEF TokenInv, Reqs
<1>1. PICK k \in Exchanges : k = e.key /\ req[k].pc = "issued"
  BY <1>0, StepMoves DEF RefreshInv, RefreshKnown, TokenInv
<1>2. req'[k].pc = "issued" /\ req'[k].sid = req[k].sid
  BY <1>1, NextIssued DEF IssuedKept
<1>3. grant[k].sid = req[k].sid /\ (LiveSession(req[k].sid) => sess[req[k].sid].key = k)
  BY <1>1 DEF TokenInv, ExchangedInv, SessionNamesItsGrant
<1>4. CASE RefreshGrant(r)
  <2>1. CASE req' = [req EXCEPT ![r] = [@ EXCEPT !.pc = "renewSess", !.sid = grant[e.key].sid]]
    <3>1. req'[r].pc = "renewSess" /\ req'[r].sid = req[k].sid /\ req'[r].key = k
      BY <1>0, <1>1, <1>3, <2>1 DEF Request
    <3> QED BY <1>1, <1>2, <3>1 DEF RefreshKnown
  <2>2. CASE ~(LiveGrant(k) /\ e.good) /\ req' = [req EXCEPT ![r].pc = "refused"]
    <3>1. req'[r].pc = "refused" /\ req'[r].good = e.good /\ req'[r].key = k
      BY <1>0, <1>1, <2>2 DEF Request
    <3> QED BY <1>1, <1>2, <2>2, <3>1 DEF RefreshKnown, NotServed
  <2>3. CASE req' = [req EXCEPT ![r].pc = "unavailable"]
    <3>1. req'[r].pc = "unavailable" /\ req'[r].key = k
      BY <1>0, <1>1, <2>3 DEF Request
    <3> QED BY <1>1, <1>2, <3>1 DEF RefreshKnown
  <2> QED BY <1>1, <1>4, <2>1, <2>2, <2>3 DEF RefreshGrant, Unavailable
<1>5. CASE RefreshIssue(r)
  <2>1. e.sid = req[k].sid
    BY <1>1, <1>5 DEF RefreshIssue, RefreshInv, RefreshKnown
  <2>2. CASE ~(LiveSession(e.sid) /\ sess[e.sid].key # None)
             /\ req' = [req EXCEPT ![r].pc = "refused"]
    <3>1. ~LiveSession(grant[k].sid)
      BY <1>1, <1>3, <2>1, <2>2, RequestsAssumption DEF Reqs
    <3>2. req'[r].pc = "refused" /\ req'[r].key = k
      BY <1>0, <1>1, <2>2 DEF Request
    <3> QED BY <1>1, <1>2, <3>1, <3>2 DEF RefreshKnown, NotServed
  <2>3. CASE \E l \in {"issued", "error", "unavailable"} : req' = [req EXCEPT ![r].pc = l]
    <3>1. req'[r].pc \in {"issued", "error", "unavailable"} /\ req'[r].key = k
      BY <1>0, <1>1, <2>3 DEF Request
    <3> QED BY <1>1, <1>2, <3>1 DEF RefreshKnown
  <2> QED BY <1>5, <2>2, <2>3 DEF RefreshIssue, Unavailable
<1> QED BY <1>0, <1>4, <1>5, RefreshSteps

\* Nothing another request does makes a refusal wrong.
LEMMA RefreshInvStep == TokenInv /\ RefreshInv /\ [Next]_vars => RefreshInv'
<1> SUFFICES ASSUME TokenInv, RefreshInv, [Next]_vars, NEW r \in Refreshes
             PROVE  (RefreshKnown(r) /\ (req[r].pc = "refused" /\ req[r].good => NotServed(req[r].key)))'
  BY DEF RefreshInv
<1>0. r \in Reqs /\ ShapeInv /\ RefreshKnown(r) /\ Exchanges \subseteq Reqs
      /\ (req[r].pc = "refused" /\ req[r].good => NotServed(req[r].key))
  BY DEF TokenInv, Reqs, RefreshInv
<1>1. ASSUME req'[r].pc = req[r].pc, req'[r].key = req[r].key, req'[r].sid = req[r].sid,
             req'[r].good = req[r].good
      PROVE  (RefreshKnown(r) /\ (req[r].pc = "refused" /\ req[r].good => NotServed(req[r].key)))'
  <2>1. RefreshKnown(r)'
    BY <1>0, <1>1, NextIssued DEF RefreshKnown, IssuedKept
  <2>2. ASSUME req'[r].pc = "refused", req'[r].good PROVE NotServed(req[r].key)'
    <3>1. PICK k \in Exchanges : k = req[r].key /\ req[k].pc = "issued"
      BY <1>0, <1>1, <2>2 DEF RefreshKnown
    <3>2. NotServed(k)'
      BY <1>0, <1>1, <2>2, <3>1, NotServedKept
    <3>3. (req[r].key)' = k
      BY <1>1, <3>1
    <3> QED BY <3>2, <3>3 DEF NotServed
  <2> QED BY <2>1, <2>2
<1>2. ASSUME Step(r)
      PROVE  (RefreshKnown(r) /\ (req[r].pc = "refused" /\ req[r].good => NotServed(req[r].key)))'
  <2>1. /\ RefreshKnown(r)'
        /\ req'[r].pc = "refused" /\ req'[r].good => NotServed(req[r].key)
        /\ req'[r].key = req[r].key
    BY <1>2, RefreshStepKnown
  <2>2. ASSUME req'[r].pc = "refused", req'[r].good PROVE NotServed(req[r].key)'
    <3>1. PICK k \in Exchanges : k = req[r].key /\ req[k].pc = "issued"
      BY <1>0, <1>2, StepMoves DEF RefreshKnown
    <3>2. NotServed(k)'
      BY <2>1, <2>2, <3>1, NotServedKept
    <3>3. (req[r].key)' = k
      BY <2>1, <3>1
    <3> QED BY <3>2, <3>3 DEF NotServed
  <2> QED BY <2>1, <2>2
<1>3. CASE Deliver(r)
  <2>1. Moves(r) /\ req[r].pc \in Final
    BY <1>0, <1>3, EdgeMoves DEF Deliver
  <2> QED BY <1>1, <2>1 DEF Moves
<1>4. CASE Arrive(r)
  <2>1. PICK k \in Exchanges, good \in BOOLEAN : TokenPresented(r, k, good)
    BY <1>4, RequestsAssumption DEF Arrive, Reqs, Sids
  <2>2. req'[r].pc = "grant" /\ req'[r].key = k /\ req[k].pc = "issued"
    BY <1>0, <2>1, Shape, Fields DEF TokenPresented, Request
  <2> QED BY <2>2, NextIssued DEF RefreshKnown, IssuedKept
<1>5. CASE req'[r] = req[r]
  BY <1>1, <1>5
<1>6. ASSUME NEW x \in Reqs, x # r, Arrive(x) \/ Step(x) \/ Deliver(x) PROVE req'[r] = req[r]
  BY <1>0, <1>6, StepMoves, EdgeMoves DEF Moves
<1> QED BY <1>2, <1>3, <1>4, <1>5, <1>6 DEF Next, Tick, vars

LEMMA RefreshInvInit == Init => RefreshInv
<1> SUFFICES ASSUME Init, NEW r \in Refreshes
             PROVE  RefreshKnown(r) /\ (req[r].pc = "refused" => NotServed(req[r].key))
  BY DEF RefreshInv
<1> QED BY DEF Init, Blank, RefreshKnown, Reqs

\* A refused refresh of the right caller means that the grant or its session is
\* gone, never that the store could not answer or that the code exchange had not yet
\* bound the session: a caller may end its own session on a refusal and keep it
\* through an outage (storeRefusal, refreshBoundSession).
THEOREM NoOutageRefuses == Spec => []OutageIsNoRefusal
<1>1. RefreshInv => OutageIsNoRefusal
  BY DEF RefreshInv, OutageIsNoRefusal, NotServed
<1> QED BY <1>1, TokenInvHolds, RefreshInvInit, RefreshInvStep, PTL DEF Spec

\* A request is ending sessions exactly while it has some left, the current one among
\* them, and the grant it removes is that session's.
Todo(q, Q) ==
    /\ q.pc \in EndsApps <=> q.todo # {}
    /\ q.pc \in {"endGrant", "endDel"} => q.cur \in q.todo
    /\ q.pc = "endGrant" => Q[q.key].pc = "issued" /\ Q[q.key].sid = q.cur

TodoInv == \A r \in Reqs : Todo(req[r], req)

\* Where a request that goes on to end sessions is.
LEMMA EndingTodo ==
    ASSUME ShapeInv, NEW r \in Reqs, NEW S, NEW ret \in Labels \ EndsApps, NEW Q,
           req' = [req EXCEPT ![r] = Ending(req[r], S, ret)]
    PROVE  Todo(req'[r], Q)
<1>1. /\ req'[r].todo = S
      /\ req'[r].pc = IF S = {} THEN ret ELSE "endLoad"
  BY Fields DEF Ending
<1> QED BY <1>1 DEF Todo, EndsApps

\* A step of r keeps what it has left to end.
LEMMA StepTodo ==
    ASSUME TokenInv, TodoInv, NEW r \in Reqs, Step(r), IssuedKept
    PROVE  Todo(req'[r], req')
<1> DEFINE e == req[r]
<1>0. /\ DOMAIN req = Reqs /\ e \in Request /\ ShapeInv /\ ExchangedInv
      /\ {"pc", "todo", "ret", "cur", "sid", "key"} \subseteq DOMAIN e /\ Todo(e, req)
  BY Shape, Fields DEF TokenInv, TodoInv, Request
<1>1. ASSUME req'[r].pc \notin EndsApps, req'[r].todo = e.todo, e.pc \notin EndsApps
      PROVE  Todo(req'[r], req')
  BY <1>0, <1>1 DEF Todo, EndsApps
<1>2. e.pc \in Ends => e.ret \in Labels \ EndsApps
  BY <1>0, Returns DEF Labels, Final, EndsApps
<1>3. CASE AddSharedApp(r)
  <2>0. {"recheck", "code", "page"} \subseteq Labels \ EndsApps
    BY DEF Labels, Final, EndsApps
  <2>1. CASE \E l \in {"recheck", "code"} : req' = [req EXCEPT ![r] = Ending(e, Earlier(r), l)]
    BY <1>0, <2>0, <2>1, EndingTodo
  <2>2. CASE req' = [req EXCEPT ![r] = Ending(e, {r}, "page")]
    BY <1>0, <2>0, <2>2, EndingTodo
  <2>3. CASE req' = [req EXCEPT ![r] = [e EXCEPT !.pc = "code"]]
    BY <1>0, <1>1, <1>3, <2>3 DEF AddSharedApp, EndsApps
  <2> QED BY <1>3, <2>1, <2>2, <2>3 DEF AddSharedApp, Unrecorded
<1>4. CASE SharedLive(r)
  <2>1. CASE req' = [req EXCEPT ![r] = Ending(e, {r}, "page")]
    BY <1>0, <2>1, EndingTodo DEF Labels, Final, EndsApps
  <2>2. CASE req' = [req EXCEPT ![r].pc = "code"]
    BY <1>0, <1>1, <1>4, <2>2 DEF SharedLive, EndsApps
  <2> QED BY <1>4, <2>1, <2>2 DEF SharedLive
<1>5. CASE TakeApps(r)
  <2>1. e.ret \in Labels \ EndsApps
    BY <1>2, <1>5 DEF TakeApps, Ends
  <2>2. CASE \E S : req' = [req EXCEPT ![r] = Ending(e, S, e.ret)]
    BY <1>0, <2>1, <2>2, EndingTodo
  <2>3. CASE req' = [req EXCEPT ![r].pc = e.ret]
    BY <1>0, <1>1, <1>5, <2>1, <2>3 DEF TakeApps, EndsApps
  <2> QED BY <1>5, <2>2, <2>3 DEF TakeApps
<1>6. CASE EndDel(r)
  <2>1. e.ret \in Labels \ EndsApps
    BY <1>2, <1>6 DEF EndDel, Ends, EndsApps
  <2> QED BY <1>0, <1>6, <2>1, EndingTodo DEF EndDel
<1>7. CASE EndRecord(r)
  <2>1. e.ret \in Labels \ EndsApps
    BY <1>2, <1>7 DEF EndRecord, Ends
  <2> QED BY <1>0, <1>1, <1>7, <2>1 DEF EndRecord, EndsApps
<1>8. CASE EndLoad(r)
  <2>0. e.pc = "endLoad" /\ e.todo # {} /\ e.todo \subseteq Sids
    BY <1>0, <1>8 DEF EndLoad, Todo, EndsApps, Request
  <2>1. PICK s \in e.todo :
           \/ /\ LiveSession(s) /\ sess[s].key # None
              /\ req' = [req EXCEPT ![r] = [@ EXCEPT !.pc = "endGrant", !.cur = s,
                                                     !.key = sess[s].key]]
           \/ req' = [req EXCEPT ![r] = [@ EXCEPT !.pc = "endDel", !.cur = s]]
    BY <1>8 DEF EndLoad
  <2>2. CASE sess[s].key # None
             /\ req' = [req EXCEPT ![r] = [@ EXCEPT !.pc = "endGrant", !.cur = s,
                                                    !.key = sess[s].key]]
    <3>1. PICK k \in Exchanges : k = sess[s].key /\ req[k].pc = "issued" /\ req[k].sid = s
      BY <1>0, <2>0, <2>2 DEF ShapeInv, TypeOK, Session, ExchangedInv
    <3>2. req'[k].pc = "issued" /\ req'[k].sid = s
      BY <3>1 DEF IssuedKept
    <3>3. /\ req'[r].pc = "endGrant" /\ req'[r].cur = s /\ req'[r].key = k
          /\ req'[r].todo = e.todo
      BY <1>0, <2>2, <3>1
    <3> QED BY <2>0, <2>1, <3>2, <3>3 DEF Todo, EndsApps
  <2>3. CASE req' = [req EXCEPT ![r] = [@ EXCEPT !.pc = "endDel", !.cur = s]]
    <3>1. req'[r].pc = "endDel" /\ req'[r].cur = s /\ req'[r].todo = e.todo
      BY <1>0, <2>3
    <3> QED BY <2>0, <2>1, <3>1 DEF Todo, EndsApps
  <2> QED BY <2>1, <2>2, <2>3
<1>9. CASE EndGrant(r)
  <2>1. req'[r].pc = "endDel" /\ req'[r].cur = e.cur /\ req'[r].todo = e.todo
    BY <1>0, <1>9 DEF EndGrant
  <2> QED BY <1>0, <1>9, <2>1 DEF Todo, EndsApps, EndGrant
<1>10. CASE JoinLoad(r) \/ JoinReplace(r) \/ JoinCreate(r) \/ AnswerLoad(r) \/ CreateSession(r)
  <2>1. /\ e.pc \in {"join", "replace", "create", "load", "session"}
        /\ req'[r].todo = e.todo
        /\ req'[r].pc \in {"replace", "endRecord", "create", "session", "error", "page", "record"}
    <3>1. CASE JoinLoad(r)
      BY <1>0, <3>1 DEF JoinLoad
    <3>2. CASE AnswerLoad(r)
      BY <1>0, <3>2 DEF AnswerLoad
    <3> QED BY <1>0, <1>10, <3>1, <3>2 DEF JoinReplace, JoinCreate, CreateSession
  <2> QED BY <1>1, <2>1 DEF EndsApps
<1>11. CASE SaveAppCode(r) \/ ConsumeAppCode(r) \/ ExchangeLoad(r) \/ SaveRefresh(r)
            \/ ReplaceSession(r) \/ RefreshIssue(r) \/ RevokeGrant(r) \/ RevokeSession(r)
  <2>1. /\ e.pc \in {"code", "consume", "codeSess", "saveGrant", "bind", "renewSess", "grant",
                     "delSess"}
        /\ req'[r].todo = e.todo
        /\ req'[r].pc \in Final \cup {"codeSess", "saveGrant", "bind", "grantSess", "delGrant"}
    BY <1>0, <1>11
       DEF SaveAppCode, ConsumeAppCode, ExchangeLoad, SaveRefresh, ReplaceSession,
           RefreshIssue, RevokeGrant, RevokeSession, Unavailable, Final
  <2> QED BY <1>1, <2>1 DEF EndsApps, Final
<1>12. CASE RefreshGrant(r) \/ RevokeLoad(r) \/ RevokeToken(r) \/ LogoutLoad(r)
  <2>1. /\ e.pc \in {"grant", "grantSess", "delGrant", "load"}
        /\ req'[r].todo = e.todo
        /\ req'[r].pc \in Final \cup {"renewSess", "delSess", "delGrant", "endRecord"}
    <3>1. CASE RefreshGrant(r)
      <4>1. PICK s : s = grant[e.key].sid
        OBVIOUS
      <4>2. CASE req' = [req EXCEPT ![r] = [@ EXCEPT !.pc = "renewSess", !.sid = s]]
        BY <1>0, <3>1, <4>2 DEF RefreshGrant
      <4>3. CASE \E l \in {"refused", "unavailable"} : req' = [req EXCEPT ![r].pc = l]
        BY <1>0, <3>1, <4>3 DEF RefreshGrant, Final
      <4> QED BY <3>1, <4>1, <4>2, <4>3 DEF RefreshGrant, Unavailable
    <3>2. CASE RevokeLoad(r)
      <4>1. PICK s, i : s = grant[e.key].sid /\ i = sess[s].id
        OBVIOUS
      <4>2. CASE req' = [req EXCEPT ![r] = [@ EXCEPT !.pc = "delSess", !.sid = s, !.id = i]]
        BY <1>0, <3>2, <4>2 DEF RevokeLoad
      <4>3. CASE \E l \in {"delGrant", "refused", "unavailable"} : req' = [req EXCEPT ![r].pc = l]
        BY <1>0, <3>2, <4>3 DEF RevokeLoad, Final
      <4> QED BY <3>2, <4>1, <4>2, <4>3 DEF RevokeLoad, Unavailable
    <3> QED BY <1>0, <1>12, <3>1, <3>2 DEF RevokeToken, LogoutLoad, Unavailable, Final
  <2> QED BY <1>1, <2>1 DEF EndsApps, Final
<1> QED BY <1>3, <1>4, <1>5, <1>6, <1>7, <1>8, <1>9, <1>10, <1>11, <1>12 DEF Step

LEMMA TodoStep == TokenInv /\ TodoInv /\ [Next]_vars => TodoInv'
<1> SUFFICES ASSUME TokenInv, TodoInv, [Next]_vars PROVE TodoInv'
  OBVIOUS
<1>0. IssuedKept /\ ShapeInv
  BY NextIssued DEF TokenInv
<1>1. ASSUME NEW x \in Reqs, UNCHANGED req[x] PROVE Todo(req'[x], req')
  <2>1. req[x].pc = "endGrant" => req[x].key \in Exchanges
    BY <1>0, Shape DEF Informed
  <2>2. Todo(req[x], req) /\ req'[x] = req[x]
    BY <1>1 DEF TodoInv
  <2> QED BY <1>0, <2>1, <2>2 DEF Todo, IssuedKept
<1>2. ASSUME NEW r \in Reqs, Todo(req'[r], req'), Moves(r) PROVE TodoInv'
  BY <1>1, <1>2 DEF TodoInv, Moves
<1>3. ASSUME NEW r \in Reqs, Arrive(r) \/ Deliver(r) PROVE TodoInv'
  <2>1. Moves(r) /\ DOMAIN req = Reqs /\ req[r] \in Request
    BY <1>0, <1>3, EdgeMoves, Fields, Shape
  <2>2. /\ req[r].pc \in Final \cup {"idle"} /\ req'[r].todo = req[r].todo
        /\ req'[r].pc \in Final \cup {"join", "load", "consume", "grant"}
    <3>1. CASE Deliver(r)
      BY <2>1, <3>1 DEF Deliver, Moves
    <3>2. CASE Arrive(r)
      <4>1. {"pc", "todo"} \subseteq DOMAIN req[r]
        BY <2>1 DEF Request
      <4> QED BY <2>1, <3>2, <4>1 DEF Arrive, SignInReturns, AuthorizeArrives, CodePresented,
           TokenPresented, LogoutArrives
    <3> QED BY <1>3, <3>1, <3>2
  <2>3. Todo(req'[r], req')
    <3>1. req[r].pc \notin EndsApps /\ req'[r].pc \notin EndsApps
      BY <2>2 DEF Final, EndsApps
    <3> QED BY <2>2, <3>1 DEF TodoInv, Todo, EndsApps
  <2> QED BY <1>2, <2>1, <2>3
<1>4. ASSUME NEW r \in Reqs, Step(r) PROVE TodoInv'
  BY <1>0, <1>2, <1>4, StepTodo, StepMoves
<1>5. CASE UNCHANGED req
  BY <1>1, <1>5 DEF TodoInv
<1> QED BY <1>3, <1>4, <1>5 DEF Next, Tick, vars

LEMMA TodoInit == Init => TodoInv
BY DEF Init, Blank, TodoInv, Todo, EndsApps

\* As long as no call has failed, none fails.
LEMMA NoFailure ==
    ASSUME ShapeInv, [Next]_vars, outages' = 0
    PROVE  outages = 0 /\ ~Fails
<1>1. ASSUME NEW r \in Reqs, Step(r) PROVE outages' = outages \/ outages' = outages + 1
  BY <1>1 DEF Step, JoinLoad, JoinReplace, JoinCreate, AnswerLoad, CreateSession,
     AddSharedApp, SharedLive, SaveAppCode, EndRecord, TakeApps, EndLoad, EndGrant, EndDel,
     ConsumeAppCode, ExchangeLoad, SaveRefresh, ReplaceSession, RefreshGrant, RefreshIssue,
     RevokeGrant, RevokeLoad, RevokeSession, RevokeToken, LogoutLoad, Unavailable, Fails
<1>2. outages \in Nat /\ (outages' = outages \/ outages' = outages + 1)
  BY <1>1, EdgeMoves DEF Next, Tick, vars, ShapeInv, TypeOK
<1> QED BY <1>2 DEF Fails

\* While no call fails, a session that some request set out to end is ended by it.
LEMMA EndingKept ==
    ASSUME TokenInv, TodoInv, [Next]_vars, outages' = 0,
           NEW s \in Sids, BeingEnded(s)
    PROVE  ~LiveNext(s) \/ BeingEnded(s)'
<1>1. PICK r \in Reqs : s \in req[r].todo
  BY DEF BeingEnded
<1>2. ShapeInv /\ DOMAIN req = Reqs /\ req[r] \in Request /\ req[r].pc \in EndsApps
  BY <1>1, Fields, Shape DEF TokenInv, TodoInv, Todo
<1>3. ~Fails
  BY <1>2 DEF Fails, ShapeInv, TypeOK
<1>4. ASSUME req'[r].todo = req[r].todo PROVE BeingEnded(s)'
  BY <1>1, <1>4 DEF BeingEnded
<1>5. CASE EndDel(r)
  <2>1. sess' = [sess EXCEPT ![req[r].cur].st = "gone"]
    BY <1>3, <1>5 DEF EndDel
  <2>2. s = req[r].cur => ~LiveNext(s)
    BY <1>2, <2>1 DEF LiveNext, ShapeInv, TypeOK, Session
  <2>3. req'[r].todo = req[r].todo \ {req[r].cur}
    BY <1>2, <1>5 DEF EndDel, Ending, Request
  <2> QED BY <1>1, <2>2, <2>3 DEF BeingEnded
<1>6. CASE EndLoad(r) \/ EndGrant(r)
  <2>0. {"pc", "todo"} \subseteq DOMAIN req[r]
    BY <1>2 DEF Request
  <2>1. req'[r].todo = req[r].todo
    BY <1>2, <1>6, <2>0 DEF EndLoad, EndGrant
  <2> QED BY <1>4, <2>1
<1>7. ~(\/ JoinLoad(r) \/ JoinReplace(r) \/ JoinCreate(r)
        \/ AnswerLoad(r) \/ CreateSession(r) \/ AddSharedApp(r) \/ SharedLive(r)
        \/ SaveAppCode(r) \/ EndRecord(r) \/ TakeApps(r)
        \/ ConsumeAppCode(r) \/ ExchangeLoad(r) \/ SaveRefresh(r) \/ ReplaceSession(r)
        \/ RefreshGrant(r) \/ RefreshIssue(r)
        \/ RevokeGrant(r) \/ RevokeLoad(r) \/ RevokeSession(r) \/ RevokeToken(r)
        \/ LogoutLoad(r) \/ Arrive(r) \/ Deliver(r))
  BY <1>2 DEF JoinLoad, JoinReplace, JoinCreate, AnswerLoad, CreateSession, AddSharedApp,
     SharedLive, SaveAppCode, EndRecord, TakeApps, ConsumeAppCode,
     ExchangeLoad, SaveRefresh, ReplaceSession, RefreshGrant, RefreshIssue, RevokeGrant,
     RevokeLoad, RevokeSession, RevokeToken, LogoutLoad, Final, EndsApps, Deliver,
     Arrive, SignInReturns, AuthorizeArrives, CodePresented, TokenPresented, LogoutArrives
<1>8. ASSUME NEW x \in Reqs, x # r, Arrive(x) \/ Step(x) \/ Deliver(x) PROVE BeingEnded(s)'
  <2>1. req'[r] = req[r]
    BY <1>2, <1>8, StepMoves, EdgeMoves DEF Moves
  <2> QED BY <1>4, <2>1
<1>9. CASE UNCHANGED req
  BY <1>4, <1>9
<1> QED BY <1>5, <1>6, <1>7, <1>8, <1>9 DEF Next, Step, Tick, vars

\* A revocation has presented an answered token, and has read its session when it
\* goes on to end it.
RevokeKnown(q, Q) ==
    /\ q.pc \in {"grant", "grantSess", "delSess", "delGrant"} =>
           q.key \in Exchanges /\ Q[q.key].pc = "issued"
    /\ q.pc \in {"idle", "grant", "grantSess"} => q.sid = None
    /\ q.pc = "delSess" => q.sid = Q[q.key].sid

RevokeInv == \A r \in Revokes : RevokeKnown(req[r], req)

\* What a step of a revocation leaves it with.
LEMMA RevokeMoves ==
    ASSUME TokenInv, NEW r \in Revokes, Step(r)
    PROVE  LET e == req[r]
               n == req'[r]
           IN  \/ /\ RevokeGrant(r)
                  /\ n.key = e.key /\ n.sid = e.sid
                  /\ n.pc \in {"grantSess", "ended", "refused", "unavailable"}
               \/ /\ RevokeLoad(r)
                  /\ n.key = e.key
                  /\ \/ n.pc = "delSess" /\ n.sid = grant[e.key].sid
                     \/ /\ n.pc = "delGrant" /\ n.sid = e.sid /\ UNCHANGED outages
                        /\ ~LiveSession(grant[e.key].sid)
                     \/ n.pc \in {"refused", "unavailable"} /\ n.sid = e.sid
               \/ /\ RevokeSession(r)
                  /\ n.key = e.key /\ n.sid = e.sid
                  /\ n.pc \in {"delGrant", "unavailable"}
               \/ /\ n.pc \notin {"idle", "grant", "grantSess", "delSess", "delGrant"}
                  /\ n.sid = e.sid
<1> DEFINE e == req[r]
<1>0. /\ r \in Reqs /\ DOMAIN req = Reqs /\ ShapeInv /\ Placed(r, e)
      /\ {"pc", "todo", "ret", "cur", "sid", "key", "id"} \subseteq DOMAIN e
  BY Shape DEF TokenInv, Reqs, ShapeInv, TypeOK, Request
<1>1. \/ RevokeGrant(r) \/ RevokeLoad(r) \/ RevokeSession(r) \/ RevokeToken(r)
      \/ EndRecord(r) \/ TakeApps(r) \/ EndLoad(r) \/ EndGrant(r) \/ EndDel(r)
  BY <1>0, RequestsAssumption
   DEF Step, Placed, JoinLoad, JoinReplace, JoinCreate, AnswerLoad, CreateSession,
       AddSharedApp, SharedLive, SaveAppCode, ConsumeAppCode, ExchangeLoad, SaveRefresh,
       ReplaceSession, RefreshGrant, RefreshIssue, LogoutLoad, Reqs, Sids, Ends, EndsApps
<1>2. CASE RevokeGrant(r)
  BY <1>0, <1>2 DEF RevokeGrant, Unavailable
<1>3. CASE RevokeLoad(r)
  <2>1. PICK s, i : s = grant[e.key].sid /\ i = sess[s].id
    OBVIOUS
  <2>2. CASE req' = [req EXCEPT ![r] = [@ EXCEPT !.pc = "delSess", !.sid = s, !.id = i]]
    <3>1. req'[r].pc = "delSess" /\ req'[r].sid = s /\ req'[r].key = e.key
      BY <1>0, <2>2
    <3> QED BY <1>3, <2>1, <3>1
  <2>3. CASE ~LiveSession(s) /\ UNCHANGED outages /\ req' = [req EXCEPT ![r].pc = "delGrant"]
    BY <1>0, <1>3, <2>1, <2>3
  <2>4. CASE \E l \in {"refused", "unavailable"} : req' = [req EXCEPT ![r].pc = l]
    BY <1>0, <1>3, <2>4
  <2> QED BY <1>3, <2>1, <2>2, <2>3, <2>4 DEF RevokeLoad, Unavailable
<1>4. CASE RevokeSession(r)
  BY <1>0, <1>4 DEF RevokeSession, Unavailable
<1>5. CASE RevokeToken(r)
  <2>1. req'[r].sid = e.sid /\ req'[r].pc \in {"ended", "endRecord", "unavailable"}
    BY <1>0, <1>5 DEF RevokeToken, Unavailable
  <2> QED BY <2>1
<1>6. CASE EndLoad(r) \/ EndGrant(r)
  <2>1. req'[r].sid = e.sid /\ req'[r].pc \in {"endGrant", "endDel"}
    BY <1>0, <1>6 DEF EndLoad, EndGrant
  <2> QED BY <2>1
<1>7. CASE EndRecord(r) \/ TakeApps(r) \/ EndDel(r)
  <2>1. e.ret \notin {"idle", "grant", "grantSess", "delSess", "delGrant"}
    BY <1>0, <1>7, Returns DEF EndRecord, TakeApps, EndDel, Ends, EndsApps
  <2>2. req'[r].sid = e.sid /\ req'[r].pc \in {e.ret, "takeApps", "endLoad"}
    BY <1>0, <1>7 DEF EndRecord, TakeApps, EndDel, Ending
  <2> QED BY <2>1, <2>2
<1> QED BY <1>1, <1>2, <1>3, <1>4, <1>5, <1>6, <1>7

LEMMA RevokeInvStep == TokenInv /\ RevokeInv /\ [Next]_vars => RevokeInv'
<1> SUFFICES ASSUME TokenInv, RevokeInv, [Next]_vars, NEW r \in Revokes
             PROVE  RevokeKnown(req'[r], req')
  BY DEF RevokeInv
<1>0. /\ r \in Reqs /\ ShapeInv /\ DOMAIN req = Reqs /\ req[r] \in Request /\ IssuedKept
      /\ RevokeKnown(req[r], req)
  BY NextIssued, Shape, Fields DEF TokenInv, Reqs, RevokeInv
<1>1. ASSUME req'[r].pc = req[r].pc, req'[r].key = req[r].key, req'[r].sid = req[r].sid
      PROVE  RevokeKnown(req'[r], req')
  BY <1>0, <1>1 DEF RevokeKnown, IssuedKept
<1>2. CASE Step(r)
  <2>1. RevokeGrant(r) => req[r].pc = "grant"
    BY DEF RevokeGrant
  <2>2. RevokeLoad(r) => req[r].pc = "grantSess"
    BY DEF RevokeLoad
  <2>3. RevokeSession(r) => req[r].pc = "delSess"
    BY DEF RevokeSession
  <2>4. \A k \in Exchanges : req[k].pc = "issued" => grant[k].sid = req[k].sid
    BY DEF TokenInv, ExchangedInv
  <2> QED BY <1>0, <1>2, <2>1, <2>2, <2>3, <2>4, RevokeMoves DEF RevokeKnown, IssuedKept
<1>3. CASE Arrive(r)
  <2>1. PICK k \in Exchanges, good \in BOOLEAN : TokenPresented(r, k, good)
    BY <1>3, RequestsAssumption DEF Arrive, Reqs, Sids
  <2>2. req'[r].pc = "grant" /\ req'[r].key = k /\ req[k].pc = "issued" /\ req'[r].sid = None
    BY <1>0, <2>1 DEF TokenPresented, Request, RevokeKnown
  <2> QED BY <1>0, <2>2 DEF RevokeKnown, IssuedKept
<1>4. CASE Deliver(r)
  BY <1>0, <1>1, <1>4, EdgeMoves DEF Deliver, Moves
<1>5. CASE req'[r] = req[r]
  BY <1>1, <1>5
<1>6. ASSUME NEW x \in Reqs, x # r, Arrive(x) \/ Step(x) \/ Deliver(x) PROVE req'[r] = req[r]
  BY <1>0, <1>6, StepMoves, EdgeMoves DEF Moves
<1> QED BY <1>2, <1>3, <1>4, <1>5, <1>6 DEF Next, Tick, vars

LEMMA RevokeInvInit == Init => RevokeInv
BY DEF Init, Blank, RevokeInv, RevokeKnown, Reqs

\* A refusal of a refresh of session s is in order: it ended, some request set out
\* to end it, or a revocation has read it.
Excused(s) == ~LiveSession(s) \/ BeingEnded(s) \/ \E v \in Revokes : req[v].sid = s

LEMMA ExcusedKept ==
    ASSUME TokenInv, TodoInv, RevokeInv, [Next]_vars, outages' = 0,
           NEW s \in Sids, sess[s].st # "none", Excused(s)
    PROVE  Excused(s)'
<1>1. CASE ~LiveSession(s)
  <2>1. ~LiveNext(s)
    BY <1>1, NextSessions DEF TokenInv, SessionsKept
  <2> QED BY <2>1 DEF Excused, LiveNext, LiveSession
<1>2. CASE BeingEnded(s)
  BY <1>2, EndingKept DEF Excused, LiveNext, LiveSession
<1>3. CASE \E v \in Revokes : req[v].sid = s
  <2>0. PICK r \in Revokes : req[r].sid = s
    BY <1>3
  <2>1. r \in Reqs /\ s # None /\ ShapeInv
    BY RequestsAssumption DEF Reqs, TokenInv
  <2>2. req[r].pc \notin {"idle", "grant", "grantSess"}
    BY <2>0, <2>1 DEF RevokeInv, RevokeKnown
  <2>3. CASE Step(r)
    <3>1. ~RevokeLoad(r)
      BY <2>2 DEF RevokeLoad
    <3> QED BY <2>0, <2>3, <3>1, RevokeMoves DEF Excused
  <2>4. CASE Deliver(r)
    BY <2>0, <2>1, <2>4, EdgeMoves DEF Deliver, Moves, Excused
  <2>5. CASE req'[r] = req[r]
    BY <2>0, <2>5 DEF Excused
  <2>6. ASSUME NEW x \in Reqs, x # r, Arrive(x) \/ Step(x) \/ Deliver(x) PROVE req'[r] = req[r]
    BY <2>1, <2>6, StepMoves, EdgeMoves DEF Moves
  <2>7. ~Arrive(r)
    BY <2>2 DEF Arrive, SignInReturns, AuthorizeArrives, CodePresented, TokenPresented,
       LogoutArrives
  <2> QED BY <2>3, <2>4, <2>5, <2>6, <2>7 DEF Next, Tick, vars
<1> QED BY <1>1, <1>2, <1>3 DEF Excused

\* The inductive invariant of RefusedOnlyWhenEnded: while no call fails, a grant is
\* removed only with its session.
RemovedInv ==
    outages = 0 =>
        /\ \A r \in Revokes : req[r].pc = "delGrant" => Excused(req[req[r].key].sid)
        /\ \A k \in Exchanges : grant[k].st = "gone" => Excused(grant[k].sid)

LEMMA RemovedStep ==
    ASSUME TokenInv, TodoInv, RevokeInv, RemovedInv, [Next]_vars
    PROVE  RemovedInv'
<1> SUFFICES ASSUME outages' = 0
             PROVE  /\ \A r \in Revokes : req'[r].pc = "delGrant" =>
                           Excused(req[req[r].key].sid)'
                    /\ \A k \in Exchanges : grant'[k].st = "gone" => Excused(grant[k].sid)'
  BY DEF RemovedInv
<1>0. /\ ShapeInv /\ FreshInv /\ ExchangedInv /\ DOMAIN req = Reqs /\ IssuedKept
      /\ Exchanges \subseteq Reqs
  <2>1. ShapeInv /\ FreshInv /\ ExchangedInv
    BY DEF TokenInv
  <2>2. DOMAIN req = Reqs
    BY <2>1 DEF ShapeInv, TypeOK
  <2> QED BY <2>1, <2>2, NextIssued DEF Reqs
<1>1. outages = 0
  BY <1>0, NoFailure
<1>2. /\ \A r \in Revokes : req[r].pc = "delGrant" => Excused(req[req[r].key].sid)
      /\ \A k \in Exchanges : grant[k].st = "gone" => Excused(grant[k].sid)
  BY <1>1 DEF RemovedInv
<1>3. ASSUME NEW s \in Sids, sess[s].st # "none", Excused(s) PROVE Excused(s)'
  BY <1>3, ExcusedKept
<1>4. ASSUME NEW k \in Exchanges, req[k].pc = "issued"
      PROVE  req[k].sid \in Sids /\ sess[req[k].sid].st # "none" /\ grant[k].sid = req[k].sid
  BY <1>0, <1>4, Shape DEF Informed, FreshInv, Known, ExchangedInv
<1>5. ASSUME NEW k \in Exchanges, grant[k].st # "none"
      PROVE  grant[k].sid \in Sids /\ sess[grant[k].sid].st # "none"
  BY <1>0, <1>5 DEF ShapeInv, GrantsNamed, FreshInv, StoreKnown
<1>6. ASSUME NEW r \in Revokes, req'[r].pc = "delGrant"
      PROVE  Excused(req[req[r].key].sid)'
  <2>0. r \in Reqs /\ RevokeKnown(req[r], req) /\ RevokeKnown(req'[r], req')
    BY RevokeInvStep DEF RevokeInv, Reqs
  <2>1. PICK k \in Exchanges, s \in Sids : k = req'[r].key /\ s = req'[k].sid
    BY <1>0, <1>6, <2>0, ShapeStep, Shape DEF RevokeKnown, ShapeInv, Informed
  <2>2. ASSUME k = req[r].key, req[k].pc = "issued", Excused(req[k].sid)
        PROVE  Excused(req[req[r].key].sid)'
    <3>1. s = req[k].sid /\ sess[s].st # "none"
      BY <1>0, <1>4, <2>1, <2>2 DEF IssuedKept
    <3>2. Excused(s)'
      BY <1>3, <2>2, <3>1
    <3>3. s = (req[req[r].key].sid)'
      BY <2>1
    <3> QED BY <3>2, <3>3 DEF Excused, BeingEnded, LiveSession
  <2>3. CASE RevokeLoad(r)
    <3>1. /\ k = req[r].key /\ ~LiveSession(grant[k].sid) /\ req[r].pc = "grantSess"
      BY <1>6, <2>1, <2>3, RevokeMoves DEF Step, RevokeLoad, RevokeGrant, RevokeSession
    <3>2. req[k].pc = "issued"
      BY <2>0, <3>1 DEF RevokeKnown
    <3> QED BY <1>4, <2>2, <3>1, <3>2 DEF Excused
  <2>4. CASE RevokeSession(r)
    <3>1. /\ k = req[r].key /\ req[r].pc = "delSess"
      BY <1>6, <2>1, <2>4, RevokeMoves DEF Step, RevokeLoad, RevokeGrant, RevokeSession
    <3>2. req[k].pc = "issued" /\ req[r].sid = req[k].sid
      BY <2>0, <3>1 DEF RevokeKnown
    <3> QED BY <2>2, <3>1, <3>2 DEF Excused
  <2>5. CASE req[r].pc = "delGrant" /\ req'[r].key = req[r].key
    BY <1>2, <2>0, <2>1, <2>2, <2>5 DEF RevokeKnown
  <2>6. CASE Step(r) /\ ~RevokeLoad(r) /\ ~RevokeSession(r)
    BY <1>6, <2>6, RevokeMoves
  <2>7. ~Arrive(r)
    <3>1. "pc" \in DOMAIN req[r]
      BY <1>0, <2>0, Fields
    <3> QED BY <1>0, <1>6, <2>0, <3>1 DEF Arrive, SignInReturns, AuthorizeArrives, CodePresented,
         TokenPresented, LogoutArrives
  <2>8. ~Deliver(r)
    BY <1>0, <1>6, <2>0, EdgeMoves DEF Deliver, Moves, Final
  <2>9. ASSUME NEW x \in Reqs, x # r, Arrive(x) \/ Step(x) \/ Deliver(x) PROVE req'[r] = req[r]
    BY <1>0, <2>0, <2>9, StepMoves, EdgeMoves DEF Moves
  <2> QED BY <1>6, <2>3, <2>4, <2>5, <2>6, <2>7, <2>8, <2>9 DEF Next, Tick, vars
<1>7. ASSUME NEW k \in Exchanges, grant'[k].st = "gone"
      PROVE  Excused(grant[k].sid)'
  <2>1. ASSUME NEW s \in Sids, grant'[k].sid = s, sess[s].st # "none", Excused(s)
        PROVE  Excused(grant[k].sid)'
    <3>1. Excused(s)' /\ (grant[k].sid)' = s
      BY <1>3, <2>1
    <3> QED BY <3>1 DEF Excused, BeingEnded, LiveSession
  <2>2. CASE grant[k].st = "gone" /\ grant'[k].sid = grant[k].sid
    BY <1>2, <1>5, <2>1, <2>2
  <2>3. ASSUME NEW r \in Reqs, RevokeToken(r) PROVE Excused(grant[k].sid)'
    <3>1. r \in Revokes /\ req[r].pc = "delGrant"
      BY <1>0, <2>3, Shape, RequestsAssumption DEF RevokeToken, Placed, Reqs, Sids, Ends, EndsApps
    <3>2. PICK j \in Exchanges : j = req[r].key /\ req[j].pc = "issued"
      BY <3>1 DEF RevokeInv, RevokeKnown
    <3>3. grant' = [grant EXCEPT ![j].st = "gone"] \/ grant' = grant
      BY <2>3, <3>2 DEF RevokeToken
    <3>4. grant'[k].sid = grant[k].sid /\ (grant[k].st = "gone" \/ k = j)
      BY <1>0, <1>7, <3>3 DEF ShapeInv, TypeOK, Grant
    <3>5. k = j => Excused(grant[k].sid)
      BY <1>2, <1>4, <3>1, <3>2
    <3> QED BY <1>4, <2>1, <2>2, <3>2, <3>4, <3>5
  <2>4. ASSUME NEW r \in Reqs, EndGrant(r) PROVE Excused(grant[k].sid)'
    <3>1. req[r].pc = "endGrant"
      BY <2>4 DEF EndGrant
    <3>2. PICK j \in Exchanges : /\ j = req[r].key /\ req[j].pc = "issued"
                                 /\ req[j].sid = req[r].cur /\ req[r].cur \in req[r].todo
      BY <1>0, <3>1, Shape DEF Informed, TodoInv, Todo
    <3>3. grant' = [grant EXCEPT ![j].st = "gone"] \/ grant' = grant
      BY <2>4, <3>2 DEF EndGrant
    <3>4. grant'[k].sid = grant[k].sid /\ (grant[k].st = "gone" \/ k = j)
      BY <1>0, <1>7, <3>3 DEF ShapeInv, TypeOK, Grant
    <3>5. k = j => Excused(grant[k].sid)
      BY <1>4, <3>2 DEF Excused, BeingEnded
    <3> QED BY <1>4, <2>1, <2>2, <3>2, <3>4, <3>5
  <2>5. ASSUME NEW r \in Reqs, SaveRefresh(r) PROVE Excused(grant[k].sid)'
    <3>1. grant' = [grant EXCEPT ![r] = [st |-> "live", sid |-> req[r].sid]] \/ grant' = grant
      BY <2>5 DEF SaveRefresh
    <3>2. grant'[k] = grant[k]
      BY <1>0, <1>7, <3>1 DEF ShapeInv, TypeOK
    <3> QED BY <1>7, <2>2, <3>2
  <2>6. CASE UNCHANGED grant
    BY <1>7, <2>2, <2>6
  <2>7. ASSUME NEW r \in Reqs, Step(r) PROVE Excused(grant[k].sid)'
    BY <2>3, <2>4, <2>5, <2>6, <2>7 DEF Step, JoinLoad, JoinReplace, JoinCreate, AnswerLoad,
       CreateSession, AddSharedApp, SharedLive, SaveAppCode, EndRecord, TakeApps, EndLoad, EndDel,
       ConsumeAppCode, ExchangeLoad, ReplaceSession, RefreshGrant, RefreshIssue, RevokeGrant,
       RevokeLoad, RevokeSession, LogoutLoad, storeVars
  <2> QED BY <1>0, <2>6, <2>7, EdgeMoves DEF Next, Tick, vars, storeVars
<1> QED BY <1>6, <1>7

LEMMA RemovedInit == Init => RemovedInv
<1> SUFFICES ASSUME Init PROVE RemovedInv
  OBVIOUS
<1>1. \A r \in Revokes : req[r].pc = "idle"
  BY DEF Init, Blank, Reqs
<1>2. \A k \in Exchanges : grant[k].st = "none"
  BY DEF Init
<1> QED BY <1>1, <1>2 DEF RemovedInv

\* While the store answers, a refresh by the right caller is refused only when its
\* session has ended, is being ended or has been read by a revocation, for any number
\* of requests of every sort: no order of the code exchange's steps, and no expiry,
\* refuses a live session (grantRefreshToken, refreshBoundSession, revoke).
THEOREM RefusedMeansEnded == Spec => []RefusedOnlyWhenEnded
<1>1. TokenInv /\ RefreshInv /\ RemovedInv => RefusedOnlyWhenEnded
  <2> SUFFICES ASSUME TokenInv, RefreshInv, RemovedInv, outages = 0, NEW r \in Refreshes,
                      req[r].pc = "refused", req[r].good
               PROVE  LET s == req[req[r].key].sid IN ~LiveSession(s) \/ BeingEnded(s)
                                                       \/ \E v \in Revokes : req[v].sid = s
    BY DEF RefusedOnlyWhenEnded
  <2>1. PICK k \in Exchanges : k = req[r].key /\ req[k].pc = "issued" /\ NotServed(k)
    BY DEF RefreshInv, RefreshKnown
  <2>2. grant[k].sid = req[k].sid /\ grant[k].st \in {"live", "gone"}
    BY <2>1 DEF TokenInv, ExchangedInv, ShapeInv, TypeOK, Grant, Status
  <2>3. CASE ~LiveSession(grant[k].sid)
    BY <2>1, <2>2, <2>3
  <2>4. CASE ~LiveGrant(k) /\ grant[k].st = "live"
    BY <2>1, <2>2, <2>4 DEF LiveGrant, LiveSession
  <2>5. CASE grant[k].st = "gone"
    BY <2>1, <2>2, <2>5 DEF RemovedInv, Excused
  <2> QED BY <2>1, <2>2, <2>3, <2>4, <2>5 DEF NotServed
<1> QED BY <1>1, TokenInvHolds, RefreshInvInit, RefreshInvStep, TodoInit, TodoStep,
           RevokeInvInit, RevokeInvStep, RemovedInit, RemovedStep, PTL DEF Spec

-----------------------------------------------------------------------------
(* What a sign-out reaches.                                                 *)

\* The requests that make no session end sessions and use tokens; the others take
\* the following steps.
LEMMA SidSteps ==
    ASSUME ShapeInv, NEW r \in Sids, Step(r)
    PROVE  \/ JoinLoad(r) \/ JoinReplace(r) \/ JoinCreate(r)
           \/ AnswerLoad(r) \/ CreateSession(r) \/ AddSharedApp(r) \/ SharedLive(r)
           \/ SaveAppCode(r)
           \/ EndRecord(r) \/ TakeApps(r) \/ EndLoad(r) \/ EndGrant(r) \/ EndDel(r)
<1>1. r \in Reqs /\ Placed(r, req[r])
  BY Shape DEF Reqs
<1> QED BY <1>1, RequestsAssumption
   DEF Step, Placed, ConsumeAppCode, ExchangeLoad, SaveRefresh, ReplaceSession, RefreshGrant,
       RefreshIssue, RevokeGrant, RevokeLoad, RevokeSession, RevokeToken, LogoutLoad,
       Reqs, Sids, Ends, EndsApps

\* The request has dealt with the list: its session is recorded, unless the record
\* failed.
Recorded(q) ==
    \/ q.pc \in {"recheck", "code", "coded"}
    \/ q.pc \in EndsApps /\ q.ret \in {"recheck", "code"}

\* The session of a request is of the shared session that the request names, and
\* only a sign-in that has made none yet ends a shared session.
TiedInv ==
    \A s \in Sids :
        /\ AfterSession(req[s]) => sess[s].id = req[s].id
        /\ req[s].pc \in {"endRecord", "takeApps"} => req[s].ret = "create"

\* How a request that makes a session goes on.
SidMoves(r, e, n) ==
    /\ AfterSession(e) =>
           /\ n.c = e.c /\ n.id = e.id
           /\ Recorded(n) => Recorded(e) \/ AddSharedApp(r)
    /\ AfterSession(n) => AfterSession(e) \/ (CreateSession(r) /\ n.id = e.id)
    /\ n.pc \in {"endRecord", "takeApps"} => n.ret = "create"
    /\ r \in Answers /\ n.pc \in {"code", "coded"} =>
           e.pc = "code" \/ (e.pc = "recheck" /\ LiveShared(e.id))

LEMMA SidStepMoves ==
    ASSUME ShapeInv, TiedInv, NEW r \in Sids, Step(r)
    PROVE  SidMoves(r, req[r], req'[r])
<1> DEFINE e == req[r]
           n == req'[r]
<1>0. /\ r \in Reqs /\ DOMAIN req = Reqs /\ Placed(r, e)
      /\ {"pc", "todo", "ret", "cur", "c", "id", "key"} \subseteq DOMAIN e
      /\ e.pc \in {"endRecord", "takeApps"} => e.ret = "create"
  BY Shape DEF Reqs, ShapeInv, TypeOK, Request, TiedInv
<1>1. CASE JoinLoad(r)
  <2>1. CASE Holds(e.ck) /\ req' = [req EXCEPT ![r] = [@ EXCEPT !.pc = "endRecord", !.id = e.ck.id,
                                                 !.ret = "create"]]
    <3>1. e.pc = "join" /\ n.pc = "endRecord" /\ n.ret = "create"
      BY <1>0, <1>1, <2>1 DEF JoinLoad
    <3> QED BY <3>1 DEF SidMoves, AfterSession, Ends, EndsApps, Recorded
  <2>2. CASE n.pc \in {"replace", "create"}
    <3>1. e.pc = "join"
      BY <1>1 DEF JoinLoad
    <3> QED BY <2>2, <3>1 DEF SidMoves, AfterSession, Ends, EndsApps, Recorded
  <2> QED BY <1>0, <1>1, <2>1, <2>2 DEF JoinLoad
<1>2. CASE JoinReplace(r) \/ JoinCreate(r) \/ AnswerLoad(r)
  <2>1. /\ e.pc \in {"replace", "create", "load"}
        /\ n.pc \in {"session", "create", "error", "page"}
    <3>1. CASE AnswerLoad(r)
      BY <1>0, <3>1 DEF AnswerLoad
    <3> QED BY <1>0, <1>2, <3>1 DEF JoinReplace, JoinCreate
  <2> QED BY <2>1 DEF SidMoves, AfterSession, Ends, EndsApps, Recorded
<1>3. CASE CreateSession(r)
  <2>1. e.pc = "session" /\ n.pc \in {"record", "error"} /\ n.id = e.id
    BY <1>0, <1>3 DEF CreateSession
  <2> QED BY <1>3, <2>1 DEF SidMoves, AfterSession, Ends, EndsApps, Recorded
<1>4. CASE AddSharedApp(r)
  <2>1. e.pc = "record"
    BY <1>4 DEF AddSharedApp
  <2>2. /\ n.c = e.c /\ n.id = e.id
        /\ \/ n.pc = "code" /\ r \notin Answers
           \/ /\ n.ret \in {"recheck", "page"} \/ (n.ret = "code" /\ r \notin Answers)
              /\ n.pc = n.ret \/ n.pc = "endLoad"
    <3>1. CASE req' = [req EXCEPT ![r] = Ending(e, Earlier(r), IF r \in Answers THEN "recheck" ELSE "code")]
      BY <1>0, <3>1 DEF Ending
    <3>2. CASE req' = [req EXCEPT ![r] = Ending(e, {r}, "page")]
      BY <1>0, <3>2 DEF Ending
    <3>3. CASE r \notin Answers /\ req' = [req EXCEPT ![r] = [e EXCEPT !.pc = "code"]]
      BY <1>0, <3>3
    <3> QED BY <1>4, <3>1, <3>2, <3>3 DEF AddSharedApp, Unrecorded
  <2> QED BY <1>4, <2>1, <2>2 DEF SidMoves, AfterSession, Ends, EndsApps, Recorded
<1>5. CASE SharedLive(r)
  <2>1. e.pc = "recheck"
    BY <1>5 DEF SharedLive
  <2>2. /\ n.c = e.c /\ n.id = e.id
        /\ \/ n.pc = "code" /\ LiveShared(e.id)
           \/ n.ret = "page" /\ (n.pc = "page" \/ n.pc = "endLoad")
    <3>1. CASE req' = [req EXCEPT ![r] = Ending(e, {r}, "page")]
      BY <1>0, <3>1 DEF Ending
    <3>2. CASE LiveShared(e.id) /\ req' = [req EXCEPT ![r].pc = "code"]
      BY <1>0, <3>2
    <3> QED BY <1>5, <3>1, <3>2 DEF SharedLive
  <2> QED BY <2>1, <2>2 DEF SidMoves, AfterSession, Ends, EndsApps, Recorded
<1>6. CASE SaveAppCode(r)
  <2>1. e.pc = "code" /\ n.pc \in {"coded", "error"} /\ n.c = e.c /\ n.id = e.id
    BY <1>0, <1>6 DEF SaveAppCode
  <2> QED BY <2>1 DEF SidMoves, AfterSession, Ends, EndsApps, Recorded
<1>7. CASE EndRecord(r) \/ TakeApps(r)
  <2>1. e.pc \in {"endRecord", "takeApps"} /\ n.ret = "create"
        /\ n.pc \in {"takeApps", "create", "endLoad"}
    BY <1>0, <1>7 DEF EndRecord, TakeApps, Ending
  <2> QED BY <2>1, <1>0 DEF SidMoves, AfterSession, Ends, EndsApps, Recorded
<1>8. CASE EndLoad(r) \/ EndGrant(r)
  <2>1. /\ e.pc \in {"endLoad", "endGrant"} /\ n.pc \in {"endGrant", "endDel"}
        /\ n.ret = e.ret /\ n.c = e.c /\ n.id = e.id
    BY <1>0, <1>8 DEF EndLoad, EndGrant
  <2> QED BY <2>1 DEF SidMoves, AfterSession, Ends, EndsApps, Recorded
<1>9. CASE EndDel(r)
  <2>1. /\ e.pc = "endDel" /\ n.pc \in {e.ret, "endLoad"}
        /\ n.ret = e.ret /\ n.c = e.c /\ n.id = e.id
    BY <1>0, <1>9 DEF EndDel, Ending
  <2>2. /\ e.ret \in {"create", "code", "recheck", "page"}
        /\ r \in Answers => e.ret \in {"recheck", "page"}
    BY <1>0, <2>1 DEF Placed, Ends, EndsApps, Sids
  <2> QED BY <2>1, <2>2 DEF SidMoves, AfterSession, Ends, EndsApps, Recorded
<1> QED BY <1>1, <1>2, <1>3, <1>4, <1>5, <1>6, <1>7, <1>8, <1>9, SidSteps

\* The tie is inductive: a session keeps its shared session, and so does the request.
LEMMA TiedStep == ShapeInv /\ FreshInv /\ TiedInv /\ [Next]_vars => TiedInv'
<1> SUFFICES ASSUME ShapeInv, FreshInv, TiedInv, [Next]_vars, NEW s \in Sids
             PROVE  /\ AfterSession(req'[s]) => sess'[s].id = req'[s].id
                    /\ req'[s].pc \in {"endRecord", "takeApps"} => req'[s].ret = "create"
  BY DEF TiedInv
<1>0. /\ s \in Reqs /\ DOMAIN req = Reqs /\ req[s] \in Request
      /\ AfterSession(req[s]) => sess[s].id = req[s].id /\ sess[s].st # "none"
      /\ req[s].pc \in {"endRecord", "takeApps"} => req[s].ret = "create"
  BY Shape, Fields DEF Reqs, TiedInv, FreshInv, Known
<1>1. SessionsKept
  BY NextSessions
<1>2. CASE Step(s)
  <2>1. SidMoves(s, req[s], req'[s])
    BY <1>2, SidStepMoves
  <2>2. CreateSession(s) => sess'[s].id = req[s].id \/ req'[s].pc = "error"
    <3>1. DOMAIN sess = Sids
      BY DEF ShapeInv, TypeOK
    <3> QED BY <1>0, <3>1, Fields DEF CreateSession
  <2>3. req'[s].pc = "error" => ~AfterSession(req'[s])
    BY DEF AfterSession, Ends, EndsApps
  <2> QED BY <1>0, <1>1, <2>1, <2>2, <2>3 DEF SidMoves, SessionsKept
<1>3. CASE req'[s] = req[s]
  BY <1>0, <1>1, <1>3 DEF SessionsKept
<1>4. CASE Deliver(s)
  <2>1. /\ req'[s].pc = req[s].pc /\ req'[s].id = req[s].id /\ req'[s].ret = req[s].ret
        /\ UNCHANGED sess
    BY <1>0, <1>4 DEF Deliver, Request, storeVars
  <2> QED BY <1>0, <2>1 DEF AfterSession
<1>5. CASE Arrive(s)
  <2>1. req'[s].pc \in {"join", "load", "consume", "grant"}
    <3>1. "pc" \in DOMAIN req[s]
      BY <1>0, Fields
    <3> QED BY <1>0, <1>5, <3>1 DEF Arrive, SignInReturns, AuthorizeArrives, CodePresented,
         TokenPresented, LogoutArrives
  <2> QED BY <2>1 DEF AfterSession, Ends, EndsApps
<1>6. ASSUME NEW x \in Reqs, x # s, Arrive(x) \/ Step(x) \/ Deliver(x) PROVE req'[s] = req[s]
  BY <1>0, <1>6, StepMoves, EdgeMoves DEF Moves
<1> QED BY <1>2, <1>3, <1>4, <1>5, <1>6 DEF Next, Tick, vars

LEMMA TiedInit == Init => TiedInv
BY DEF Init, Blank, TiedInv, AfterSession, Ends, EndsApps, Reqs

\* With requests Q: the end that the shared session i was made with.
FirstEnd(i, Q) == Q[i].at + SessionTTL

\* A shared session that was made is there, live or gone, and keeps its first end.
FirstsKept ==
    \A i \in SignIns : shared[i].st # "none" =>
        shared'[i].st # "none" /\ FirstEnd(i, req') = FirstEnd(i, req)

\* The one reading of the clock that a sign-in goes by.
LEMMA StepReading ==
    ASSUME ShapeInv, NEW r \in SignIns, Step(r)
    PROVE  req'[r].at = req[r].at
<1> DEFINE e == req[r]
<1>0. /\ r \in Reqs /\ r \in Sids /\ r \notin Answers /\ DOMAIN req = Reqs
      /\ {"pc", "todo", "ret", "at"} \subseteq DOMAIN e
  <2>1. r \in Reqs /\ r \in Sids /\ r \notin Answers
    BY RequestsAssumption DEF Reqs, Sids
  <2> QED BY <2>1, Fields, Shape DEF Request
<1>1. CASE JoinLoad(r) \/ JoinReplace(r) \/ JoinCreate(r) \/ CreateSession(r)
  BY <1>0, <1>1 DEF JoinLoad, JoinReplace, JoinCreate, CreateSession
<1>2. CASE AddSharedApp(r)
  <2>1. CASE \E S, l : req' = [req EXCEPT ![r] = Ending(e, S, l)]
    BY <1>0, <2>1 DEF Ending
  <2>2. CASE req' = [req EXCEPT ![r] = [e EXCEPT !.pc = "code"]]
    BY <1>0, <2>2
  <2> QED BY <1>0, <1>2, <2>1, <2>2 DEF AddSharedApp, Unrecorded
<1>3. CASE TakeApps(r) \/ EndDel(r) \/ SharedLive(r)
  <2>1. CASE \E S, l : req' = [req EXCEPT ![r] = Ending(e, S, l)]
    BY <1>0, <2>1 DEF Ending
  <2>2. CASE \E l : req' = [req EXCEPT ![r].pc = l]
    BY <1>0, <2>2
  <2> QED BY <1>3, <2>1, <2>2 DEF TakeApps, EndDel, SharedLive
<1>4. CASE SaveAppCode(r) \/ EndRecord(r) \/ EndLoad(r) \/ EndGrant(r)
  BY <1>0, <1>4 DEF SaveAppCode, EndRecord, EndLoad, EndGrant
<1> QED BY <1>0, <1>1, <1>2, <1>3, <1>4, SidSteps DEF AnswerLoad

LEMMA NextFirsts ==
    ASSUME ShapeInv, FreshInv, [Next]_vars
    PROVE  FirstsKept
<1> SUFFICES ASSUME NEW i \in SignIns, shared[i].st # "none"
             PROVE  shared'[i].st # "none" /\ req'[i].at = req[i].at
  BY DEF FirstsKept, FirstEnd
<1>0. /\ i \in Reqs /\ DOMAIN req = Reqs /\ req[i] \in Request /\ DOMAIN shared = SignIns
      /\ \A j \in SignIns : shared[j] \in Shared
  <2>1. i \in Reqs
    BY DEF Reqs, Sids
  <2> QED BY <2>1, Shape, Fields DEF ShapeInv, TypeOK
<1>1. shared'[i].st # "none"
  <2>1. ASSUME NEW r \in Reqs, JoinReplace(r) PROVE shared'[i].st # "none"
    <3> DEFINE j == req[r].id
               h == [shared[j] EXCEPT !.sec = r, !.ways = req[r].ways, !.ends = req[r].until]
    <3>1. shared' = [shared EXCEPT ![j] = h] \/ UNCHANGED shared
      BY <2>1 DEF JoinReplace
    <3>2. j = i => h.st = shared[i].st
      BY <1>0 DEF Shared
    <3> HIDE DEF h
    <3> QED BY <1>0, <3>1, <3>2
  <2>2. ASSUME NEW r \in Reqs, JoinCreate(r) PROVE shared'[i].st # "none"
    <3> DEFINE h == [st |-> "live", sec |-> r, p |-> req[r].p,
                     ways |-> [m \in Methods |-> IF m = req[r].m THEN req[r].at + SessionTTL ELSE 0],
                     ends |-> req[r].at + SessionTTL]
    <3>1. shared' = [shared EXCEPT ![r] = h] \/ UNCHANGED shared
      BY <2>2 DEF JoinCreate
    <3>2. h.st = "live"
      OBVIOUS
    <3> HIDE DEF h
    <3> QED BY <1>0, <3>1, <3>2
  <2>3. ASSUME NEW r \in Reqs, EndRecord(r) PROVE shared'[i].st # "none"
    <3> DEFINE j == req[r].id
               h == [shared[j] EXCEPT !.st = "gone"]
    <3>1. shared' = [shared EXCEPT ![j] = h] \/ UNCHANGED shared
      BY <2>3 DEF EndRecord
    <3>2. j = i => h.st = "gone"
      BY <1>0 DEF Shared
    <3> HIDE DEF h
    <3> QED BY <1>0, <3>1, <3>2
  <2>4. ASSUME NEW r \in Reqs, Step(r) PROVE shared'[i].st # "none"
    BY <2>1, <2>2, <2>3, <2>4
       DEF Step, JoinLoad, AnswerLoad, CreateSession, AddSharedApp, SharedLive, SaveAppCode,
           TakeApps, EndLoad, EndGrant, EndDel, ConsumeAppCode, ExchangeLoad, SaveRefresh,
           ReplaceSession, RefreshGrant, RefreshIssue, RevokeGrant, RevokeLoad, RevokeSession,
           RevokeToken, LogoutLoad, storeVars
  <2>5. ASSUME NEW r \in Reqs, Arrive(r) \/ Deliver(r) PROVE UNCHANGED shared
    BY <2>5, EdgeMoves DEF storeVars
  <2> QED BY <2>4, <2>5 DEF Next, Tick, vars, storeVars
<1>2. req'[i].at = req[i].at
  <2>1. CASE Deliver(i)
    BY <1>0, <2>1 DEF Deliver, Request
  <2>2. ~Arrive(i)
    <3>1. req[i].pc # "idle"
      BY <1>0 DEF FreshInv, Known, BeforeShared
    <3> QED BY <3>1 DEF Arrive, SignInReturns, AuthorizeArrives, CodePresented, TokenPresented,
         LogoutArrives
  <2>3. ASSUME NEW x \in Reqs, x # i, Arrive(x) \/ Step(x) \/ Deliver(x) PROVE req'[i] = req[i]
    BY <1>0, <2>3, StepMoves, EdgeMoves DEF Moves
  <2> QED BY <1>0, <2>1, <2>2, <2>3, StepReading DEF Next, Tick, vars
<1> QED BY <1>1, <1>2

\* With requests Q and shared sessions H: the request keeps no end before the first
\* one of its shared session, and takes the list only of one that ended.
Due(q, Q, H) ==
    /\ q.pc \in {"replace", "session", "record"} =>
           H[q.id].st # "none" /\ q.until >= FirstEnd(q.id, Q)
    /\ q.pc = "takeApps" => H[q.id].st = "gone"

\* No shared session and no list that names a session ends before its first end.
DatesInv ==
    /\ \A i \in SignIns : shared[i].st # "none" => shared[i].ends >= FirstEnd(i, req)
    /\ \A i \in SignIns : (\E c \in Clients : list[i][c] # None) =>
           shared[i].st # "none" /\ listEnds[i] >= FirstEnd(i, req)
    /\ \A r \in Reqs : Due(req[r], req, shared)

\* What a request has to keep it keeps.
LEMMA DueKept ==
    ASSUME ShapeInv, DatesInv, FirstsKept, EndedKept, NEW x \in Reqs, req'[x] = req[x]
    PROVE  Due(req'[x], req', shared')
<1>1. Due(req[x], req, shared)
  BY DEF DatesInv
<1>2. req[x].pc \in {"replace", "session", "record", "takeApps"} => req[x].id \in SignIns
  BY Shape DEF Informed
<1> QED BY <1>1, <1>2 DEF Due, FirstsKept, EndedKept

\* Of a step of r that writes no shared session it is enough to look at r.
LEMMA DatesFrame ==
    ASSUME ShapeInv, DatesInv, NEW r \in Reqs, Moves(r), UNCHANGED <<shared, list, listEnds>>,
           FirstsKept, Due(req'[r], req', shared')
    PROVE  DatesInv'
<1>1. ASSUME NEW x \in Reqs \ {r} PROVE Due(req'[x], req', shared')
  <2>1. Due(req[x], req, shared) /\ req'[x] = req[x]
    BY DEF DatesInv, Moves
  <2>2. req[x].pc \in {"replace", "session", "record"} => req[x].id \in SignIns
    BY Shape DEF Informed
  <2> QED BY <2>1, <2>2 DEF Due, FirstsKept
<1> QED BY <1>1 DEF DatesInv, FirstsKept

\* What an ended shared session is ended by.
LEMMA DatesShared ==
    ASSUME ShapeInv, DatesInv, NEW r \in Reqs, Moves(r), UNCHANGED <<list, listEnds>>,
           FirstsKept, EndedKept, Due(req'[r], req', shared'),
           \A i \in SignIns : shared'[i].st # "none" => shared'[i].ends >= FirstEnd(i, req')
    PROVE  DatesInv'
<1>1. ASSUME NEW x \in Reqs \ {r} PROVE Due(req'[x], req', shared')
  BY DueKept DEF Moves
<1> QED BY <1>1 DEF DatesInv, FirstsKept

\* A clock reading and SESSION_TTL after it.
LEMMA StepDates ==
    ASSUME ShapeInv, FreshInv, DatesInv, NEW r \in Reqs, Step(r)
    PROVE  DatesInv'
<1> DEFINE e == req[r]
           n == req'[r]
<1>0. /\ DOMAIN req = Reqs /\ Placed(r, e) /\ Informed(r, e, grant) /\ e \in Request
      /\ {"pc", "todo", "ret", "cur", "c", "id", "key", "until"} \subseteq DOMAIN e
      /\ e.at + SessionTTL \in Nat
      /\ Moves(r) /\ EndedKept /\ FirstsKept /\ Due(e, req, shared)
      /\ \A i \in SignIns : shared[i].ends \in Nat /\ FirstEnd(i, req) \in Nat
  <2>0. \A i \in SignIns : FirstEnd(i, req) \in Nat
    BY ConfigAssumption DEF ShapeInv, TypeOK, Request, FirstEnd, Reqs, Sids
  <2>1. e \in Request /\ e.at \in Nat /\ e.at + SessionTTL \in Nat /\ DOMAIN req = Reqs
    BY Shape, Fields, ConfigAssumption DEF Request
  <2>2. {"pc", "todo", "ret", "cur", "c", "id", "key", "until"} \subseteq DOMAIN e
    BY <2>1 DEF Request
  <2>3. \A i \in SignIns : shared[i].ends \in Nat
    BY DEF ShapeInv, TypeOK, Shared
  <2> QED BY <2>0, <2>1, <2>2, <2>3, Shape, StepMoves, StepKeepsEnded, NextFirsts DEF DatesInv, Next
<1>1. CASE JoinLoad(r)
  <2>1. UNCHANGED <<shared, list, listEnds>>
    BY <1>1 DEF JoinLoad, storeVars
  <2>2. CASE /\ Holds(e.ck) /\ n.pc = "replace" /\ n.id = e.ck.id
             /\ n.until = KeptEnd(shared[e.ck.id].ends, e.at + SessionTTL)
    <3>1. e.ck.id \in SignIns /\ shared[e.ck.id].st # "none"
      BY <1>0, <2>2 DEF Holds, Request, Cookie, LiveShared
    <3>2. n.until >= FirstEnd(n.id, req)
      BY <1>0, <2>2, <3>1 DEF KeptEnd, DatesInv
    <3> QED BY <1>0, <2>1, <2>2, <3>1, <3>2, DatesFrame DEF Due, FirstsKept
  <2>3. CASE n.pc \in {"endRecord", "create"}
    BY <1>0, <2>1, <2>3, DatesFrame DEF Due
  <2>4. CASE Holds(e.ck) /\ SamePerson(shared[e.ck.id], e) /\ req' = [req EXCEPT ![r] =
                 [@ EXCEPT !.pc = "replace", !.id = e.ck.id,
                           !.ways = [shared[e.ck.id].ways EXCEPT ![e.m] = e.at + SessionTTL],
                           !.until = KeptEnd(shared[e.ck.id].ends, e.at + SessionTTL)]]
    BY <1>0, <2>2, <2>4
  <2>5. CASE req' = [req EXCEPT ![r] = [@ EXCEPT !.pc = "endRecord", !.id = e.ck.id,
                                                 !.ret = "create"]]
    BY <1>0, <2>3, <2>5
  <2> QED BY <1>0, <1>1, <2>3, <2>4, <2>5 DEF JoinLoad
<1>2. CASE JoinReplace(r)
  <2>1. e.pc = "replace" /\ e.id \in SignIns /\ UNCHANGED <<list, listEnds>>
        /\ shared[e.id].st # "none" /\ e.until >= FirstEnd(e.id, req)
    BY <1>0, <1>2 DEF JoinReplace, Informed, Due
  <2>2. CASE UNCHANGED shared /\ n.pc \in {"create", "error"}
    BY <1>0, <2>1, <2>2, DatesFrame DEF Due
  <2>3. CASE /\ shared' = [shared EXCEPT ![e.id] = [@ EXCEPT !.sec = r, !.ways = e.ways,
                                                             !.ends = e.until]]
             /\ n.pc = "session" /\ n.until = e.until /\ n.id = e.id
    <3> DEFINE h == [shared[e.id] EXCEPT !.sec = r, !.ways = e.ways, !.ends = e.until]
    <3>1. h.ends = e.until
      BY <2>1 DEF ShapeInv, TypeOK, Shared
    <3>2. DOMAIN shared = SignIns /\ shared' = [shared EXCEPT ![e.id] = h]
      BY <2>3 DEF ShapeInv, TypeOK
    <3> HIDE DEF h
    <3>3. \A i \in SignIns : shared'[i].st # "none" => shared'[i].ends >= FirstEnd(i, req')
      BY <1>0, <2>1, <3>1, <3>2 DEF DatesInv, FirstsKept
    <3>4. Due(n, req', shared')
      BY <1>0, <2>1, <2>3 DEF Due, FirstsKept
    <3> QED BY <1>0, <2>1, <3>3, <3>4, DatesShared
  <2> QED BY <1>0, <1>2, <2>2, <2>3 DEF JoinReplace
<1>3. CASE JoinCreate(r)
  <2>0. UNCHANGED <<list, listEnds>>
    BY <1>3 DEF JoinCreate
  <2> DEFINE end == e.at + SessionTTL
             h == [st |-> "live", sec |-> r, p |-> e.p,
                   ways |-> [m \in Methods |-> IF m = e.m THEN end ELSE 0], ends |-> end]
  <2>1. h.ends = end /\ h.st = "live" /\ r \in SignIns /\ FirstEnd(r, req') = end
    <3>1. r \in SignIns
      BY <1>0, <1>3, RequestsAssumption DEF JoinCreate, Placed, Ends, EndsApps, Reqs, Sids
    <3> QED BY <1>3, <3>1, StepReading DEF FirstEnd
  <2>2. CASE UNCHANGED shared /\ n.pc = "error"
    BY <1>0, <2>0, <2>2, DatesFrame DEF Due
  <2>3. CASE shared' = [shared EXCEPT ![r] = h] /\ n.pc = "session" /\ n.until = end /\ n.id = r
    <3>1. DOMAIN shared = SignIns
      BY DEF ShapeInv, TypeOK
    <3> HIDE DEF h
    <3>2. \A i \in SignIns \ {r} : shared'[i] = shared[i]
      BY <2>3, <3>1
    <3>3. shared'[r] = h
      BY <2>1, <2>3, <3>1
    <3>4. \A i \in SignIns : shared'[i].st # "none" => shared'[i].ends >= FirstEnd(i, req')
      BY <1>0, <2>1, <3>2, <3>3 DEF DatesInv, FirstsKept
    <3>5. Due(n, req', shared')
      BY <1>0, <2>1, <2>3, <3>3 DEF Due
    <3> QED BY <1>0, <2>0, <3>4, <3>5, DatesShared
  <2> QED BY <1>0, <1>3, <2>2, <2>3 DEF JoinCreate
<1>4. CASE AnswerLoad(r)
  <2>1. UNCHANGED <<shared, list, listEnds>>
    BY <1>4 DEF AnswerLoad, storeVars
  <2>2. \/ n.pc = "page"
        \/ Holds(e.ck) /\ n.pc = "session" /\ n.until = shared[e.ck.id].ends /\ n.id = e.ck.id
    BY <1>0, <1>4 DEF AnswerLoad
  <2>3. Holds(e.ck) => e.ck.id \in SignIns /\ shared[e.ck.id].st # "none"
    BY <1>0 DEF Holds, Request, Cookie, LiveShared
  <2> QED BY <1>0, <2>1, <2>2, <2>3, DatesFrame DEF Due, DatesInv, FirstsKept
<1>5. CASE CreateSession(r)
  <2>1. /\ UNCHANGED <<shared, list, listEnds>> /\ e.pc = "session"
        /\ n.pc \in {"record", "error"} /\ n.until = e.until /\ n.id = e.id
        /\ e.id \in SignIns
    BY <1>0, <1>5 DEF CreateSession, Informed
  <2> QED BY <1>0, <2>1, DatesFrame DEF Due, FirstsKept
<1>6. CASE AddSharedApp(r)
  <2>1. /\ UNCHANGED shared /\ e.pc = "record" /\ e.id \in SignIns
        /\ shared[e.id].st # "none" /\ e.until >= FirstEnd(e.id, req)
    BY <1>0, <1>6 DEF AddSharedApp, Informed, Due
  <2>2. n.pc \in {"code", "endLoad", "recheck", "page"}
    <3>1. CASE \E l \in {"recheck", "code"} : req' = [req EXCEPT ![r] = Ending(e, Earlier(r), l)]
      BY <1>0, <3>1 DEF Ending
    <3>2. CASE req' = [req EXCEPT ![r] = Ending(e, {r}, "page")]
      BY <1>0, <3>2 DEF Ending
    <3>3. CASE req' = [req EXCEPT ![r] = [e EXCEPT !.pc = "code"]]
      BY <1>0, <3>3
    <3> QED BY <1>6, <3>1, <3>2, <3>3 DEF AddSharedApp, Unrecorded
  <2>3. /\ \A i \in SignIns \ {e.id} : list'[i] = list[i] /\ listEnds'[i] = listEnds[i]
        /\ \/ listEnds'[e.id] = e.until
           \/ list'[e.id] = list[e.id] /\ listEnds'[e.id] = listEnds[e.id]
    BY <1>6, <2>1 DEF AddSharedApp, ShapeInv, TypeOK
  <2>4. \A i \in SignIns : (\E c \in Clients : list'[i][c] # None) =>
            shared'[i].st # "none" /\ listEnds'[i] >= FirstEnd(i, req')
    BY <1>0, <2>1, <2>3 DEF DatesInv, FirstsKept
  <2>5. \A x \in Reqs : Due(req'[x], req', shared')
    BY <1>0, <2>2, DueKept DEF Moves, Due
  <2> QED BY <1>0, <2>1, <2>4, <2>5 DEF DatesInv, FirstsKept
<1>7. CASE TakeApps(r)
  <2>1. /\ UNCHANGED <<shared, listEnds>> /\ e.pc = "takeApps" /\ e.id \in SignIns
    BY <1>0, <1>7 DEF TakeApps, Informed
  <2>2. n.pc \notin {"replace", "session", "record", "takeApps"}
    <3>1. e.ret \in {"create", "code", "recheck", "page", "ended"}
      BY <2>1, Returns DEF Ends
    <3>2. n.pc \in {e.ret, "endLoad"}
      BY <1>0, <1>7 DEF TakeApps, Ending
    <3> QED BY <3>1, <3>2
  <2>3. list' = [list EXCEPT ![e.id] = [c \in Clients |-> None]] \/ list' = list
    BY <1>7 DEF TakeApps
  <2>4. \A i \in SignIns : \A c \in Clients : list'[i][c] # None => list[i][c] # None
    BY <2>1, <2>3 DEF ShapeInv, TypeOK
  <2>5. \A x \in Reqs : Due(req'[x], req', shared')
    BY <1>0, <2>2, DueKept DEF Moves, Due
  <2> QED BY <1>0, <2>1, <2>4, <2>5 DEF DatesInv, FirstsKept
<1>8. CASE EndRecord(r)
  <2>1. /\ UNCHANGED <<list, listEnds>> /\ e.pc = "endRecord" /\ e.id \in SignIns
    BY <1>0, <1>8 DEF EndRecord, Informed
  <2>2. CASE UNCHANGED shared /\ n.pc = e.ret
    <3>1. e.ret \in {"create", "code", "recheck", "page", "ended"}
      BY <2>1, Returns DEF Ends
    <3> QED BY <1>0, <2>1, <2>2, <3>1, DatesFrame DEF Due
  <2>3. CASE shared' = [shared EXCEPT ![e.id].st = "gone"] /\ n.pc = "takeApps" /\ n.id = e.id
             /\ LiveShared(e.id)
    <3> DEFINE h == [shared[e.id] EXCEPT !.st = "gone"]
    <3>1. h.st = "gone" /\ h.ends = shared[e.id].ends
      BY <2>1 DEF ShapeInv, TypeOK, Shared
    <3>2. DOMAIN shared = SignIns /\ shared' = [shared EXCEPT ![e.id] = h]
      BY <2>3 DEF ShapeInv, TypeOK
    <3> HIDE DEF h
    <3>3. \A i \in SignIns : shared'[i].st # "none" => shared'[i].ends >= FirstEnd(i, req')
      BY <1>0, <2>1, <2>3, <3>1, <3>2 DEF DatesInv, LiveShared, FirstsKept
    <3>4. Due(n, req', shared')
      BY <2>1, <2>3, <3>1, <3>2 DEF Due
    <3> QED BY <1>0, <2>1, <3>3, <3>4, DatesShared
  <2> QED BY <1>0, <1>8, <2>2, <2>3 DEF EndRecord
<1>9. CASE UNCHANGED <<shared, list, listEnds>> /\ n.pc \notin {"replace", "session", "record", "takeApps"}
  BY <1>0, <1>9, DatesFrame DEF Due
<1>10. CASE SharedLive(r) \/ SaveAppCode(r) \/ EndLoad(r) \/ EndGrant(r)
  BY <1>0, <1>9, <1>10 DEF SharedLive, SaveAppCode, EndLoad, EndGrant, Ending, storeVars
<1>11. CASE EndDel(r)
  <2>1. e.ret \in {"create", "code", "recheck", "page", "ended"}
    BY <1>11, Returns DEF EndDel, Ends, EndsApps
  <2>2. n.pc \in {e.ret, "endLoad"}
    BY <1>0, <1>11 DEF EndDel, Ending
  <2> QED BY <1>9, <1>11, <2>1, <2>2 DEF EndDel
<1>12. CASE ConsumeAppCode(r) \/ ExchangeLoad(r) \/ SaveRefresh(r) \/ ReplaceSession(r)
            \/ RefreshIssue(r) \/ RevokeGrant(r) \/ RevokeSession(r)
  BY <1>0, <1>9, <1>12 DEF ConsumeAppCode, ExchangeLoad, SaveRefresh, ReplaceSession,
     RefreshIssue, RevokeGrant, RevokeSession, Unavailable, storeVars
<1>13. CASE RefreshGrant(r) \/ RevokeLoad(r)
  <2>1. UNCHANGED <<shared, list, listEnds>>
    BY <1>13 DEF RefreshGrant, RevokeLoad, storeVars
  <2>2. n.pc \in {"renewSess", "refused", "unavailable", "delSess", "delGrant"}
    <3>1. PICK s, i : s = grant[e.key].sid /\ i = sess[s].id
      OBVIOUS
    <3>2. \/ req' = [req EXCEPT ![r] = [@ EXCEPT !.pc = "renewSess", !.sid = s]]
          \/ req' = [req EXCEPT ![r] = [@ EXCEPT !.pc = "delSess", !.sid = s, !.id = i]]
          \/ \E l \in {"delGrant", "refused", "unavailable"} : req' = [req EXCEPT ![r].pc = l]
      BY <1>13, <3>1 DEF RefreshGrant, RevokeLoad, Unavailable
    <3> QED BY <1>0, <3>2
  <2> QED BY <1>9, <2>1, <2>2
<1>14. CASE RevokeToken(r) \/ LogoutLoad(r)
  BY <1>0, <1>9, <1>14 DEF RevokeToken, LogoutLoad, Unavailable, storeVars
<1> QED BY <1>1, <1>2, <1>3, <1>4, <1>5, <1>6, <1>7, <1>8, <1>10, <1>11, <1>12, <1>13, <1>14
        DEF Step

LEMMA DatesStep == ShapeInv /\ FreshInv /\ DatesInv /\ [Next]_vars => DatesInv'
<1> SUFFICES ASSUME ShapeInv, FreshInv, DatesInv, [Next]_vars PROVE DatesInv'
  OBVIOUS
<1>1. CASE UNCHANGED <<req, shared, list, listEnds>>
  BY <1>1 DEF DatesInv, Due, FirstEnd
<1>2. ASSUME NEW r \in Reqs, Arrive(r) \/ Deliver(r) PROVE DatesInv'
  <2>1. Moves(r) /\ UNCHANGED <<shared, list, listEnds>>
    BY <1>2, EdgeMoves DEF storeVars
  <2>2. req'[r].pc \in Final \cup {"join", "load", "consume", "grant"}
    <3>0. DOMAIN req = Reqs /\ "pc" \in DOMAIN req[r]
      BY Fields
    <3>1. CASE Deliver(r)
      BY <2>1, <3>1 DEF Deliver, Moves
    <3>2. CASE Arrive(r)
      BY <3>0, <3>2 DEF Arrive, SignInReturns, AuthorizeArrives, CodePresented, TokenPresented,
         LogoutArrives
    <3> QED BY <1>2, <3>1, <3>2
  <2>3. Due(req'[r], req', shared')
    BY <2>2 DEF Due, Final
  <2> QED BY <2>1, <2>3, DatesFrame, NextFirsts
<1> QED BY <1>1, <1>2, StepDates DEF Next, Tick, vars, storeVars

LEMMA DatesInit == Init => DatesInv
BY DEF Init, Blank, DatesInv, Due

\* What the reach of a sign-out rests on.
BrowserInv ==
    /\ TokenInv /\ TodoInv /\ SubjectInv /\ TiedInv /\ DatesInv

LEMMA BrowserInvHolds == Spec => []BrowserInv
<1>1. Init => SubjectInv
  BY DEF Init, Blank, SubjectInv, Names
<1>2. TokenInv => ShapeInv /\ FreshInv
  BY DEF TokenInv
<1> QED BY <1>1, <1>2, TokenInvHolds, TodoInit, TodoStep, SubjectStep, TiedInit, TiedStep,
           DatesInit, DatesStep, PTL DEF Spec, BrowserInv

\* Until it has run out, the cache answers a list as it was kept.
LEMMA AppsKept ==
    ASSUME ShapeInv, DatesInv, NEW i \in SignIns, NotRunOut(i), NEW c \in Clients
    PROVE  Apps(i)[c] = list[i][c]
<1>1. now \in Nat /\ listEnds[i] \in Nat /\ FirstEnd(i, req) \in Nat /\ now < FirstEnd(i, req)
  BY ConfigAssumption DEF ShapeInv, TypeOK, Request, FirstEnd, NotRunOut, Reqs, Sids
<1>2. CASE list[i][c] = None
  BY <1>2 DEF Apps
<1>3. CASE list[i][c] # None
  BY <1>1, <1>3 DEF Apps, DatesInv
<1> QED BY <1>2, <1>3

\* What a step of r does to the list of i.
LEMMA ListMoves ==
    ASSUME BrowserInv, NEW r \in Reqs, Step(r), NEW i \in SignIns, NotRunOut(i)
    PROVE  LET e == req[r]
           IN  \/ \A c \in Clients : list'[i][c] = list[i][c]
               \/ /\ AddSharedApp(r) /\ r \in Sids /\ e.id = i /\ e.c \in Clients
                  /\ \A c \in Clients : list'[i][c] = IF c = e.c THEN r ELSE list[i][c]
                  /\ req'[r].todo = {list[i][e.c]} \ {None, r}
               \/ /\ e.pc = "takeApps" /\ e.id = i
                  /\ \A c \in Clients : list'[i][c] = None
                  /\ req'[r].todo = {list[i][c] : c \in Clients} \ {None}
<1> DEFINE e == req[r]
<1>0. /\ ShapeInv /\ DatesInv /\ DOMAIN req = Reqs /\ Placed(r, e) /\ Informed(r, e, grant)
      /\ {"pc", "todo", "ret"} \subseteq DOMAIN e
      /\ \A c \in Clients : Apps(i)[c] = list[i][c]
      /\ DOMAIN list = SignIns /\ DOMAIN list[i] = Clients /\ DOMAIN Apps(i) = Clients
  <2>1. ShapeInv /\ DatesInv
    BY DEF BrowserInv, TokenInv
  <2> QED BY <2>1, AppsKept, AppsType, Shape, Fields DEF ShapeInv, TypeOK
<1>1. CASE AddSharedApp(r)
  <2>1. r \in Sids /\ e.id \in SignIns /\ e.c \in Clients
    BY <1>0, <1>1, RequestsAssumption DEF AddSharedApp, Placed, Informed, Reqs, Sids, Ends, EndsApps
  <2>2. CASE /\ list' = [list EXCEPT ![e.id] = [Apps(e.id) EXCEPT ![e.c] = r]]
             /\ \E l : req' = [req EXCEPT ![r] = Ending(e, Earlier(r), l)]
    <3>1. CASE e.id # i
      BY <1>0, <2>2, <3>1
    <3>2. CASE e.id = i
      <4>1. \A c \in Clients : list'[i][c] = IF c = e.c THEN r ELSE list[i][c]
        BY <1>0, <2>1, <2>2, <3>2
      <4>2. req'[r].todo = Earlier(r)
        BY <1>0, <2>2 DEF Ending
      <4>3. Earlier(r) = {list[i][e.c]} \ {None, r}
        BY <1>0, <2>1, <3>2 DEF Earlier
      <4> QED BY <1>1, <2>1, <3>2, <4>1, <4>2, <4>3
    <3> QED BY <3>1, <3>2
  <2> QED BY <1>1, <2>2 DEF AddSharedApp
<1>2. CASE TakeApps(r)
  <2>1. e.pc = "takeApps" /\ e.id \in SignIns
    BY <1>0, <1>2 DEF TakeApps, Informed
  <2>2. CASE /\ list' = [list EXCEPT ![e.id] = [c \in Clients |-> None]]
             /\ req' = [req EXCEPT ![r] = Ending(e, {Apps(e.id)[c] : c \in Clients} \ {None}, e.ret)]
    <3>1. CASE e.id # i
      BY <1>0, <2>2, <3>1
    <3>2. CASE e.id = i
      <4>1. \A c \in Clients : list'[i][c] = None
        BY <1>0, <2>2, <3>2
      <4>2. req'[r].todo = {Apps(e.id)[c] : c \in Clients} \ {None}
        BY <1>0, <2>2 DEF Ending
      <4>3. {Apps(e.id)[c] : c \in Clients} = {list[i][c] : c \in Clients}
        BY <1>0, <3>2
      <4> QED BY <2>1, <3>2, <4>1, <4>2, <4>3
    <3> QED BY <3>1, <3>2
  <2> QED BY <1>2, <2>2 DEF TakeApps
<1>3. CASE ~AddSharedApp(r) /\ ~TakeApps(r)
  BY <1>3 DEF Step, JoinLoad, JoinReplace, JoinCreate, AnswerLoad, CreateSession, SharedLive,
     SaveAppCode, EndRecord, EndLoad, EndGrant, EndDel, ConsumeAppCode, ExchangeLoad,
     SaveRefresh, ReplaceSession, RefreshGrant, RefreshIssue, RevokeGrant, RevokeLoad,
     RevokeSession, RevokeToken, LogoutLoad, storeVars
<1> QED BY <1>1, <1>2, <1>3

\* A request whose session is recorded goes on with the same session.
LEMMA RecordedMoves ==
    ASSUME BrowserInv, [Next]_vars, NEW s \in Sids, Recorded(req'[s])
    PROVE  /\ s \in Reqs /\ AfterSession(req[s]) /\ (Recorded(req[s]) \/ AddSharedApp(s))
           /\ req'[s].id = req[s].id /\ req'[s].c = req[s].c
           /\ req[s].id \in SignIns /\ req[s].c \in Clients
           /\ sess[s].st # "none" /\ sess[s].id = req[s].id
           /\ shared[req[s].id].st # "none"
<1>0. /\ ShapeInv /\ FreshInv /\ TiedInv /\ SubjectInv /\ s \in Reqs
      /\ DOMAIN req = Reqs /\ req[s] \in Request /\ Placed(s, req[s])
  <2>1. ShapeInv /\ FreshInv /\ TiedInv /\ SubjectInv /\ s \in Reqs
    BY DEF BrowserInv, TokenInv, Reqs
  <2> QED BY <2>1, Shape, Fields
<1>1. /\ AfterSession(req[s]) /\ (Recorded(req[s]) \/ AddSharedApp(s))
      /\ req'[s].id = req[s].id /\ req'[s].c = req[s].c
  <2>0. Recorded(req[s]) => AfterSession(req[s])
    BY DEF Recorded, AfterSession, Ends
  <2>1. CASE req'[s] = req[s]
    BY <2>0, <2>1
  <2>2. CASE Deliver(s)
    <3>1. /\ req'[s].pc = req[s].pc /\ req'[s].ret = req[s].ret
          /\ req'[s].id = req[s].id /\ req'[s].c = req[s].c
      BY <1>0, <2>2 DEF Deliver, Request
    <3> QED BY <2>0, <3>1 DEF Recorded
  <2>3. ~Arrive(s)
    <3>1. "pc" \in DOMAIN req[s]
      BY <1>0, Fields
    <3> QED BY <1>0, <3>1 DEF Recorded, EndsApps, Arrive, SignInReturns, AuthorizeArrives,
         CodePresented, TokenPresented, LogoutArrives
  <2>4. CASE Step(s)
    <3>1. SidMoves(s, req[s], req'[s])
      BY <1>0, <2>4, SidStepMoves
    <3>2. AfterSession(req'[s])
      BY DEF Recorded, AfterSession, Ends
    <3>3. ~CreateSession(s)
      BY <1>0, Fields DEF CreateSession, Recorded, EndsApps
    <3> QED BY <3>1, <3>2, <3>3 DEF SidMoves
  <2>5. ASSUME NEW x \in Reqs, x # s, Arrive(x) \/ Step(x) \/ Deliver(x) PROVE req'[s] = req[s]
    BY <1>0, <2>5, StepMoves, EdgeMoves DEF Moves
  <2> QED BY <2>1, <2>2, <2>3, <2>4, <2>5 DEF Next, Tick, vars
<1>2. sess[s].st # "none" /\ sess[s].id = req[s].id
  BY <1>0, <1>1 DEF FreshInv, Known, TiedInv
<1>3. req[s].c \in Clients
  <2>1. req[s].pc # "idle"
    BY <1>1 DEF AfterSession, Ends, EndsApps
  <2> QED BY <1>0, <2>1, Shape DEF Informed
<1> QED BY <1>0, <1>1, <1>2, <1>3 DEF SubjectInv

\* An answer goes on only recorded, and so does a sign-in whose record does not fail.
LEMMA OwnAdded ==
    ASSUME ShapeInv, NEW s \in Sids, AddSharedApp(s), Recorded(req'[s]),
           s \in Answers \/ (~Fails /\ now < req[s].until)
    PROVE  list'[req[s].id][req[s].c] = s
<1> DEFINE e == req[s]
<1>0. /\ s \in Reqs /\ DOMAIN req = Reqs /\ e.id \in SignIns /\ e.c \in Clients
      /\ {"pc", "todo", "ret"} \subseteq DOMAIN e /\ DOMAIN Apps(e.id) = Clients
      /\ DOMAIN list = SignIns
  BY Shape, Fields, AppsType DEF AddSharedApp, Informed, Reqs, ShapeInv, TypeOK
<1>1. CASE s \in Answers /\ req' = [req EXCEPT ![s] = Ending(e, {s}, "page")]
  <2>1. req'[s].pc = "endLoad" /\ req'[s].ret = "page"
    BY <1>0, <1>1 DEF Ending
  <2> QED BY <2>1 DEF Recorded
<1>2. CASE list' = [list EXCEPT ![e.id] = [Apps(e.id) EXCEPT ![e.c] = s]]
  BY <1>0, <1>2
<1>3. now \in Nat /\ e.until \in Nat
  BY <1>0, Shape DEF Request, ShapeInv, TypeOK
<1> QED BY <1>1, <1>2, <1>3 DEF AddSharedApp, Unrecorded

\* What has not run out after a step had not before.
LEMMA StillKept ==
    ASSUME ShapeInv, FreshInv, [Next]_vars, NEW i \in SignIns, shared[i].st # "none",
           NotRunOut(i)'
    PROVE  NotRunOut(i)
<1>1. now \in Nat /\ now' >= now /\ now' \in Nat /\ FirstEnd(i, req) \in Nat
  BY NextClock, ConfigAssumption DEF ShapeInv, TypeOK, Request, FirstEnd, Reqs, Sids
<1>2. now' < FirstEnd(i, req') /\ FirstEnd(i, req') = FirstEnd(i, req)
  BY NextFirsts DEF FirstsKept, FirstEnd, NotRunOut
<1>3. now < FirstEnd(i, req)
  BY <1>1, <1>2
<1> QED BY <1>3 DEF NotRunOut, FirstEnd

\* An answer that goes on is on the list of its shared session while that lives.
ListedInv ==
    \A s \in Answers :
        Recorded(req[s]) /\ shared[req[s].id].st = "live" /\ NotRunOut(req[s].id) =>
            list[req[s].id][req[s].c] # None

LEMMA ListedStep == BrowserInv /\ ListedInv /\ [Next]_vars => ListedInv'
<1> SUFFICES ASSUME BrowserInv, ListedInv, [Next]_vars, NEW s \in Answers, NEW i,
                    Recorded(req'[s]), i = req'[s].id, shared'[i].st = "live", NotRunOut(i)'
             PROVE  list'[i][req'[s].c] # None
  BY DEF ListedInv, NotRunOut
<1>0. ShapeInv /\ FreshInv /\ DatesInv /\ s \in Sids /\ None \notin Sids
  <2>1. ShapeInv /\ FreshInv /\ DatesInv /\ s \in Sids
    BY DEF BrowserInv, TokenInv, Sids
  <2> QED BY <2>1, RequestsAssumption DEF Reqs, Sids
<1>1. PICK c \in Clients :
          /\ i \in SignIns /\ i = req[s].id /\ c = req[s].c /\ c = req'[s].c
          /\ shared[i].st # "none" /\ (Recorded(req[s]) \/ AddSharedApp(s))
  BY <1>0, RecordedMoves
<1>2. shared[i].st = "live" /\ NotRunOut(i)
  <2>1. shared[i].st \in Status
    BY <1>0, <1>1 DEF ShapeInv, TypeOK, Shared
  <2> QED BY <1>0, <1>1, <2>1, NextEnded, StillKept DEF EndedKept, Status
<1>3. CASE AddSharedApp(s)
  BY <1>0, <1>1, <1>3, OwnAdded
<1>4. CASE Recorded(req[s])
  <2>1. list[i][c] # None
    BY <1>0, <1>1, <1>2, <1>4 DEF ListedInv
  <2>2. ASSUME NEW r \in Reqs, Step(r) PROVE list'[i][c] # None
    <3>1. ~(req[r].pc = "takeApps" /\ req[r].id = i)
      BY <1>0, <1>2 DEF DatesInv, Due
    <3> QED BY <1>0, <1>1, <1>2, <2>1, <2>2, <3>1, ListMoves
  <2>3. ASSUME NEW r \in Reqs, Arrive(r) \/ Deliver(r) PROVE UNCHANGED list
    BY <1>0, <2>3, EdgeMoves DEF storeVars
  <2> QED BY <1>1, <2>1, <2>2, <2>3 DEF Next, Tick, vars, storeVars
<1> QED BY <1>1, <1>3, <1>4

LEMMA ListedInit == Init => ListedInv
BY DEF Init, Blank, ListedInv, Recorded, EndsApps, Reqs, Sids

\* A live session on record is on the list for its client, or on its way to being
\* ended: by the client's later session, or by whoever took the list.
RecordedInv ==
    outages = 0 =>
        \A s \in Sids :
            Recorded(req[s]) /\ LiveSession(s) /\ NotRunOut(req[s].id) =>
                BeingEnded(s) \/ list[req[s].id][req[s].c] = s

LEMMA RecordedStep == BrowserInv /\ RecordedInv /\ [Next]_vars => RecordedInv'
<1> SUFFICES ASSUME BrowserInv, RecordedInv, [Next]_vars, outages' = 0, NEW s \in Sids, NEW i,
                    Recorded(req'[s]), LiveNext(s), i = req'[s].id, NotRunOut(i)'
             PROVE  BeingEnded(s)' \/ list'[i][req'[s].c] = s
  BY DEF RecordedInv, LiveSession, LiveNext, NotRunOut
<1>0. /\ TokenInv /\ TodoInv /\ ShapeInv /\ FreshInv /\ DatesInv
      /\ outages = 0 /\ ~Fails
      /\ None \notin Sids /\ DOMAIN req = Reqs
  <2>1. TokenInv /\ TodoInv /\ ShapeInv /\ FreshInv /\ DatesInv
    BY DEF BrowserInv, TokenInv
  <2> QED BY <2>1, NoFailure, RequestsAssumption DEF Reqs, Sids, ShapeInv, TypeOK
<1>1. PICK c \in Clients :
          /\ i \in SignIns /\ i = req[s].id /\ c = req[s].c /\ c = req'[s].c
          /\ sess[s].st # "none" /\ (Recorded(req[s]) \/ AddSharedApp(s)) /\ s \in Reqs
          /\ shared[i].st # "none"
  BY RecordedMoves
<1>2. NotRunOut(i)
  BY <1>0, <1>1, StillKept
<1>3. CASE AddSharedApp(s)
  <2>1. req[s].until >= FirstEnd(i, req)
    BY <1>0, <1>1, <1>3 DEF AddSharedApp, DatesInv, Due
  <2>2. now < req[s].until
    <3>1. now \in Nat /\ req[s].until \in Nat /\ FirstEnd(i, req) \in Nat
      BY <1>0, <1>1, Shape, ConfigAssumption DEF Request, ShapeInv, TypeOK, FirstEnd, Reqs, Sids
    <3>2. now < FirstEnd(i, req)
      BY <1>2 DEF NotRunOut, FirstEnd
    <3> QED BY <2>1, <3>1, <3>2
  <2> QED BY <1>0, <1>1, <1>3, <2>2, OwnAdded
<1>4. CASE Recorded(req[s])
  <2>1. LiveSession(s)
    BY <1>0, <1>1, NextSessions DEF SessionsKept
  <2>2. CASE BeingEnded(s)
    BY <1>0, <2>2, EndingKept
  <2>3. CASE list[i][c] = s
    <3>1. ASSUME NEW r \in Reqs, Step(r) PROVE BeingEnded(s)' \/ list'[i][c] = s
      <4>1. ASSUME s \in req'[r].todo PROVE BeingEnded(s)'
        BY <4>1 DEF BeingEnded
      <4>2. CASE \A d \in Clients : list'[i][d] = list[i][d]
        BY <2>3, <4>2
      <4>3. CASE /\ \A d \in Clients : list'[i][d] = IF d = req[r].c THEN r ELSE list[i][d]
                 /\ req'[r].todo = {list[i][req[r].c]} \ {None, r}
        BY <1>0, <2>3, <4>1, <4>3
      <4>4. CASE req'[r].todo = {list[i][d] : d \in Clients} \ {None}
        BY <1>0, <2>3, <4>1, <4>4
      <4> QED BY <1>1, <1>2, <3>1, <4>2, <4>3, <4>4, ListMoves
    <3>2. ASSUME NEW r \in Reqs, Arrive(r) \/ Deliver(r) PROVE UNCHANGED list
      BY <1>0, <3>2, EdgeMoves DEF storeVars
    <3> QED BY <1>1, <2>3, <3>1, <3>2 DEF Next, Tick, vars, storeVars
  <2> QED BY <1>0, <1>1, <1>2, <1>4, <2>1, <2>2, <2>3 DEF RecordedInv
<1> QED BY <1>1, <1>3, <1>4

LEMMA RecordedInit == Init => RecordedInv
BY DEF Init, Blank, RecordedInv, Recorded, EndsApps, Reqs, Sids

\* A shared session stops being kept only by an end that goes on to take its list.
LEMMA SharedStays ==
    ASSUME ShapeInv, FreshInv, [Next]_vars, NEW i \in SignIns, shared[i].st = "live"
    PROVE  shared'[i].st = "live" \/ BeingTaken(i)'
<1>0. DOMAIN shared = SignIns /\ DOMAIN req = Reqs
  BY DEF ShapeInv, TypeOK
<1>1. ASSUME NEW r \in Reqs, Step(r) PROVE shared'[i].st = "live" \/ BeingTaken(i)'
  <2>1. CASE JoinReplace(r)
    <3> DEFINE j == req[r].id
               h == [shared[j] EXCEPT !.sec = r, !.ways = req[r].ways, !.ends = req[r].until]
    <3>1. shared' = [shared EXCEPT ![j] = h] \/ UNCHANGED shared
      BY <2>1 DEF JoinReplace
    <3>2. j = i => h.st = "live"
      BY <1>0 DEF ShapeInv, TypeOK, Shared
    <3> HIDE DEF h
    <3> QED BY <1>0, <3>1, <3>2
  <2>2. CASE JoinCreate(r)
    <3> DEFINE h == [st |-> "live", sec |-> r, p |-> req[r].p,
                     ways |-> [m \in Methods |-> IF m = req[r].m THEN req[r].at + SessionTTL ELSE 0],
                     ends |-> req[r].at + SessionTTL]
    <3>1. shared' = [shared EXCEPT ![r] = h] \/ UNCHANGED shared
      BY <2>2 DEF JoinCreate
    <3>2. h.st = "live"
      OBVIOUS
    <3> HIDE DEF h
    <3> QED BY <1>0, <3>1, <3>2
  <2>3. CASE EndRecord(r)
    <3>1. CASE shared' = [shared EXCEPT ![req[r].id].st = "gone"] /\ req' = [req EXCEPT ![r].pc = "takeApps"]
      <4>1. i # req[r].id => shared'[i] = shared[i]
        BY <1>0, <3>1
      <4>2. req'[r].pc = "takeApps" /\ req'[r].id = req[r].id
        BY <1>0, <3>1, Shape DEF Request
      <4> QED BY <4>1, <4>2 DEF BeingTaken
    <3> QED BY <2>3, <3>1 DEF EndRecord
  <2>4. CASE UNCHANGED shared
    BY <2>4
  <2> QED BY <1>1, <2>1, <2>2, <2>3, <2>4
          DEF Step, JoinLoad, AnswerLoad, CreateSession, AddSharedApp, SharedLive, SaveAppCode,
              TakeApps, EndLoad, EndGrant, EndDel, ConsumeAppCode, ExchangeLoad, SaveRefresh,
              ReplaceSession, RefreshGrant, RefreshIssue, RevokeGrant, RevokeLoad, RevokeSession,
              RevokeToken, LogoutLoad, storeVars
<1>2. ASSUME NEW r \in Reqs, Arrive(r) \/ Deliver(r) PROVE UNCHANGED shared
  BY <1>2, EdgeMoves DEF storeVars
<1> QED BY <1>1, <1>2 DEF Next, Tick, vars, storeVars

\* A list about to be taken is still about to be, or every session on it about to be ended.
LEMMA TakenEnded ==
    ASSUME BrowserInv, [Next]_vars, ~Fails,
           NEW i \in SignIns, NotRunOut(i), BeingTaken(i), NEW c \in Clients, NEW s \in Sids, list[i][c] = s
    PROVE  BeingTaken(i)' \/ BeingEnded(s)'
<1>0. /\ ShapeInv /\ DatesInv /\ DOMAIN req = Reqs /\ None \notin Sids
  <2>1. ShapeInv /\ DatesInv
    BY DEF BrowserInv, TokenInv
  <2> QED BY <2>1, RequestsAssumption DEF Reqs, Sids, ShapeInv, TypeOK
<1>1. PICK r \in Reqs : req[r].pc = "takeApps" /\ req[r].id = i
  BY DEF BeingTaken
<1>2. CASE TakeApps(r)
  <2>1. req'[r].todo = {Apps(i)[d] : d \in Clients} \ {None}
    <3>1. {"pc", "todo", "ret"} \subseteq DOMAIN req[r]
      BY <1>0, Fields
    <3> DEFINE S == {Apps(i)[d] : d \in Clients} \ {None}
    <3>2. req' = [req EXCEPT ![r] = Ending(req[r], S, req[r].ret)]
      BY <1>1, <1>2 DEF TakeApps
    <3> HIDE DEF S
    <3>3. req'[r].todo = S
      BY <1>0, <3>1, <3>2 DEF Ending
    <3> QED BY <3>3 DEF S
  <2>2. s \in req'[r].todo
    BY <1>0, <2>1, AppsKept
  <2> QED BY <2>2 DEF BeingEnded
<1>3. CASE req'[r] = req[r]
  BY <1>1, <1>3 DEF BeingTaken
<1>4. Step(r) => TakeApps(r)
  BY <1>1 DEF Step, JoinLoad, JoinReplace, JoinCreate, AnswerLoad, CreateSession, AddSharedApp,
     SharedLive, SaveAppCode, EndRecord, EndLoad, EndGrant, EndDel, ConsumeAppCode,
     ExchangeLoad, SaveRefresh, ReplaceSession, RefreshGrant, RefreshIssue, RevokeGrant,
     RevokeLoad, RevokeSession, RevokeToken, LogoutLoad
<1>5. ~Arrive(r) /\ ~Deliver(r)
  BY <1>1 DEF Arrive, SignInReturns, AuthorizeArrives, CodePresented, TokenPresented,
     LogoutArrives, Deliver, Final
<1>6. ASSUME NEW x \in Reqs, x # r, Arrive(x) \/ Step(x) \/ Deliver(x) PROVE req'[r] = req[r]
  BY <1>0, <1>6, StepMoves, EdgeMoves DEF Moves
<1> QED BY <1>2, <1>3, <1>4, <1>5, <1>6 DEF Next, Tick, vars

\* An answered session that may still be redeemed has its shared session, or somebody
\* who ended that is about to end the session as well.
AnsweredLiveInv ==
    outages = 0 =>
        \A s \in Answers :
            req[s].pc \in {"code", "coded"} /\ LiveSession(s) /\ NotRunOut(req[s].id) =>
                \/ BeingEnded(s)
                \/ shared[req[s].id].st = "live"
                \/ BeingTaken(req[s].id)

LEMMA AnsweredLiveStep ==
    BrowserInv /\ RecordedInv /\ AnsweredLiveInv /\ [Next]_vars => AnsweredLiveInv'
<1> SUFFICES ASSUME BrowserInv, RecordedInv, AnsweredLiveInv, [Next]_vars,
                    outages' = 0, NEW s \in Answers, NEW i, i = req'[s].id, NotRunOut(i)',
                    req'[s].pc \in {"code", "coded"}, LiveNext(s)
             PROVE  BeingEnded(s)' \/ shared'[i].st = "live" \/ BeingTaken(i)'
  BY DEF AnsweredLiveInv, LiveSession, LiveNext, BeingTaken, NotRunOut
<1>0. /\ TokenInv /\ TodoInv /\ TiedInv /\ ShapeInv /\ FreshInv
      /\ outages = 0 /\ ~Fails
      /\ s \in Sids /\ s \in Reqs /\ DOMAIN req = Reqs
  <2>1. TokenInv /\ TodoInv /\ TiedInv /\ ShapeInv /\ FreshInv /\ s \in Sids /\ s \in Reqs
    BY DEF BrowserInv, TokenInv, Sids, Reqs
  <2> QED BY <2>1, NoFailure DEF ShapeInv, TypeOK
<1>1. PICK c \in Clients :
          /\ i \in SignIns /\ i = req[s].id /\ c = req[s].c
          /\ sess[s].st # "none" /\ shared[i].st # "none"
  BY <1>0, RecordedMoves DEF Recorded
<1>2. LiveSession(s) /\ NotRunOut(i)
  BY <1>0, <1>1, NextSessions, StillKept DEF SessionsKept
<1>3. CASE BeingEnded(s)
  BY <1>0, <1>3, EndingKept
<1>4. CASE shared[i].st = "live"
  BY <1>0, <1>1, <1>4, SharedStays
<1>5. CASE req[s].pc \in {"code", "coded"}
  <2>1. CASE BeingTaken(i) /\ ~BeingEnded(s)
    <3>1. list[i][c] = s
      BY <1>0, <1>1, <1>2, <1>5, <2>1 DEF RecordedInv, Recorded
    <3> QED BY <1>0, <1>1, <1>2, <2>1, <3>1, TakenEnded
  <2> QED BY <1>0, <1>1, <1>2, <1>3, <1>4, <1>5, <2>1 DEF AnsweredLiveInv
<1>6. CASE Step(s)
  <2>1. req[s].pc = "code" \/ LiveShared(i)
    BY <1>0, <1>1, <1>6, SidStepMoves DEF SidMoves
  <2> QED BY <1>4, <1>5, <2>1 DEF LiveShared
<1>7. CASE Deliver(s)
  <2>1. req'[s].pc = req[s].pc
    BY <1>0, <1>7, EdgeMoves DEF Moves, Deliver
  <2> QED BY <1>5, <2>1
<1>8. ~Arrive(s)
  <2>1. "pc" \in DOMAIN req[s]
    BY <1>0, Fields
  <2> QED BY <1>0, <2>1 DEF Arrive, SignInReturns, AuthorizeArrives, CodePresented,
       TokenPresented, LogoutArrives
<1>9. ASSUME NEW x \in Reqs, x # s, Arrive(x) \/ Step(x) \/ Deliver(x) PROVE req'[s] = req[s]
  BY <1>0, <1>9, StepMoves, EdgeMoves DEF Moves
<1> QED BY <1>5, <1>6, <1>7, <1>8, <1>9 DEF Next, Tick, vars

LEMMA AnsweredLiveInit == Init => AnsweredLiveInv
BY DEF Init, Blank, AnsweredLiveInv, Reqs, Sids

LEMMA ReachInvHolds == Spec => [](BrowserInv /\ ListedInv /\ RecordedInv /\ AnsweredLiveInv)
BY BrowserInvHolds, ListedInit, ListedStep, RecordedInit, RecordedStep, AnsweredLiveInit,
   AnsweredLiveStep, PTL DEF Spec

\* What a completed request's session and shared session have to do with each other.
LEMMA CodedTied ==
    ASSUME BrowserInv, NEW s \in Sids, req[s].pc = "coded"
    PROVE  Recorded(req[s]) /\ sess[s].id = req[s].id /\ sess[s].id \in SignIns
           /\ req[s].c \in Clients
<1>1. ShapeInv /\ FreshInv /\ TiedInv /\ SubjectInv /\ s \in Reqs
  BY DEF BrowserInv, TokenInv, Reqs
<1>2. Recorded(req[s]) /\ AfterSession(req[s])
  BY DEF Recorded, AfterSession
<1>3. sess[s].id = req[s].id /\ sess[s].st # "none"
  BY <1>1, <1>2 DEF FreshInv, Known, TiedInv
<1>4. req[s].c \in Clients
  BY <1>1, Shape DEF Informed
<1> QED BY <1>1, <1>2, <1>3, <1>4 DEF SubjectInv

\* A client answered from a shared session is on its list as long as that lives, for
\* any number of requests and whichever store calls fail: an answer that could not be
\* recorded is taken back, and only the end of the shared session takes the list
\* (answerFromShared and addSharedApp, PutSharedApp).
THEOREM AnsweredIsListed == Spec => []AnsweredListed
<1>1. BrowserInv /\ ListedInv => AnsweredListed
  <2> SUFFICES ASSUME BrowserInv, ListedInv, NEW s \in Answers, req[s].pc = "coded",
                      LiveShared(sess[s].id), NotRunOut(sess[s].id)
               PROVE  Apps(sess[s].id)[req[s].c] # None
    BY DEF AnsweredListed
  <2>1. ShapeInv /\ DatesInv /\ s \in Sids
    BY DEF BrowserInv, TokenInv, Sids
  <2>2. PICK i \in SignIns, c \in Clients :
            i = req[s].id /\ i = sess[s].id /\ c = req[s].c /\ Recorded(req[s])
    BY <2>1, CodedTied
  <2>3. list[i][c] # None
    BY <2>2 DEF ListedInv, LiveShared
  <2> QED BY <2>1, <2>2, <2>3, AppsKept
<1> QED BY <1>1, ReachInvHolds, PTL

\* A client has one session under a shared session, while the store answers: of two
\* that completed, one has ended or is being ended, whichever of their requests and
\* of the other steps came first (putSharedApp answers the session it replaces, and
\* addSharedApp ends it).
THEOREM OnePerClient == Spec => []OneSessionPerClient
<1>1. BrowserInv /\ RecordedInv => OneSessionPerClient
  <2> SUFFICES ASSUME BrowserInv, RecordedInv, outages = 0,
                      NEW s \in Sids, NEW t \in Sids, s # t,
                      sess[s].id = sess[t].id, req[s].c = req[t].c,
                      req[s].pc = "coded", LiveSession(s),
                      req[t].pc = "coded", LiveSession(t), NotRunOut(sess[s].id)
               PROVE  BeingEnded(s) \/ BeingEnded(t)
    BY DEF OneSessionPerClient
  <2>1. /\ Recorded(req[s]) /\ Recorded(req[t]) /\ req[s].id = req[t].id
        /\ sess[s].id = req[s].id
    BY CodedTied
  <2> QED BY <2>1 DEF RecordedInv
<1> QED BY <1>1, ReachInvHolds, PTL

\* No sign-out leaves behind an app that was answered from its shared session, while
\* the store answers: however the answer's steps fall between those of the sign-out,
\* and of others at the same client, its live session is being ended, or is on the
\* list of a shared session that a sign-out can still end or is about to take the list of
\* (answerFromShared records it and then reads the shared session again; EndShared
\* removes that and then takes the list, store.go).
THEOREM SignOutFindsAnswered == Spec => []AnsweredReached
<1>1. BrowserInv /\ RecordedInv /\ AnsweredLiveInv => AnsweredReached
  <2> SUFFICES ASSUME BrowserInv, RecordedInv, AnsweredLiveInv, outages = 0, NEW s \in Answers,
                      req[s].pc = "coded", LiveSession(s), NotRunOut(sess[s].id), ~BeingEnded(s)
               PROVE  Reached(s)
    BY DEF AnsweredReached, Reached
  <2>1. ShapeInv /\ DatesInv /\ s \in Sids
    BY DEF BrowserInv, TokenInv, Sids
  <2>2. PICK i \in SignIns, c \in Clients :
            i = req[s].id /\ i = sess[s].id /\ c = req[s].c /\ Recorded(req[s])
    BY <2>1, CodedTied
  <2>3. Apps(i)[c] = s
    BY <2>1, <2>2, AppsKept DEF RecordedInv
  <2>4. shared[i].st = "live" \/ BeingTaken(i)
    BY <2>2 DEF AnsweredLiveInv
  <2>5. shared[i].st = "live" => LiveShared(i)
    <3>1. now \in Nat /\ shared[i].ends \in Nat /\ FirstEnd(i, req) \in Nat
      BY <2>1, ConfigAssumption DEF ShapeInv, TypeOK, Shared, Request, FirstEnd, Reqs, Sids
    <3>2. now < FirstEnd(i, req)
      BY <2>2 DEF NotRunOut, FirstEnd
    <3> QED BY <2>1, <3>1, <3>2 DEF LiveShared, DatesInv
  <2> QED BY <2>2, <2>3, <2>4, <2>5 DEF Reached
<1> QED BY <1>1, ReachInvHolds, PTL

-----------------------------------------------------------------------------
(* What an answer from the shared session rests on.                         *)

\* With requests Q: i is a sign-in that returned in browser b.
InBrowser(i, b, Q) == i \in SignIns /\ Q[i].pc # "idle" /\ Q[i].b = b

\* With requests Q: p proved m in browser b, and that way ends at e.
Proved(b, p, m, e, Q) ==
    \E s \in SignIns : /\ InBrowser(s, b, Q) /\ Q[s].p = p /\ Q[s].m = m
                       /\ e = Q[s].at + SessionTTL

\* The answer has not found a way yet, or has none to give.
NoWayYet == {"idle", "join", "load", "page", "error"}

\* What request r, which makes a session, has read: the cookie's shared session is one
\* of its own browser, and the ways it writes and the one it answers from were proved
\* there.
Backed(r, Q) ==
    LET q == Q[r] IN
    /\ q.pc \in {"idle", "join"} => q.set # "give"
    /\ q.pc # "idle" /\ q.ck.id # None => InBrowser(q.ck.id, q.b, Q)
    /\ q.set = "give" \/ q.pc = "replace" => InBrowser(q.id, q.b, Q)
    /\ q.pc = "replace" => \A m \in Methods :
           q.ways[m] # 0 => Proved(q.b, q.p, m, q.ways[m], Q)
    /\ r \in Answers /\ q.pc \notin NoWayYet => Proved(q.b, q.p, q.m, q.ends, Q)

\* Every cookie names a shared session that was made in its browser,
CookiesBacked ==
    \A b \in Browsers : cookie[b].id # None => InBrowser(cookie[b].id, b, req)

\* which holds only ways that its person proved there.
SharedBacked ==
    \A i \in SignIns : shared[i].st # "none" => \A m \in Methods :
        shared[i].ways[m] # 0
            => Proved(req[i].b, shared[i].p, m, shared[i].ways[m], req)

\* The inductive invariant of AnsweredOnProof.
ProvedInv ==
    /\ \A r \in Sids : Backed(r, req)
    /\ CookiesBacked
    /\ SharedBacked

\* What a request has from the sign-in or the browser stays as it is,
SameSignIn(r, e, n) ==
    /\ n.pc # "idle" /\ n.b = e.b /\ n.ck = e.ck
    /\ r \in SignIns => n.p = e.p /\ n.m = e.m /\ n.at = e.at

\* and so does what it read, once it is past reading.
SameReading(r, e, n) ==
    /\ n.set = e.set /\ n.id = e.id /\ n.p = e.p /\ n.m = e.m /\ n.ends = e.ends
    /\ e.pc \notin NoWayYet /\ n.pc \notin {"idle", "join", "replace"}

\* The steps that read a shared session or make one.
Joins(r) == JoinLoad(r) \/ JoinReplace(r) \/ JoinCreate(r) \/ AnswerLoad(r)

LEMMA SidFields ==
    ASSUME ShapeInv, NEW r \in Sids, Step(r)
    PROVE  /\ SameSignIn(r, req[r], req'[r])
           /\ Joins(r) \/ SameReading(r, req[r], req'[r])
<1> DEFINE e == req[r]
           n == req'[r]
<1>0. /\ r \in Reqs /\ DOMAIN req = Reqs
      /\ {"pc", "todo", "ret", "cur", "key", "b", "ck", "p", "m", "at", "set", "id", "ends",
          "ways", "until"} \subseteq DOMAIN e
      /\ e.pc \in Ends => e.ret \in {"create", "code", "recheck", "page", "ended"}
  <2>1. r \in Reqs
    BY DEF Reqs
  <2> QED BY <2>1, Fields, Shape, Returns DEF Request
<1>1. CASE JoinLoad(r)
  BY <1>0, <1>1 DEF JoinLoad, SameSignIn, Joins
<1>2. CASE JoinReplace(r) \/ JoinCreate(r)
  BY <1>0, <1>2 DEF JoinReplace, JoinCreate, SameSignIn, Joins
<1>3. CASE AnswerLoad(r)
  <2>1. r \notin SignIns
    BY <1>3, RequestsAssumption DEF AnswerLoad
  <2> QED BY <1>0, <1>3, <2>1 DEF AnswerLoad, SameSignIn, Joins
<1>4. CASE CreateSession(r) \/ SaveAppCode(r) \/ EndGrant(r)
  <2>1. \E l \in {"record", "error", "coded", "endDel"} : req' = [req EXCEPT ![r].pc = l]
    BY <1>4 DEF CreateSession, SaveAppCode, EndGrant
  <2>2. e.pc \notin NoWayYet
    BY <1>4 DEF CreateSession, SaveAppCode, EndGrant, NoWayYet
  <2> QED BY <1>0, <2>1, <2>2 DEF SameSignIn, SameReading
<1>5. ASSUME NEW S, NEW l \in {"create", "code", "recheck", "page", "ended"},
             req' = [req EXCEPT ![r] = Ending(e, S, l)]
      PROVE  /\ SameSignIn(r, e, n)
             /\ e.pc \notin NoWayYet => SameReading(r, e, n)
  <2>1. n = Ending(e, S, l)
    BY <1>0, <1>5
  <2>2. n.pc \in {l, "endLoad"}
    BY <1>0, <2>1 DEF Ending
  <2>3. /\ n.set = e.set /\ n.id = e.id /\ n.p = e.p /\ n.m = e.m /\ n.ends = e.ends
        /\ n.b = e.b /\ n.ck = e.ck /\ n.at = e.at
    BY <1>0, <2>1 DEF Ending
  <2> QED BY <2>2, <2>3 DEF SameSignIn, SameReading
<1>6. ASSUME NEW l \in {"create", "code", "recheck", "page", "ended"},
             req' = [req EXCEPT ![r].pc = l]
      PROVE  /\ SameSignIn(r, e, n)
             /\ e.pc \notin NoWayYet => SameReading(r, e, n)
  BY <1>0, <1>6 DEF SameSignIn, SameReading
<1>7. CASE AddSharedApp(r) \/ SharedLive(r)
  <2>1. e.pc \notin NoWayYet
    BY <1>7 DEF AddSharedApp, SharedLive, NoWayYet
  <2>2. \/ \E S : \E l \in {"code", "recheck", "page"} : req' = [req EXCEPT ![r] = Ending(e, S, l)]
        \/ req' = [req EXCEPT ![r] = [e EXCEPT !.pc = "code"]]
    BY <1>7 DEF AddSharedApp, SharedLive, Unrecorded
  <2>3. CASE req' = [req EXCEPT ![r] = [e EXCEPT !.pc = "code"]]
    BY <1>0, <2>1, <2>3 DEF SameSignIn, SameReading
  <2> QED BY <1>5, <2>1, <2>2, <2>3
<1>8. CASE TakeApps(r) \/ EndDel(r)
  <2>1. e.pc \notin NoWayYet /\ e.ret \in {"create", "code", "recheck", "page", "ended"}
    BY <1>0, <1>8 DEF TakeApps, EndDel, NoWayYet, Ends, EndsApps
  <2> QED BY <1>5, <1>6, <1>8, <2>1 DEF TakeApps, EndDel
<1>9. CASE EndRecord(r)
  <2>1. e.ret \in {"create", "code", "recheck", "page", "ended"}
    BY <1>0, <1>9 DEF EndRecord, Ends
  <2>2. \E l \in {"takeApps", "create", "code", "recheck", "page", "ended"} :
            req' = [req EXCEPT ![r].pc = l]
    BY <1>9, <2>1 DEF EndRecord
  <2>3. e.pc \notin NoWayYet
    BY <1>9 DEF EndRecord, NoWayYet
  <2> QED BY <1>0, <2>2, <2>3 DEF SameSignIn, SameReading
<1>10. CASE EndLoad(r)
  <2>1. e.pc \notin NoWayYet
    BY <1>10 DEF EndLoad, NoWayYet
  <2>2. \E s, k : \/ req' = [req EXCEPT ![r] = [@ EXCEPT !.pc = "endGrant", !.cur = s, !.key = k]]
                 \/ req' = [req EXCEPT ![r] = [@ EXCEPT !.pc = "endDel", !.cur = s]]
    BY <1>10 DEF EndLoad
  <2> QED BY <1>0, <2>1, <2>2 DEF SameSignIn, SameReading
<1> QED BY <1>1, <1>2, <1>3, <1>4, <1>7, <1>8, <1>9, <1>10, SidSteps

\* A sign-in that returned stays of its browser, person, method and time.
SignInsKept ==
    \A s \in Sids : req[s].pc # "idle" => SameSignIn(s, req[s], req'[s])

LEMMA NextSignIns ==
    ASSUME ShapeInv, [Next]_vars
    PROVE  SignInsKept
<1> SUFFICES ASSUME NEW s \in Sids, req[s].pc # "idle"
             PROVE  SameSignIn(s, req[s], req'[s])
  BY DEF SignInsKept
<1>0. s \in Reqs /\ DOMAIN req = Reqs /\ req[s] \in Request
  <2>1. s \in Reqs
    BY DEF Reqs
  <2> QED BY <2>1, Shape, Fields
<1>1. CASE req'[s] = req[s]
  BY <1>1 DEF SameSignIn
<1>2. CASE Deliver(s)
  BY <1>0, <1>2 DEF Deliver, Request, SameSignIn
<1>3. ~Arrive(s)
  BY DEF Arrive, SignInReturns, AuthorizeArrives, CodePresented, TokenPresented, LogoutArrives
<1>4. CASE Step(s)
  BY <1>4, SidFields
<1>5. ASSUME NEW x \in Reqs, x # s, Arrive(x) \/ Step(x) \/ Deliver(x) PROVE req'[s] = req[s]
  BY <1>0, <1>5, StepMoves, EdgeMoves DEF Moves
<1> QED BY <1>0, <1>1, <1>2, <1>3, <1>4, <1>5 DEF Next, Tick, vars

LEMMA ProvedKept ==
    ASSUME SignInsKept
    PROVE  /\ \A i, b : InBrowser(i, b, req) => InBrowser(i, b, req')
           /\ \A b, p, m, e : Proved(b, p, m, e, req) => Proved(b, p, m, e, req')
BY DEF SignInsKept, SameSignIn, InBrowser, Proved, Sids

\* How a step writes the shared session i.
LEMMA SharedMoves ==
    ASSUME ShapeInv, [Next]_vars, NEW i \in SignIns
    PROVE  \/ /\ shared'[i].st # "none" => shared[i].st # "none"
              /\ shared'[i].p = shared[i].p /\ shared'[i].ways = shared[i].ways
           \/ \E r \in SignIns : /\ JoinReplace(r) /\ req[r].id = i
                                /\ shared'[i].p = shared[i].p
                                /\ shared'[i].ways = req[r].ways
           \/ /\ JoinCreate(i) /\ shared'[i].p = req[i].p
              /\ \A m \in Methods : shared'[i].ways[m] # 0 =>
                    m = req[i].m /\ shared'[i].ways[m] = req[i].at + SessionTTL
<1> DEFINE Same == /\ shared'[i].st # "none" => shared[i].st # "none"
                   /\ shared'[i].p = shared[i].p /\ shared'[i].ways = shared[i].ways
<1>0. DOMAIN shared = SignIns /\ \A j \in SignIns : shared[j] \in Shared
  BY DEF ShapeInv, TypeOK
<1>1. ASSUME NEW r \in Reqs, JoinReplace(r)
      PROVE  Same \/ /\ r \in SignIns /\ req[r].id = i
                     /\ shared'[i].p = shared[i].p /\ shared'[i].ways = req[r].ways
  <2> DEFINE j == req[r].id
             h == [shared[j] EXCEPT !.sec = r, !.ways = req[r].ways, !.ends = req[r].until]
  <2>1. shared' = [shared EXCEPT ![j] = h] \/ UNCHANGED shared
    BY <1>1 DEF JoinReplace
  <2>2. j = i => h.p = shared[i].p /\ h.ways = req[r].ways
    BY <1>0 DEF Shared
  <2>3. r \in SignIns
    BY <1>1, Shape, RequestsAssumption DEF JoinReplace, Placed, Ends, EndsApps, Reqs, Sids
  <2> HIDE DEF h
  <2> QED BY <1>0, <2>1, <2>2, <2>3
<1>2. ASSUME NEW r \in Reqs, JoinCreate(r)
      PROVE  Same \/ /\ r = i /\ shared'[i].p = req[i].p
                     /\ \A m \in Methods : shared'[i].ways[m] # 0 =>
                           m = req[i].m /\ shared'[i].ways[m] = req[i].at + SessionTTL
  <2> DEFINE h == [st |-> "live", sec |-> r, p |-> req[r].p,
                   ways |-> [m \in Methods |-> IF m = req[r].m THEN req[r].at + SessionTTL ELSE 0],
                   ends |-> req[r].at + SessionTTL]
  <2>1. shared' = [shared EXCEPT ![r] = h] \/ UNCHANGED shared
    BY <1>2 DEF JoinCreate
  <2>2. /\ h.p = req[r].p
        /\ \A m \in Methods : h.ways[m] # 0 => m = req[r].m /\ h.ways[m] = req[r].at + SessionTTL
    OBVIOUS
  <2> HIDE DEF h
  <2> QED BY <1>0, <2>1, <2>2
<1>3. ASSUME NEW r \in Reqs, EndRecord(r) PROVE Same
  <2> DEFINE j == req[r].id
             h == [shared[j] EXCEPT !.st = "gone"]
  <2>1. (shared' = [shared EXCEPT ![j] = h] /\ LiveShared(j)) \/ UNCHANGED shared
    BY <1>3 DEF EndRecord
  <2>2. j = i => h.p = shared[i].p /\ h.ways = shared[i].ways
    BY <1>0 DEF Shared
  <2> HIDE DEF h
  <2> QED BY <1>0, <2>1, <2>2 DEF LiveShared
<1>4. ASSUME NEW r \in Reqs, Step(r), ~JoinReplace(r), ~JoinCreate(r) PROVE Same
  BY <1>3, <1>4
     DEF Step, JoinLoad, AnswerLoad, CreateSession, AddSharedApp, SharedLive, SaveAppCode,
         TakeApps, EndLoad, EndGrant, EndDel, ConsumeAppCode, ExchangeLoad, SaveRefresh,
         ReplaceSession, RefreshGrant, RefreshIssue, RevokeGrant, RevokeLoad, RevokeSession,
         RevokeToken, LogoutLoad, storeVars
<1>5. ASSUME NEW r \in Reqs, Arrive(r) \/ Deliver(r) PROVE Same
  BY <1>5, EdgeMoves DEF storeVars
<1> QED BY <1>1, <1>2, <1>4, <1>5 DEF Next, Tick, vars, storeVars

\* What a step writes was proved.
LEMMA SharedBackedStep ==
    ASSUME ShapeInv, FreshInv, SubjectInv, ProvedInv, [Next]_vars
    PROVE  SharedBacked'
<1> SUFFICES ASSUME NEW i \in SignIns, shared'[i].st # "none",
                    NEW m \in Methods, shared'[i].ways[m] # 0
             PROVE  Proved(req'[i].b, shared'[i].p, m, shared'[i].ways[m], req')
  BY DEF SharedBacked
<1>0. SignInsKept /\ i \in Sids /\ i \in Reqs
  BY NextSignIns DEF Sids, Reqs
<1>1. CASE /\ shared[i].st # "none"
           /\ shared'[i].p = shared[i].p /\ shared'[i].ways = shared[i].ways
  <2>1. req[i].pc # "idle"
    BY <1>0, <1>1 DEF FreshInv, Known, BeforeShared
  <2>2. req'[i].b = req[i].b
    BY <1>0, <2>1 DEF SignInsKept, SameSignIn
  <2>3. Proved(req[i].b, shared[i].p, m, shared[i].ways[m], req)
    BY <1>1 DEF ProvedInv, SharedBacked
  <2> QED BY <1>0, <1>1, <2>2, <2>3, ProvedKept
<1>2. ASSUME NEW r \in SignIns, JoinReplace(r), req[r].id = i,
             shared'[i].p = shared[i].p, shared'[i].ways = req[r].ways
      PROVE  Proved(req'[i].b, shared'[i].p, m, shared'[i].ways[m], req')
  <2>1. req[r].pc = "replace" /\ r \in Sids /\ r \in Reqs
    BY <1>2 DEF JoinReplace, Sids, Reqs
  <2>2. Backed(r, req) /\ req[r].p = shared[i].p
    BY <1>2, <2>1 DEF ProvedInv, SubjectInv, Names
  <2>3. InBrowser(i, req[r].b, req) /\ Proved(req[r].b, shared[i].p, m, req[r].ways[m], req)
    BY <1>2, <2>1, <2>2 DEF Backed
  <2>4. req'[i].b = req[r].b
    BY <1>0, <2>3 DEF InBrowser, SignInsKept, SameSignIn
  <2> QED BY <1>0, <1>2, <2>3, <2>4, ProvedKept
<1>3. CASE /\ JoinCreate(i) /\ shared'[i].p = req[i].p
           /\ m = req[i].m /\ shared'[i].ways[m] = req[i].at + SessionTTL
  <2>1. req[i].pc # "idle"
    BY <1>3 DEF JoinCreate
  <2>2. SameSignIn(i, req[i], req'[i])
    BY <1>0, <2>1 DEF SignInsKept
  <2> QED BY <1>3, <2>2 DEF SameSignIn, Proved, InBrowser
<1> QED BY <1>1, <1>2, <1>3, SharedMoves

\* What a request's own step reads was proved.
LEMMA StepBacked ==
    ASSUME ShapeInv, FreshInv, SubjectInv, ProvedInv, NEW r \in Sids, Step(r)
    PROVE  Backed(r, req')
<1> DEFINE e == req[r]
           n == req'[r]
<1>0. /\ r \in Reqs /\ DOMAIN req = Reqs /\ Backed(r, req)
      /\ e \in Request /\ Informed(r, e, grant) /\ Placed(r, e)
      /\ {"pc", "b", "ck", "p", "m", "at", "set", "id", "ends", "ways", "until", "ret"}
             \subseteq DOMAIN e
  <2>1. r \in Reqs
    BY DEF Reqs
  <2> QED BY <2>1, Shape, Fields DEF ProvedInv, Request
<1>1. /\ SignInsKept /\ e.pc # "idle" /\ n.pc # "idle"
      /\ SameSignIn(r, e, n)
  <2>1. e.pc # "idle"
    BY DEF Step, JoinLoad, JoinReplace, JoinCreate, AnswerLoad, CreateSession, AddSharedApp,
       SharedLive, SaveAppCode, EndRecord, TakeApps, EndLoad, EndGrant, EndDel, ConsumeAppCode,
       ExchangeLoad, SaveRefresh, ReplaceSession, RefreshGrant, RefreshIssue, RevokeGrant,
       RevokeLoad, RevokeSession, RevokeToken, LogoutLoad
  <2>2. [Next]_vars
    BY <1>0 DEF Next
  <2> QED BY <2>1, <2>2, NextSignIns, SidFields DEF SameSignIn
<1>2. n.ck.id # None => InBrowser(n.ck.id, n.b, req')
  BY <1>0, <1>1, ProvedKept DEF Backed, SameSignIn
<1>3. CASE SameReading(r, e, n)
  <2>1. n.set = "give" => InBrowser(n.id, n.b, req')
    BY <1>0, <1>1, <1>3, ProvedKept DEF Backed, SameSignIn, SameReading
  <2>2. r \in Answers => Proved(n.b, n.p, n.m, n.ends, req')
    BY <1>0, <1>1, <1>3, ProvedKept DEF Backed, SameSignIn, SameReading
  <2> QED BY <1>2, <1>3, <2>1, <2>2 DEF Backed, SameReading
<1>4. ASSUME Holds(e.ck)
      PROVE  LET i == e.ck.id IN
             /\ InBrowser(i, n.b, req') /\ i \in SignIns /\ shared[i] \in Shared
             /\ \A m \in Methods : shared[i].ways[m] # 0 =>
                    Proved(n.b, shared[i].p, m, shared[i].ways[m], req')
  <2> DEFINE i == e.ck.id
  <2>1. InBrowser(i, e.b, req) /\ shared[i].st # "none"
    BY <1>0, <1>1, <1>4 DEF Backed, Holds, LiveShared
  <2>2. i \in SignIns /\ req[i].b = n.b /\ InBrowser(i, n.b, req')
    BY <1>1, <2>1, ProvedKept DEF InBrowser, SameSignIn
  <2>3. \A m \in Methods : shared[i].ways[m] # 0 =>
            Proved(n.b, shared[i].p, m, shared[i].ways[m], req)
    BY <2>1, <2>2 DEF ProvedInv, SharedBacked
  <2>4. shared[i] \in Shared
    BY <2>2 DEF ShapeInv, TypeOK
  <2> QED BY <1>1, <2>2, <2>3, <2>4, ProvedKept
<1>5. CASE JoinLoad(r)
  <2>0. e.pc = "join" /\ e.set # "give" /\ r \in SignIns /\ r \notin Answers
    BY <1>0, <1>5, RequestsAssumption DEF JoinLoad, Backed, Placed, Ends, EndsApps, Reqs, Sids
  <2>1. CASE Holds(e.ck) /\ SamePerson(shared[e.ck.id], e) /\ req' = [req EXCEPT ![r] =
                 [@ EXCEPT !.pc = "replace", !.id = e.ck.id,
                           !.ways = [shared[e.ck.id].ways EXCEPT ![e.m] = e.at + SessionTTL],
                           !.until = KeptEnd(shared[e.ck.id].ends, e.at + SessionTTL)]]
    <3> DEFINE i == e.ck.id
               w == [shared[i].ways EXCEPT ![e.m] = e.at + SessionTTL]
    <3>1. n.id = i /\ n.set = e.set /\ n.ways = w /\ n.p = e.p /\ n.m = e.m /\ n.at = e.at
      BY <1>0, <2>1 DEF Request
    <3>2. e.p = shared[i].p /\ shared[i].ways \in [Methods -> Nat]
      BY <1>4, <2>1 DEF SamePerson, Shared
    <3>3. Proved(n.b, e.p, e.m, e.at + SessionTTL, req')
      BY <1>1, <2>0, <3>1 DEF Proved, InBrowser
    <3>4. \A m \in Methods : w[m] = IF m = e.m THEN e.at + SessionTTL ELSE shared[i].ways[m]
      BY <3>2
    <3> HIDE DEF w
    <3>5. \A m \in Methods : n.ways[m] # 0 => Proved(n.b, n.p, m, n.ways[m], req')
      BY <1>4, <2>1, <3>1, <3>2, <3>3, <3>4
    <3> QED BY <1>1, <1>2, <1>4, <2>0, <2>1, <3>1, <3>5 DEF Backed, SameSignIn
  <2>2. CASE n.pc \in {"endRecord", "create"} /\ n.set # "give"
    BY <1>2, <2>0, <2>2 DEF Backed
  <2>3. \/ Holds(e.ck) /\ req' = [req EXCEPT ![r] = [@ EXCEPT !.pc = "endRecord", !.id = e.ck.id,
                                                        !.ret = "create"]]
        \/ req' = [req EXCEPT ![r] = [@ EXCEPT !.pc = "create", !.set = ClearIfHeld(e.ck)]]
        \/ req' = [req EXCEPT ![r].pc = "create"]
        => n.pc \in {"endRecord", "create"} /\ n.set # "give"
    BY <1>0, <2>0 DEF ClearIfHeld
  <2> QED BY <1>5, <2>1, <2>2, <2>3 DEF JoinLoad
<1>6. CASE JoinReplace(r)
  <2>1. r \notin Answers /\ e.pc = "replace"
    BY <1>0, <1>6, RequestsAssumption DEF JoinReplace, Placed, Ends, EndsApps, Reqs, Sids
  <2>2. InBrowser(e.id, n.b, req')
    BY <1>0, <1>1, <2>1, ProvedKept DEF Backed, SameSignIn
  <2>3. n.id = e.id /\ n.pc \in {"session", "create", "error"}
    BY <1>0, <1>6 DEF JoinReplace
  <2> QED BY <1>2, <2>1, <2>2, <2>3 DEF Backed
<1>7. CASE JoinCreate(r)
  <2>1. r \notin Answers /\ r \in SignIns /\ e.pc = "create"
    BY <1>0, <1>7, RequestsAssumption DEF JoinCreate, Placed, Ends, EndsApps, Reqs, Sids
  <2>2. \/ n.pc = "session" /\ n.id = r
        \/ n.pc = "error" /\ n.id = e.id /\ n.set = e.set
    BY <1>0, <1>7 DEF JoinCreate
  <2>3. CASE n.pc = "session" /\ n.id = r
    BY <1>1, <1>2, <2>1, <2>3 DEF Backed, InBrowser
  <2>4. CASE n.pc = "error" /\ n.id = e.id /\ n.set = e.set
    BY <1>0, <1>1, <1>2, <2>1, <2>4, ProvedKept DEF Backed, SameSignIn
  <2> QED BY <2>2, <2>3, <2>4
<1>8. CASE AnswerLoad(r)
  <2>1. r \in Answers /\ r \notin SignIns /\ e.set # "give"
    BY <1>0, <1>8, RequestsAssumption DEF AnswerLoad, Informed
  <2>2. CASE n.pc = "page" /\ n.set # "give"
    BY <1>2, <2>2 DEF Backed, NoWayYet
  <2>3. ASSUME Holds(e.ck), NEW m \in Fitting(e.ck.id, e.c),
               req' = [req EXCEPT ![r] =
                   [@ EXCEPT !.pc = "session", !.id = e.ck.id, !.p = shared[e.ck.id].p, !.m = m,
                             !.at = now, !.ends = shared[e.ck.id].ways[m],
                             !.until = shared[e.ck.id].ends]]
        PROVE  Backed(r, req')
    <3> DEFINE i == e.ck.id
    <3>1. /\ n.pc = "session" /\ n.set = e.set /\ n.p = shared[i].p /\ n.m = m
          /\ n.ends = shared[i].ways[m]
      BY <1>0, <2>3 DEF Request
    <3>2. m \in Methods /\ shared[i].ways[m] # 0
      <4>1. e.c \in Clients
        BY <1>0, <1>1 DEF Informed
      <4>2. m \in Offered[e.c] /\ now < shared[i].ways[m] /\ now \in Nat
        BY <2>3 DEF Fitting, ShapeInv, TypeOK
      <4>3. m \in Methods
        BY <4>1, <4>2, ConfigAssumption
      <4>4. shared[i] \in Shared
        BY <1>4, <2>3
      <4>5. shared[i].ways \in [Methods -> Nat]
        BY <4>4 DEF Shared
      <4>6. shared[i].ways[m] \in Nat
        BY <4>3, <4>5
      <4> HIDE DEF i
      <4> QED BY <4>2, <4>3, <4>6
    <3>3. Proved(n.b, n.p, n.m, n.ends, req')
      BY <1>4, <2>3, <3>1, <3>2
    <3> QED BY <1>2, <2>1, <3>1, <3>3 DEF Backed
  <2>4. \/ req' = [req EXCEPT ![r].pc = "page"]
        \/ req' = [req EXCEPT ![r] = [@ EXCEPT !.pc = "page", !.set = "clear"]]
        => n.pc = "page" /\ n.set # "give"
    BY <1>0, <2>1
  <2> QED BY <1>8, <2>2, <2>3, <2>4 DEF AnswerLoad
<1> QED BY <1>3, <1>5, <1>6, <1>7, <1>8, SidFields DEF Joins

\* What a request arrives with, and what a browser keeps, was given in that browser.
LEMMA EdgeBacked ==
    ASSUME ShapeInv, ProvedInv, NEW r \in Sids, Arrive(r) \/ Deliver(r)
    PROVE  Backed(r, req')
<1> DEFINE e == req[r]
           n == req'[r]
<1>0. /\ r \in Reqs /\ DOMAIN req = Reqs /\ Backed(r, req) /\ CookiesBacked
      /\ {"pc", "b", "c", "ck", "p", "m", "at", "set", "id", "ends", "ways", "until"}
             \subseteq DOMAIN e
      /\ SignInsKept
  <2>1. r \in Reqs
    BY DEF Reqs
  <2>2. [Next]_vars
    BY <2>1 DEF Next
  <2> QED BY <2>1, <2>2, Shape, Fields, NextSignIns DEF ProvedInv, Request
<1>1. CASE Arrive(r)
  <2>1. /\ e.pc = "idle" /\ n.pc \in {"join", "load"} /\ n.set = e.set
        /\ \E b \in Browsers : n.b = b /\ n.ck = cookie[b]
    <3>1. CASE \E b \in Browsers, c \in Clients, p \in People, m \in Methods :
                   SignInReturns(r, b, c, p, m)
      BY <1>0, <3>1 DEF SignInReturns
    <3>2. CASE \E b \in Browsers, c \in SingleSignOn : AuthorizeArrives(r, b, c)
      BY <1>0, <3>2 DEF AuthorizeArrives
    <3> QED BY <1>1, <3>1, <3>2, RequestsAssumption DEF Arrive, Sids
  <2>2. n.ck.id # None => InBrowser(n.ck.id, n.b, req')
    BY <1>0, <2>1, ProvedKept DEF CookiesBacked
  <2> QED BY <1>0, <2>1, <2>2 DEF Backed, NoWayYet
<1>2. CASE Deliver(r)
  <2>1. /\ n.pc = e.pc /\ n.b = e.b /\ n.ck = e.ck /\ n.p = e.p /\ n.m = e.m
        /\ n.id = e.id /\ n.ends = e.ends /\ n.ways = e.ways /\ n.set = "keep"
        /\ e.pc \in Final
    BY <1>0, <1>2 DEF Deliver
  <2>2. n.pc \notin {"idle", "join", "replace"} /\ n.set # "give"
    BY <2>1 DEF Final
  <2>3. n.ck.id # None => InBrowser(n.ck.id, n.b, req')
    BY <1>0, <2>1, <2>2, ProvedKept DEF Backed
  <2>4. r \in Answers /\ n.pc \notin NoWayYet => Proved(n.b, n.p, n.m, n.ends, req')
    BY <1>0, <2>1, ProvedKept DEF Backed
  <2> QED BY <2>2, <2>3, <2>4 DEF Backed
<1> QED BY <1>1, <1>2

LEMMA CookiesBackedStep ==
    ASSUME ShapeInv, ProvedInv, [Next]_vars
    PROVE  CookiesBacked'
<1> SUFFICES ASSUME NEW b \in Browsers, cookie'[b].id # None
             PROVE  InBrowser(cookie'[b].id, b, req')
  BY DEF CookiesBacked
<1>0. SignInsKept /\ DOMAIN cookie = Browsers
  BY NextSignIns DEF ShapeInv, TypeOK
<1>1. CASE cookie'[b] = cookie[b]
  BY <1>0, <1>1, ProvedKept DEF ProvedInv, CookiesBacked
<1>2. ASSUME NEW r \in Reqs, Deliver(r), cookie'[b] # cookie[b]
      PROVE  InBrowser(cookie'[b].id, b, req')
  <2>1. /\ req[r].set # "keep" /\ b = req[r].b
        /\ cookie'[b] = IF req[r].set = "clear" THEN NoCookie ELSE [id |-> req[r].id, sec |-> r]
    BY <1>0, <1>2 DEF Deliver
  <2>2. req[r].set = "give" /\ cookie'[b].id = req[r].id
    BY <2>1, Shape DEF NoCookie, Request
  <2>3. r \in Sids /\ Backed(r, req)
    BY <2>2, Shape DEF Informed, Sids, ProvedInv
  <2> QED BY <1>0, <2>1, <2>2, <2>3, ProvedKept DEF Backed
<1>3. ASSUME NEW r \in Reqs, Arrive(r) \/ Step(r) PROVE cookie' = cookie
  BY <1>3
     DEF Arrive, SignInReturns, AuthorizeArrives, CodePresented, TokenPresented, LogoutArrives,
         Step, JoinLoad, JoinReplace, JoinCreate, AnswerLoad, CreateSession, AddSharedApp,
         SharedLive, SaveAppCode, EndRecord, TakeApps, EndLoad, EndGrant, EndDel,
         ConsumeAppCode, ExchangeLoad, SaveRefresh, ReplaceSession, RefreshGrant, RefreshIssue,
         RevokeGrant, RevokeLoad, RevokeSession, RevokeToken, LogoutLoad
<1> QED BY <1>1, <1>2, <1>3 DEF Next, Tick, vars

LEMMA ProvedStep ==
    ShapeInv /\ FreshInv /\ SubjectInv /\ ProvedInv /\ [Next]_vars => ProvedInv'
<1> SUFFICES ASSUME ShapeInv, FreshInv, SubjectInv, ProvedInv, [Next]_vars
             PROVE  ProvedInv'
  OBVIOUS
<1>1. ASSUME NEW r \in Sids PROVE Backed(r, req')
  <2>0. SignInsKept /\ r \in Reqs
    BY NextSignIns DEF Reqs
  <2>1. CASE Step(r)
    BY <2>1, StepBacked
  <2>2. CASE Arrive(r) \/ Deliver(r)
    BY <2>2, EdgeBacked
  <2>3. CASE req'[r] = req[r]
    BY <2>0, <2>3, ProvedKept DEF ProvedInv, Backed
  <2>4. ASSUME NEW x \in Reqs, x # r, Arrive(x) \/ Step(x) \/ Deliver(x)
        PROVE  req'[r] = req[r]
    BY <2>0, <2>4, StepMoves, EdgeMoves DEF Moves
  <2> QED BY <2>0, <2>1, <2>2, <2>3, <2>4 DEF Next, Tick, vars
<1> QED BY <1>1, CookiesBackedStep, SharedBackedStep DEF ProvedInv

LEMMA ProvedInit == Init => ProvedInv
BY DEF Init, Blank, NoCookie, ProvedInv, Backed, NoWayYet, CookiesBacked, SharedBacked, Sids, Reqs

\* Whoever an app is answered with proved that way themselves in that browser, and the
\* answer is counted to the end of that sign-in's own way, whichever sign-ins of whom
\* else read, wrote, ended and made shared sessions meanwhile (joinShared, Keep,
\* answerFromShared).
THEOREM AnswersRestOnProof == Spec => []AnsweredOnProof
<1>1. Init => SubjectInv
  BY DEF Init, Blank, SubjectInv, Names
<1>2. Spec => []ProvedInv
  BY <1>1, ShapeInit, ShapeStep, FreshInit, FreshStep, SubjectStep, ProvedInit, ProvedStep, PTL
     DEF Spec
<1>3. ProvedInv => AnsweredOnProof
  BY DEF ProvedInv, Backed, NoWayYet, Proved, InBrowser, AnsweredOnProof, Sids
<1> QED BY <1>2, <1>3, PTL

=============================================================================
