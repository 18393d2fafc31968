------------------------- MODULE SharedSessionShape --------------------------
(* Type correctness of SharedSession, for any number of requests of each    *)
(* sort.  The types alone are not inductive: that a step reads a defined    *)
(* value depends on where its request came from, so the invariant says      *)
(* which steps each sort of request takes and what it has read by then.     *)
EXTENDS SharedSession, TLAPS

\* The steps of endAppSession, and of endShared before them.
EndsApps == {"endLoad", "endGrant", "endDel"}
Ends == EndsApps \cup {"endRecord", "takeApps"}

\* Where each sort of request may be, and where it goes on after ending sessions.
Placed(r, q) ==
    /\ r \in SignIns =>
          /\ q.pc \in {"idle", "join", "replace", "create", "session", "record", "code",
                       "coded", "error"} \cup Ends
          /\ q.pc \in Ends => q.ret \in {"create", "code"}
    /\ r \in Answers =>
          /\ q.pc \in {"idle", "load", "session", "record", "recheck", "code", "coded",
                       "error", "page"} \cup EndsApps
          /\ q.pc \in Ends => q.ret \in {"recheck", "page"}
    /\ r \in Exchanges =>
          q.pc \in {"idle", "consume", "codeSess", "saveGrant", "bind", "issued", "refused",
                    "unavailable", "error"}
    /\ r \in Refreshes =>
          q.pc \in {"idle", "grant", "renewSess", "issued", "refused", "unavailable", "error"}
    /\ r \in Revokes =>
          /\ q.pc \in {"idle", "grant", "grantSess", "delSess", "delGrant", "ended", "refused",
                       "unavailable"} \cup Ends
          /\ q.pc \in Ends => q.ret = "ended"
    /\ r \in Logouts =>
          /\ q.pc \in {"idle", "load", "ended"} \cup Ends
          /\ q.pc \in Ends => q.ret = "ended"

\* What a request must have read to be where it is.
Informed(r, q, g) ==
    /\ r \in Sids /\ q.pc # "idle" => q.c \in Clients
    /\ q.pc \in {"replace", "session", "record", "endRecord", "takeApps"} => q.id \in SignIns
    /\ q.set = "give" => r \in SignIns
    /\ r \in Answers /\ q.pc = "session" => q.at <= q.ends
    /\ r \in Exchanges /\ q.pc # "idle" => q.sid \in Sids
    /\ q.pc = "grant" => q.key \in Exchanges
    /\ q.pc \in {"grantSess", "delSess", "delGrant", "endGrant"} =>
          q.key \in Exchanges /\ g[q.key].st # "none"
    /\ r \in Exchanges /\ q.pc = "bind" => g[r].st # "none"

\* A grant names its session, and a session's key its grant.
GrantsNamed ==
    /\ \A k \in Exchanges : grant[k].st # "none" => grant[k].sid \in Sids
    /\ \A s \in Sids : sess[s].key # None => grant[sess[s].key].st # "none"

\* The inductive invariant of type correctness.
ShapeInv ==
    /\ TypeOK
    /\ GrantsNamed
    /\ \A r \in Reqs : Placed(r, req[r]) /\ Informed(r, req[r], grant)

\* The types of everything but the requests.
StoreTypes ==
    /\ now \in Nat
    /\ shared \in [SignIns -> Shared]
    /\ list \in [SignIns -> [Clients -> Sids \cup {None}]]
    /\ listEnds \in [SignIns -> Nat]
    /\ sess \in [Sids -> Session]
    /\ code \in [Sids -> {"none", "saved", "spent"}]
    /\ grant \in [Exchanges -> Grant]
    /\ cookie \in [Browsers -> Cookie]
    /\ outages \in Nat

\* A grant that was made stays made, be it live or gone.
GrantsKept == \A k \in Exchanges : grant[k].st # "none" => grant'[k].st # "none"

\* Request r goes on as q.
Becomes(r, q) == q \in Request /\ req' = [req EXCEPT ![r] = q]

\* Of a step of request r it is enough to look at r and at what the store holds.
LEMMA Frame ==
    ASSUME ShapeInv, NEW r \in Reqs, NEW q, Becomes(r, q), Placed(r, q), Informed(r, q, grant'),
           StoreTypes', GrantsNamed', GrantsKept
    PROVE  ShapeInv'
<1>1. req' \in [Reqs -> Request] /\ req'[r] = q /\ \A x \in Reqs \ {r} : req'[x] = req[x]
  BY DEF ShapeInv, TypeOK, Becomes
<1>2. TypeOK'
  BY <1>1 DEF TypeOK, StoreTypes
<1>3. Placed(r, req'[r]) /\ Informed(r, req'[r], grant')
  BY <1>1
<1>4. ASSUME NEW x \in Reqs, x # r PROVE Placed(x, req'[x]) /\ Informed(x, req'[x], grant')
  <2>1. Placed(x, req[x]) /\ Informed(x, req[x], grant) /\ req'[x] = req[x]
    BY <1>1, <1>4 DEF ShapeInv
  <2>2. Informed(x, req'[x], grant')
    BY <2>1 DEF Informed, GrantsKept
  <2> QED BY <2>1, <2>2
<1>5. \A x \in Reqs : Placed(x, req'[x]) /\ Informed(x, req'[x], grant')
  BY <1>3, <1>4
<1> QED BY <1>2, <1>5 DEF ShapeInv, Placed

\* A request that only moves.
LEMMA PcOnly ==
    ASSUME ShapeInv, NEW r \in Reqs, NEW l \in Labels, req' = [req EXCEPT ![r].pc = l]
    PROVE  Becomes(r, [req[r] EXCEPT !.pc = l])
<1>1. req[r] \in Request /\ req \in [Reqs -> Request]
  BY DEF ShapeInv, TypeOK
<1>2. [req[r] EXCEPT !.pc = l] \in Request
  BY <1>1 DEF Request
<1> QED BY <1>1, <1>2 DEF Becomes

\* A step that leaves the store as it is, or whose store call fails.
LEMMA StoreSame ==
    ASSUME ShapeInv, UNCHANGED <<now, storeVars, cookie>>, UNCHANGED outages \/ Fails
    PROVE  StoreTypes' /\ GrantsNamed' /\ GrantsKept
<1>1. outages' \in Nat
  BY DEF ShapeInv, TypeOK, Fails
<1> QED BY <1>1 DEF ShapeInv, TypeOK, storeVars, StoreTypes, GrantsNamed, GrantsKept

\* A request that arrives is where its handler begins.
LEMMA ArriveKeeps ==
    ASSUME ShapeInv, NEW r \in Reqs, Arrive(r)
    PROVE  ShapeInv'
<1>0. /\ r \in Reqs /\ req[r] \in Request /\ req \in [Reqs -> Request]
      /\ cookie \in [Browsers -> Cookie] /\ now \in Nat /\ Informed(r, req[r], grant)
  BY DEF ShapeInv, TypeOK
<1>1. CASE r \in SignIns
  <2>1. PICK b \in Browsers, c \in Clients, p \in People, m \in Methods :
            SignInReturns(r, b, c, p, m)
    BY <1>1, RequestsAssumption DEF Arrive, Sids
  <2> DEFINE q == [req[r] EXCEPT !.pc = "join", !.b = b, !.c = c, !.p = p,
                                 !.m = m, !.ck = cookie[b], !.at = now]
  <2>2. Becomes(r, q)
    <3>1. q \in Request
      BY <1>0, <2>1 DEF Request, Labels
    <3>2. req' = [req EXCEPT ![r] = q]
      BY <2>1 DEF SignInReturns
    <3> QED BY <3>1, <3>2 DEF Becomes
  <2>3. Placed(r, q)
    BY <1>0, <1>1, RequestsAssumption DEF Placed, Sids, Ends, EndsApps, Request
  <2>4. Informed(r, q, grant')
    BY <1>0, <1>1, <2>1, RequestsAssumption DEF Informed, Sids, Request
  <2> QED BY <2>1, <2>2, <2>3, <2>4, StoreSame, Frame DEF SignInReturns
<1>2. CASE r \in Answers
  <2>1. PICK b \in Browsers, c \in SingleSignOn : AuthorizeArrives(r, b, c)
    BY <1>2, RequestsAssumption DEF Arrive, Sids
  <2> DEFINE q == [req[r] EXCEPT !.pc = "load", !.b = b, !.c = c, !.ck = cookie[b]]
  <2>2. Becomes(r, q)
    <3>1. q \in Request
      BY <1>0, <2>1, ConfigAssumption DEF Request, Labels
    <3>2. req' = [req EXCEPT ![r] = q]
      BY <2>1 DEF AuthorizeArrives
    <3> QED BY <3>1, <3>2 DEF Becomes
  <2>3. Placed(r, q)
    BY <1>0, <1>2, RequestsAssumption DEF Placed, Sids, Ends, EndsApps, Request
  <2>4. Informed(r, q, grant')
    BY <1>0, <1>2, <2>1, RequestsAssumption, ConfigAssumption DEF Informed, Sids, Request
  <2> QED BY <2>1, <2>2, <2>3, <2>4, StoreSame, Frame DEF AuthorizeArrives
<1>3. CASE r \in Exchanges
  <2>1. PICK s \in Sids, good \in BOOLEAN : CodePresented(r, s, good)
    BY <1>3, RequestsAssumption DEF Arrive, Sids
  <2> DEFINE q == [req[r] EXCEPT !.pc = "consume", !.sid = s, !.good = good]
  <2>2. Becomes(r, q)
    <3>0. "consume" \in Labels /\ req[r] \in Request
      BY <1>0 DEF Labels, Final
    <3>1. q \in Request
      BY <3>0 DEF Request
    <3>2. req' = [req EXCEPT ![r] = q]
      BY <2>1 DEF CodePresented
    <3> QED BY <3>1, <3>2 DEF Becomes
  <2>3. Placed(r, q)
    BY <1>0, <1>3, RequestsAssumption DEF Placed, Sids, Ends, EndsApps, Request
  <2>4. Informed(r, q, grant')
    BY <1>0, <1>3, <2>1, RequestsAssumption DEF Informed, Sids, Request
  <2> QED BY <2>1, <2>2, <2>3, <2>4, StoreSame, Frame DEF CodePresented
<1>4. CASE r \in Refreshes \cup Revokes
  <2>1. PICK k \in Exchanges, good \in BOOLEAN : TokenPresented(r, k, good)
    BY <1>4, RequestsAssumption DEF Arrive, Sids
  <2> DEFINE q == [req[r] EXCEPT !.pc = "grant", !.key = k, !.good = good]
  <2>2. Becomes(r, q)
    <3>0. "grant" \in Labels /\ req[r] \in Request
      BY <1>0 DEF Labels, Final
    <3>1. q \in Request
      BY <3>0 DEF Request
    <3>2. req' = [req EXCEPT ![r] = q]
      BY <2>1 DEF TokenPresented
    <3> QED BY <3>1, <3>2 DEF Becomes
  <2>3. Placed(r, q)
    BY <1>0, <1>4, RequestsAssumption DEF Placed, Sids, Ends, EndsApps, Request
  <2>4. Informed(r, q, grant')
    BY <1>0, <1>4, <2>1, RequestsAssumption DEF Informed, Sids, Request
  <2> QED BY <2>1, <2>2, <2>3, <2>4, StoreSame, Frame DEF TokenPresented
<1>5. CASE r \in Logouts
  <2>1. PICK b \in Browsers : LogoutArrives(r, b)
    BY <1>5, RequestsAssumption DEF Arrive, Sids
  <2> DEFINE q == [req[r] EXCEPT !.pc = "load", !.b = b, !.ck = cookie[b]]
  <2>2. Becomes(r, q)
    <3>0. "load" \in Labels /\ req[r] \in Request /\ cookie[b] \in Cookie
      BY <1>0 DEF Labels, Final
    <3>1. q \in Request
      BY <3>0 DEF Request
    <3>2. req' = [req EXCEPT ![r] = q]
      BY <2>1 DEF LogoutArrives
    <3> QED BY <3>1, <3>2 DEF Becomes
  <2>3. Placed(r, q)
    BY <1>0, <1>5, RequestsAssumption DEF Placed, Sids, Ends, EndsApps, Request
  <2>4. Informed(r, q, grant')
    BY <1>0, <1>5, <2>1, RequestsAssumption DEF Informed, Sids, Request
  <2> QED BY <2>1, <2>2, <2>3, <2>4, StoreSame, Frame DEF LogoutArrives
<1> QED BY <1>1, <1>2, <1>3, <1>4, <1>5 DEF Reqs, Sids

\* The frame, for a request that only moves.
LEMMA PcMove ==
    ASSUME ShapeInv, NEW r \in Reqs, NEW l \in Labels, req' = [req EXCEPT ![r].pc = l],
           Placed(r, [req[r] EXCEPT !.pc = l]), Informed(r, [req[r] EXCEPT !.pc = l], grant'),
           StoreTypes', GrantsNamed', GrantsKept
    PROVE  ShapeInv'
BY PcOnly, Frame

\* What the shape says of a request that is at some step.
LEMMA Shape ==
    ASSUME ShapeInv, NEW r \in Reqs
    PROVE  req[r] \in Request /\ Placed(r, req[r]) /\ Informed(r, req[r], grant)
BY DEF ShapeInv, TypeOK

\* JoinLoad keeps the shape.
LEMMA JoinLoadKeeps ==
    ASSUME ShapeInv, NEW r \in Reqs, JoinLoad(r)
    PROVE  ShapeInv'
<1> DEFINE e == req[r]
           sh == shared[e.ck.id]
           end == e.at + SessionTTL
<1>0. e \in Request /\ Placed(r, e) /\ Informed(r, e, grant) /\ e.pc = "join"
  BY Shape DEF JoinLoad
<1>1. r \in SignIns /\ e.c \in Clients
  BY <1>0, RequestsAssumption DEF Placed, Informed, Ends, EndsApps, Reqs, Sids
<1>2. StoreTypes' /\ GrantsNamed' /\ GrantsKept /\ grant' = grant
  BY StoreSame DEF JoinLoad, storeVars
<1>3. Holds(e.ck) => e.ck.id \in SignIns /\ sh \in Shared
  BY <1>0 DEF Holds, Request, Cookie, ShapeInv, TypeOK
<1>4. CASE Holds(e.ck) /\ SamePerson(sh, e) /\ req' = [req EXCEPT ![r] =
                 [@ EXCEPT !.pc = "replace", !.id = e.ck.id,
                           !.ways = [sh.ways EXCEPT ![e.m] = end],
                           !.until = KeptEnd(sh.ends, end)]]
  <2> DEFINE w == [sh.ways EXCEPT ![e.m] = end]
             u == KeptEnd(sh.ends, end)
             q == [e EXCEPT !.pc = "replace", !.id = e.ck.id, !.ways = w, !.until = u]
  <2>1. end \in Nat
    BY <1>0, ConfigAssumption DEF Request
  <2>2. w \in [Methods -> Nat] /\ u \in Nat
    BY <1>3, <1>4, <2>1 DEF Shared, KeptEnd
  <2>3. "replace" \in Labels
    BY DEF Labels
  <2>4. q \in Request
    BY <1>0, <1>3, <1>4, <2>2, <2>3 DEF Request
  <2>5. Becomes(r, q)
    BY <1>4, <2>4 DEF Becomes, ShapeInv, TypeOK
  <2>6. Placed(r, q) /\ Informed(r, q, grant')
    BY <1>0, <1>1, <1>3, <1>4, RequestsAssumption
       DEF Placed, Informed, Request, Ends, EndsApps, Sids
  <2> QED BY <1>2, <2>5, <2>6, Frame
<1>5. CASE Holds(e.ck) /\ req' = [req EXCEPT ![r] = [@ EXCEPT !.pc = "endRecord", !.id = e.ck.id,
                                                 !.ret = "create"]]
  <2> DEFINE q == [e EXCEPT !.pc = "endRecord", !.id = e.ck.id, !.ret = "create"]
  <2>3. "endRecord" \in Labels /\ "create" \in Labels
    BY DEF Labels
  <2>4. q \in Request
    BY <1>0, <1>3, <1>5, <2>3 DEF Request
  <2>5. Becomes(r, q)
    BY <1>5, <2>4 DEF Becomes, ShapeInv, TypeOK
  <2>6. Placed(r, q) /\ Informed(r, q, grant')
    BY <1>0, <1>1, <1>3, <1>5, RequestsAssumption
       DEF Placed, Informed, Request, Ends, EndsApps, Sids
  <2> QED BY <1>2, <2>5, <2>6, Frame
<1>6. CASE req' = [req EXCEPT ![r] = [@ EXCEPT !.pc = "create", !.set = ClearIfHeld(e.ck)]]
  <2> DEFINE q == [e EXCEPT !.pc = "create", !.set = ClearIfHeld(e.ck)]
  <2>3. "create" \in Labels /\ ClearIfHeld(e.ck) \in {"keep", "clear"}
    BY DEF Labels, ClearIfHeld
  <2>4. q \in Request
    BY <1>0, <2>3 DEF Request
  <2>5. Becomes(r, q)
    BY <1>6, <2>4 DEF Becomes, ShapeInv, TypeOK
  <2>6. Placed(r, q) /\ Informed(r, q, grant')
    BY <1>0, <1>1, <2>3, RequestsAssumption DEF Placed, Informed, Request, Ends, EndsApps, Sids
  <2> QED BY <1>2, <2>5, <2>6, Frame
<1>7. CASE req' = [req EXCEPT ![r].pc = "create"]
  <2>1. "create" \in Labels
    BY DEF Labels
  <2>2. Placed(r, [e EXCEPT !.pc = "create"]) /\ Informed(r, [e EXCEPT !.pc = "create"], grant')
    BY <1>0, <1>1, RequestsAssumption DEF Placed, Informed, Request, Ends, EndsApps, Sids
  <2> QED BY <1>2, <1>7, <2>1, <2>2, PcMove
<1> QED BY <1>4, <1>5, <1>6, <1>7 DEF JoinLoad

\* The store calls that failed are counted.
LEMMA OutageCount ==
    ASSUME ShapeInv, UNCHANGED outages \/ Fails
    PROVE  outages' \in Nat
BY DEF ShapeInv, TypeOK, Fails

\* A request that has begun keeps what it knows when it is answered.
LEMMA FinalMove ==
    ASSUME ShapeInv, NEW r \in Reqs, NEW l \in Final, req' = [req EXCEPT ![r].pc = l],
           req[r].pc # "idle", Placed(r, [req[r] EXCEPT !.pc = l]),
           StoreTypes', GrantsNamed', GrantsKept
    PROVE  ShapeInv'
<1>1. l \in Labels /\ Informed(r, req[r], grant) /\ req[r] \in Request
  BY Shape DEF Labels
<1>2. Informed(r, [req[r] EXCEPT !.pc = l], grant')
  BY <1>1 DEF Informed, Request, Final
<1> QED BY <1>1, <1>2, PcMove

\* JoinReplace keeps the shape.
LEMMA JoinReplaceKeeps ==
    ASSUME ShapeInv, NEW r \in Reqs, JoinReplace(r)
    PROVE  ShapeInv'
<1> DEFINE e == req[r]
<1>0. e \in Request /\ Placed(r, e) /\ Informed(r, e, grant) /\ e.pc = "replace"
  BY Shape DEF JoinReplace
<1>1. r \in SignIns /\ e.c \in Clients /\ e.id \in SignIns
  BY <1>0, RequestsAssumption DEF Placed, Informed, Ends, EndsApps, Reqs, Sids
<1>2. shared' \in [SignIns -> Shared]
  <2>1. CASE shared' = [shared EXCEPT ![e.id] = [@ EXCEPT !.sec = r, !.ways = e.ways,
                                                         !.ends = e.until]]
    <3>1. shared[e.id] \in Shared /\ e.ways \in [Methods -> Nat] /\ e.until \in Nat
      BY <1>0, <1>1 DEF ShapeInv, TypeOK, Request
    <3>2. [shared[e.id] EXCEPT !.sec = r, !.ways = e.ways, !.ends = e.until] \in Shared
      BY <1>1, <3>1 DEF Shared
    <3> QED BY <2>1, <3>2 DEF ShapeInv, TypeOK
  <2>2. CASE UNCHANGED shared
    BY <2>2 DEF ShapeInv, TypeOK
  <2> QED BY <2>1, <2>2 DEF JoinReplace
<1>3. StoreTypes' /\ GrantsNamed' /\ GrantsKept /\ grant' = grant
  BY <1>2, OutageCount DEF JoinReplace, ShapeInv, TypeOK, StoreTypes, GrantsNamed, GrantsKept
<1>4. CASE req' = [req EXCEPT ![r] = [@ EXCEPT !.pc = "session", !.set = "give"]]
  <2> DEFINE q == [e EXCEPT !.pc = "session", !.set = "give"]
  <2>1. "session" \in Labels
    BY DEF Labels
  <2>2. q \in Request
    BY <1>0, <2>1 DEF Request
  <2>3. Becomes(r, q)
    BY <1>4, <2>2 DEF Becomes, ShapeInv, TypeOK
  <2>4. Placed(r, q) /\ Informed(r, q, grant')
    BY <1>0, <1>1, RequestsAssumption DEF Placed, Informed, Request, Ends, EndsApps, Sids
  <2> QED BY <1>3, <2>3, <2>4, Frame
<1>5. CASE req' = [req EXCEPT ![r].pc = "create"]
  <2>1. "create" \in Labels
    BY DEF Labels
  <2>2. Placed(r, [e EXCEPT !.pc = "create"]) /\ Informed(r, [e EXCEPT !.pc = "create"], grant')
    BY <1>0, <1>1, RequestsAssumption DEF Placed, Informed, Request, Ends, EndsApps, Sids
  <2> QED BY <1>3, <1>5, <2>1, <2>2, PcMove
<1>6. CASE req' = [req EXCEPT ![r].pc = "error"]
  <2>1. Placed(r, [e EXCEPT !.pc = "error"])
    BY <1>0, <1>1, RequestsAssumption DEF Placed, Request, Ends, EndsApps, Sids
  <2> QED BY <1>0, <1>3, <1>6, <2>1, FinalMove DEF Final
<1> QED BY <1>4, <1>5, <1>6 DEF JoinReplace

\* JoinCreate keeps the shape.
LEMMA JoinCreateKeeps ==
    ASSUME ShapeInv, NEW r \in Reqs, JoinCreate(r)
    PROVE  ShapeInv'
<1> DEFINE e == req[r]
           end == e.at + SessionTTL
<1>0. e \in Request /\ Placed(r, e) /\ Informed(r, e, grant) /\ e.pc = "create"
  BY Shape DEF JoinCreate
<1>1. r \in SignIns /\ e.c \in Clients /\ end \in Nat
  BY <1>0, RequestsAssumption, ConfigAssumption
     DEF Placed, Informed, Ends, EndsApps, Reqs, Sids, Request
<1>2. shared' \in [SignIns -> Shared]
  <2> DEFINE n == [st |-> "live", sec |-> r, p |-> e.p,
                   ways |-> [m \in Methods |-> IF m = e.m THEN end ELSE 0], ends |-> end]
  <2>1. CASE shared' = [shared EXCEPT ![r] = n]
    <3>1. n \in Shared
      BY <1>0, <1>1 DEF Shared, Request, Status
    <3> QED BY <2>1, <3>1 DEF ShapeInv, TypeOK
  <2>2. CASE UNCHANGED shared
    BY <2>2 DEF ShapeInv, TypeOK
  <2> QED BY <2>1, <2>2 DEF JoinCreate
<1>3. StoreTypes' /\ GrantsNamed' /\ GrantsKept /\ grant' = grant
  BY <1>2, OutageCount DEF JoinCreate, ShapeInv, TypeOK, StoreTypes, GrantsNamed, GrantsKept
<1>4. CASE req' = [req EXCEPT ![r] = [@ EXCEPT !.pc = "session", !.id = r, !.until = end,
                                               !.set = "give"]]
  <2> DEFINE q == [e EXCEPT !.pc = "session", !.id = r, !.until = end, !.set = "give"]
  <2>1. "session" \in Labels
    BY DEF Labels
  <2>2. q \in Request
    BY <1>0, <1>1, <2>1 DEF Request
  <2>3. Becomes(r, q)
    BY <1>4, <2>2 DEF Becomes, ShapeInv, TypeOK
  <2>4. Placed(r, q) /\ Informed(r, q, grant')
    BY <1>0, <1>1, RequestsAssumption DEF Placed, Informed, Request, Ends, EndsApps, Sids
  <2> QED BY <1>3, <2>3, <2>4, Frame
<1>5. CASE req' = [req EXCEPT ![r].pc = "error"]
  <2>1. Placed(r, [e EXCEPT !.pc = "error"])
    BY <1>0, <1>1, RequestsAssumption DEF Placed, Request, Ends, EndsApps, Sids
  <2> QED BY <1>0, <1>3, <1>5, <2>1, FinalMove DEF Final
<1> QED BY <1>4, <1>5 DEF JoinCreate

\* AnswerLoad keeps the shape.
LEMMA AnswerLoadKeeps ==
    ASSUME ShapeInv, NEW r \in Reqs, AnswerLoad(r)
    PROVE  ShapeInv'
<1> DEFINE e == req[r]
           sh == shared[e.ck.id]
<1>0. /\ e \in Request /\ Placed(r, e) /\ Informed(r, e, grant) /\ e.pc = "load"
      /\ r \in Answers
  BY Shape DEF AnswerLoad
<1>1. e.c \in Clients
  BY <1>0 DEF Informed, Sids
<1>2. StoreTypes' /\ GrantsNamed' /\ GrantsKept /\ grant' = grant
  BY StoreSame DEF AnswerLoad, storeVars
<1>3. Holds(e.ck) => e.ck.id \in SignIns /\ sh \in Shared
  BY <1>0 DEF Holds, Request, Cookie, ShapeInv, TypeOK
<1>4. ASSUME Holds(e.ck), NEW m \in Fitting(e.ck.id, e.c),
             req' = [req EXCEPT ![r] =
                 [@ EXCEPT !.pc = "session", !.id = e.ck.id, !.p = sh.p, !.m = m,
                           !.at = now, !.ends = sh.ways[m], !.until = sh.ends]]
      PROVE  ShapeInv'
  <2> DEFINE q == [e EXCEPT !.pc = "session", !.id = e.ck.id, !.p = sh.p, !.m = m,
                            !.at = now, !.ends = sh.ways[m], !.until = sh.ends]
  <2>1. m \in Methods /\ now < sh.ways[m]
    BY <1>1, <1>4, ConfigAssumption DEF Fitting
  <2>2. /\ sh.p \in People \cup {None} /\ sh.ways[m] \in Nat /\ sh.ends \in Nat /\ now \in Nat
        /\ e.ck.id \in SignIns /\ "session" \in Labels
    BY <1>3, <1>4, <2>1 DEF Shared, ShapeInv, TypeOK, Labels
  <2>3. q \in Request
    BY <1>0, <2>1, <2>2 DEF Request
  <2>4. Becomes(r, q)
    BY <1>4, <2>3 DEF Becomes, ShapeInv, TypeOK
  <2>5. Placed(r, q) /\ Informed(r, q, grant')
    BY <1>0, <1>1, <2>1, <2>2, RequestsAssumption
       DEF Placed, Informed, Request, Ends, EndsApps, Sids
  <2> QED BY <1>2, <2>4, <2>5, Frame
<1>5. CASE req' = [req EXCEPT ![r] = [@ EXCEPT !.pc = "page", !.set = "clear"]]
  <2> DEFINE q == [e EXCEPT !.pc = "page", !.set = "clear"]
  <2>1. "page" \in Labels
    BY DEF Labels, Final
  <2>2. q \in Request
    BY <1>0, <2>1 DEF Request
  <2>3. Becomes(r, q)
    BY <1>5, <2>2 DEF Becomes, ShapeInv, TypeOK
  <2>4. Placed(r, q) /\ Informed(r, q, grant')
    BY <1>0, <1>1, RequestsAssumption DEF Placed, Informed, Request, Ends, EndsApps, Sids
  <2> QED BY <1>2, <2>3, <2>4, Frame
<1>6. CASE req' = [req EXCEPT ![r].pc = "page"]
  <2>1. Placed(r, [e EXCEPT !.pc = "page"])
    BY <1>0, <1>1, RequestsAssumption DEF Placed, Request, Ends, EndsApps, Sids
  <2> QED BY <1>0, <1>2, <1>6, <2>1, FinalMove DEF Final
<1> QED BY <1>4, <1>5, <1>6 DEF AnswerLoad

\* CreateSession keeps the shape.
LEMMA CreateSessionKeeps ==
    ASSUME ShapeInv, NEW r \in Reqs, CreateSession(r)
    PROVE  ShapeInv'
<1> DEFINE e == req[r]
<1>0. e \in Request /\ Placed(r, e) /\ Informed(r, e, grant) /\ e.pc = "session"
  BY Shape DEF CreateSession
<1>1. r \in Sids /\ e.c \in Clients /\ e.id \in SignIns /\ (r \in Answers => e.at <= e.ends)
  BY <1>0, RequestsAssumption DEF Placed, Informed, Ends, EndsApps, Reqs, Sids
<1>2. sess' \in [Sids -> Session]
  <2> DEFINE n == [st |-> "live", p |-> e.p, id |-> e.id, ends |-> now + Lifetime(r),
                   key |-> None]
  <2>1. CASE sess' = [sess EXCEPT ![r] = n]
    <3>1. Lifetime(r) \in Nat /\ now \in Nat
      BY <1>0, <1>1, ConfigAssumption DEF Lifetime, Request, ShapeInv, TypeOK
    <3>2. n \in Session
      BY <1>0, <1>1, <3>1 DEF Session, Request, Status
    <3> QED BY <2>1, <3>2 DEF ShapeInv, TypeOK
  <2>2. CASE UNCHANGED sess
    BY <2>2 DEF ShapeInv, TypeOK
  <2> QED BY <2>1, <2>2 DEF CreateSession
<1>3. StoreTypes' /\ GrantsNamed' /\ GrantsKept /\ grant' = grant
  BY <1>2, OutageCount DEF CreateSession, ShapeInv, TypeOK, StoreTypes, GrantsNamed, GrantsKept
<1>4. CASE req' = [req EXCEPT ![r].pc = "record"]
  <2>1. "record" \in Labels
    BY DEF Labels
  <2>2. Placed(r, [e EXCEPT !.pc = "record"]) /\ Informed(r, [e EXCEPT !.pc = "record"], grant')
    BY <1>0, <1>1, RequestsAssumption DEF Placed, Informed, Request, Ends, EndsApps, Sids
  <2> QED BY <1>3, <1>4, <2>1, <2>2, PcMove
<1>5. CASE req' = [req EXCEPT ![r].pc = "error"]
  <2>1. Placed(r, [e EXCEPT !.pc = "error"])
    BY <1>0, <1>1, RequestsAssumption DEF Placed, Request, Ends, EndsApps, Sids
  <2> QED BY <1>0, <1>3, <1>5, <2>1, FinalMove DEF Final
<1> QED BY <1>4, <1>5 DEF CreateSession

\* A request of a session set goes on to end sessions, or to where it was to go then.
LEMMA EndingShape ==
    ASSUME NEW e \in Request, NEW S \in SUBSET Sids, NEW ret \in Labels
    PROVE  LET q == Ending(e, S, ret)
           IN  /\ q \in Request
               /\ q.pc = (IF S = {} THEN ret ELSE "endLoad") /\ q.ret = ret
               /\ q.set = e.set /\ q.c = e.c /\ q.id = e.id
               /\ q.sid = e.sid /\ q.key = e.key /\ q.todo = S
<1> DEFINE q(l) == [e EXCEPT !.todo = S, !.ret = ret, !.pc = l]
<1>1. ASSUME NEW l \in Labels PROVE q(l) \in Request
  BY DEF Request
<1>2. ASSUME NEW l \in Labels
      PROVE  /\ q(l).pc = l /\ q(l).ret = ret
             /\ q(l).set = e.set /\ q(l).c = e.c /\ q(l).id = e.id
             /\ q(l).sid = e.sid /\ q(l).key = e.key /\ q(l).todo = S
  BY DEF Request
<1>3. "endLoad" \in Labels
  BY DEF Labels
<1>4. CASE S = {}
  <2>1. Ending(e, S, ret) = q(ret)
    BY <1>4 DEF Ending
  <2> QED BY <1>1, <1>2, <1>4, <2>1
<1>5. CASE S # {}
  <2>1. Ending(e, S, ret) = q("endLoad")
    BY <1>5 DEF Ending
  <2> HIDE DEF q
  <2> QED BY <1>1, <1>2, <1>3, <1>5, <2>1
<1> QED BY <1>4, <1>5

\* The list that the cache answers names sessions of requests.
LEMMA AppsType ==
    ASSUME ShapeInv, NEW id \in SignIns
    PROVE  Apps(id) \in [Clients -> Sids \cup {None}]
BY DEF ShapeInv, TypeOK, Apps

\* AddSharedApp keeps the shape.
LEMMA AddSharedAppKeeps ==
    ASSUME ShapeInv, NEW r \in Reqs, AddSharedApp(r)
    PROVE  ShapeInv'
<1> DEFINE e == req[r]
           next == IF r \in Answers THEN "recheck" ELSE "code"
<1>0. e \in Request /\ Placed(r, e) /\ Informed(r, e, grant) /\ e.pc = "record"
  BY Shape DEF AddSharedApp
<1>1. r \in Sids /\ e.c \in Clients /\ e.id \in SignIns /\ e.until \in Nat
  BY <1>0, RequestsAssumption DEF Placed, Informed, Ends, EndsApps, Reqs, Sids, Request
<1>2. list' \in [SignIns -> [Clients -> Sids \cup {None}]] /\ listEnds' \in [SignIns -> Nat]
  <2>1. CASE /\ list' = [list EXCEPT ![e.id] = [Apps(e.id) EXCEPT ![e.c] = r]]
             /\ listEnds' = [listEnds EXCEPT ![e.id] = e.until]
    <3>1. [Apps(e.id) EXCEPT ![e.c] = r] \in [Clients -> Sids \cup {None}]
      BY <1>1, AppsType
    <3> QED BY <1>1, <2>1, <3>1 DEF ShapeInv, TypeOK
  <2>2. CASE UNCHANGED <<list, listEnds>>
    BY <2>2 DEF ShapeInv, TypeOK
  <2> QED BY <2>1, <2>2 DEF AddSharedApp
<1>3. StoreTypes' /\ GrantsNamed' /\ GrantsKept /\ grant' = grant
  BY <1>2, OutageCount DEF AddSharedApp, ShapeInv, TypeOK, StoreTypes, GrantsNamed, GrantsKept
<1>4. next \in Labels /\ "page" \in Labels /\ {r} \in SUBSET Sids
  BY <1>1 DEF Labels, Final
<1>5. CASE req' = [req EXCEPT ![r] = Ending(e, Earlier(r), next)]
  <2>1. Earlier(r) \in SUBSET Sids
    BY <1>1, AppsType DEF Earlier
  <2> DEFINE q == Ending(e, Earlier(r), next)
  <2>2. /\ q \in Request
        /\ q.pc = (IF Earlier(r) = {} THEN next ELSE "endLoad") /\ q.ret = next
        /\ q.set = e.set /\ q.c = e.c /\ q.id = e.id
    BY <1>0, <1>4, <2>1, EndingShape
  <2> HIDE DEF q
  <2>3. Becomes(r, q)
    BY <1>5, <2>2 DEF Becomes, q
  <2>4. Placed(r, q) /\ Informed(r, q, grant')
    BY <1>0, <1>1, <2>2, RequestsAssumption DEF Placed, Informed, Ends, EndsApps, Sids
  <2> QED BY <1>3, <2>3, <2>4, Frame
<1>6. CASE req' = [req EXCEPT ![r] = Unrecorded(r)]
  <2>1. CASE r \in Answers
    <3> DEFINE q == Ending(e, {r}, "page")
    <3>1. /\ q \in Request
          /\ q.pc = "endLoad" /\ q.ret = "page"
          /\ q.set = e.set /\ q.c = e.c /\ q.id = e.id
      BY <1>0, <1>4, EndingShape
    <3> HIDE DEF q
    <3>2. Becomes(r, q)
      BY <1>6, <2>1, <3>1 DEF Becomes, q, Unrecorded
    <3>3. Placed(r, q) /\ Informed(r, q, grant')
      BY <1>0, <1>1, <2>1, <3>1, RequestsAssumption DEF Placed, Informed, Ends, EndsApps, Sids
    <3> QED BY <1>3, <3>2, <3>3, Frame
  <2>2. CASE r \notin Answers
    <3>0. Unrecorded(r) = [e EXCEPT !.pc = "code"]
      BY <2>2 DEF Unrecorded
    <3>1. req' = [req EXCEPT ![r].pc = "code"] /\ "code" \in Labels
      BY <1>6, <3>0 DEF Labels
    <3>2. Placed(r, [e EXCEPT !.pc = "code"]) /\ Informed(r, [e EXCEPT !.pc = "code"], grant')
      BY <1>0, <1>1, <2>2, RequestsAssumption DEF Placed, Informed, Request, Ends, EndsApps, Sids
    <3> QED BY <1>3, <3>1, <3>2, PcMove
  <2> QED BY <2>1, <2>2
<1> QED BY <1>5, <1>6 DEF AddSharedApp

\* SharedLive keeps the shape.
LEMMA SharedLiveKeeps ==
    ASSUME ShapeInv, NEW r \in Reqs, SharedLive(r)
    PROVE  ShapeInv'
<1> DEFINE e == req[r]
<1>0. e \in Request /\ Placed(r, e) /\ Informed(r, e, grant) /\ e.pc = "recheck"
  BY Shape DEF SharedLive
<1>1. r \in Answers /\ {r} \in SUBSET Sids /\ "page" \in Labels /\ "code" \in Labels
  BY <1>0, RequestsAssumption DEF Placed, Ends, EndsApps, Reqs, Sids, Labels, Final
<1>2. StoreTypes' /\ GrantsNamed' /\ GrantsKept /\ grant' = grant
  BY StoreSame DEF SharedLive, storeVars
<1>3. CASE req' = [req EXCEPT ![r].pc = "code"]
  <2>1. Placed(r, [e EXCEPT !.pc = "code"]) /\ Informed(r, [e EXCEPT !.pc = "code"], grant')
    BY <1>0, <1>1, RequestsAssumption DEF Placed, Informed, Request, Ends, EndsApps, Sids
  <2> QED BY <1>1, <1>2, <1>3, <2>1, PcMove
<1>4. CASE req' = [req EXCEPT ![r] = Ending(e, {r}, "page")]
  <2> DEFINE q == Ending(e, {r}, "page")
  <2>1. /\ q \in Request
        /\ q.pc = "endLoad" /\ q.ret = "page"
        /\ q.set = e.set /\ q.c = e.c /\ q.id = e.id
    BY <1>0, <1>1, EndingShape
  <2> HIDE DEF q
  <2>2. Becomes(r, q)
    BY <1>4, <2>1 DEF Becomes, q
  <2>3. Placed(r, q) /\ Informed(r, q, grant')
    BY <1>0, <1>1, <2>1, RequestsAssumption DEF Placed, Informed, Ends, EndsApps, Sids
  <2> QED BY <1>2, <2>2, <2>3, Frame
<1> QED BY <1>3, <1>4 DEF SharedLive

\* SaveAppCode keeps the shape.
LEMMA SaveAppCodeKeeps ==
    ASSUME ShapeInv, NEW r \in Reqs, SaveAppCode(r)
    PROVE  ShapeInv'
<1> DEFINE e == req[r]
<1>0. e \in Request /\ Placed(r, e) /\ Informed(r, e, grant) /\ e.pc = "code"
  BY Shape DEF SaveAppCode
<1>1. r \in Sids
  BY <1>0, RequestsAssumption DEF Placed, Ends, EndsApps, Reqs, Sids
<1>2. code' \in [Sids -> {"none", "saved", "spent"}]
  BY DEF SaveAppCode, ShapeInv, TypeOK
<1>3. StoreTypes' /\ GrantsNamed' /\ GrantsKept
  BY <1>2, OutageCount DEF SaveAppCode, ShapeInv, TypeOK, StoreTypes, GrantsNamed, GrantsKept
<1>4. PICK l \in {"coded", "error"} : req' = [req EXCEPT ![r].pc = l]
  BY DEF SaveAppCode
<1>5. Placed(r, [e EXCEPT !.pc = l])
  BY <1>0, <1>1, <1>4, RequestsAssumption DEF Placed, Request, Ends, EndsApps, Sids
<1> QED BY <1>0, <1>3, <1>4, <1>5, FinalMove DEF Final

\* EndRecord keeps the shape.
LEMMA EndRecordKeeps ==
    ASSUME ShapeInv, NEW r \in Reqs, EndRecord(r)
    PROVE  ShapeInv'
<1> DEFINE e == req[r]
<1>0. e \in Request /\ Placed(r, e) /\ Informed(r, e, grant) /\ e.pc = "endRecord"
  BY Shape DEF EndRecord
<1>1. shared' \in [SignIns -> Shared]
  <2>1. shared[e.id] \in Shared
    BY <1>0 DEF Informed, ShapeInv, TypeOK
  <2>2. [shared[e.id] EXCEPT !.st = "gone"] \in Shared
    BY <2>1 DEF Shared, Status
  <2> QED BY <2>2 DEF EndRecord, ShapeInv, TypeOK
<1>2. StoreTypes' /\ GrantsNamed' /\ GrantsKept /\ grant' = grant
  BY <1>1, OutageCount DEF EndRecord, ShapeInv, TypeOK, StoreTypes, GrantsNamed, GrantsKept
<1>3. PICK l \in {"takeApps", e.ret} : req' = [req EXCEPT ![r].pc = l]
  BY DEF EndRecord
<1>4. l \in Labels
  BY <1>0, <1>3 DEF Labels, Request
<1>5. Placed(r, [e EXCEPT !.pc = l]) /\ Informed(r, [e EXCEPT !.pc = l], grant')
  BY <1>0, <1>2, <1>3, RequestsAssumption
     DEF Placed, Informed, Request, Ends, EndsApps, Reqs, Sids
<1> QED BY <1>2, <1>3, <1>4, <1>5, PcMove

\* TakeApps keeps the shape.
LEMMA TakeAppsKeeps ==
    ASSUME ShapeInv, NEW r \in Reqs, TakeApps(r)
    PROVE  ShapeInv'
<1> DEFINE e == req[r]
           taken == {Apps(e.id)[c] : c \in Clients} \ {None}
<1>0. e \in Request /\ Placed(r, e) /\ Informed(r, e, grant) /\ e.pc = "takeApps"
  BY Shape DEF TakeApps
<1>1. e.id \in SignIns /\ e.ret \in Labels
  BY <1>0 DEF Informed, Request
<1>2. list' \in [SignIns -> [Clients -> Sids \cup {None}]]
  BY DEF TakeApps, ShapeInv, TypeOK
<1>3. StoreTypes' /\ GrantsNamed' /\ GrantsKept /\ grant' = grant
  BY <1>2, OutageCount DEF TakeApps, ShapeInv, TypeOK, StoreTypes, GrantsNamed, GrantsKept
<1>4. taken \in SUBSET Sids
  BY <1>1, AppsType
<1>5. CASE req' = [req EXCEPT ![r] = Ending(e, taken, e.ret)]
  <2> DEFINE q == Ending(e, taken, e.ret)
  <2>1. /\ q \in Request
        /\ q.pc = (IF taken = {} THEN e.ret ELSE "endLoad") /\ q.ret = e.ret
        /\ q.set = e.set /\ q.c = e.c /\ q.id = e.id
    BY <1>0, <1>1, <1>4, EndingShape
  <2> HIDE DEF q
  <2>2. Becomes(r, q)
    BY <1>5, <2>1 DEF Becomes, q
  <2>3. Placed(r, q) /\ Informed(r, q, grant')
    BY <1>0, <1>1, <2>1, RequestsAssumption
       DEF Placed, Informed, Ends, EndsApps, Reqs, Sids
  <2> QED BY <1>3, <2>2, <2>3, Frame
<1>6. CASE req' = [req EXCEPT ![r].pc = e.ret]
  <2>1. Placed(r, [e EXCEPT !.pc = e.ret]) /\ Informed(r, [e EXCEPT !.pc = e.ret], grant')
    BY <1>0, <1>3, RequestsAssumption
       DEF Placed, Informed, Request, Ends, EndsApps, Reqs, Sids
  <2> QED BY <1>1, <1>3, <1>6, <2>1, PcMove
<1> QED BY <1>5, <1>6 DEF TakeApps

\* EndLoad keeps the shape.
LEMMA EndLoadKeeps ==
    ASSUME ShapeInv, NEW r \in Reqs, EndLoad(r)
    PROVE  ShapeInv'
<1> DEFINE e == req[r]
<1>0. e \in Request /\ Placed(r, e) /\ Informed(r, e, grant) /\ e.pc = "endLoad"
  BY Shape DEF EndLoad
<1>1. StoreTypes' /\ GrantsNamed' /\ GrantsKept /\ grant' = grant
  BY StoreSame DEF EndLoad, storeVars
<1>2. PICK s \in e.todo :
          \/ /\ sess[s].key # None
             /\ req' = [req EXCEPT ![r] = [@ EXCEPT !.pc = "endGrant", !.cur = s,
                                                    !.key = sess[s].key]]
          \/ req' = [req EXCEPT ![r] = [@ EXCEPT !.pc = "endDel", !.cur = s]]
  BY DEF EndLoad
<1>3. s \in Sids /\ "endGrant" \in Labels /\ "endDel" \in Labels
  BY <1>0 DEF Request, Labels
<1>4. CASE /\ sess[s].key # None
           /\ req' = [req EXCEPT ![r] = [@ EXCEPT !.pc = "endGrant", !.cur = s,
                                                  !.key = sess[s].key]]
  <2> DEFINE k == sess[s].key
             q == [e EXCEPT !.pc = "endGrant", !.cur = s, !.key = k]
  <2>1. k \in Exchanges /\ grant[k].st # "none"
    BY <1>3, <1>4 DEF ShapeInv, TypeOK, Session, GrantsNamed
  <2> HIDE DEF k
  <2>2. q \in Request
    BY <1>0, <1>3, <2>1 DEF Request
  <2>3. Becomes(r, q)
    BY <1>4, <2>2 DEF Becomes, ShapeInv, TypeOK, k
  <2>4. Placed(r, q) /\ Informed(r, q, grant')
    BY <1>0, <1>1, <2>1, RequestsAssumption
       DEF Placed, Informed, Request, Ends, EndsApps, Reqs, Sids
  <2> QED BY <1>1, <2>3, <2>4, Frame
<1>5. CASE req' = [req EXCEPT ![r] = [@ EXCEPT !.pc = "endDel", !.cur = s]]
  <2> DEFINE q == [e EXCEPT !.pc = "endDel", !.cur = s]
  <2>1. q \in Request
    BY <1>0, <1>3 DEF Request
  <2>2. Becomes(r, q)
    BY <1>5, <2>1 DEF Becomes, ShapeInv, TypeOK
  <2>3. Placed(r, q) /\ Informed(r, q, grant')
    BY <1>0, <1>1, RequestsAssumption
       DEF Placed, Informed, Request, Ends, EndsApps, Reqs, Sids
  <2> QED BY <1>1, <2>2, <2>3, Frame
<1> QED BY <1>2, <1>4, <1>5

\* EndGrant keeps the shape.
LEMMA EndGrantKeeps ==
    ASSUME ShapeInv, NEW r \in Reqs, EndGrant(r)
    PROVE  ShapeInv'
<1> DEFINE e == req[r]
<1>0. e \in Request /\ Placed(r, e) /\ Informed(r, e, grant) /\ e.pc = "endGrant"
  BY Shape DEF EndGrant
<1>1. e.key \in Exchanges /\ grant[e.key].st # "none" /\ grant[e.key] \in Grant
  BY <1>0 DEF Informed, ShapeInv, TypeOK
<1>2. grant' \in [Exchanges -> Grant] /\ GrantsNamed' /\ GrantsKept
  <2> DEFINE n == [grant[e.key] EXCEPT !.st = "gone"]
  <2>1. n \in Grant /\ n.sid = grant[e.key].sid /\ n.st = "gone"
    BY <1>1 DEF Grant, Status
  <2> HIDE DEF n
  <2>2. (grant' = [grant EXCEPT ![e.key] = n] \/ grant' = grant) /\ sess' = sess
    BY DEF EndGrant, n
  <2>3. grant' \in [Exchanges -> Grant]
    BY <2>1, <2>2 DEF ShapeInv, TypeOK
  <2>4. \A k \in Exchanges : /\ grant'[k].sid = grant[k].sid
                             /\ grant[k].st # "none" <=> grant'[k].st # "none"
    BY <1>1, <2>1, <2>2 DEF ShapeInv, TypeOK
  <2> QED BY <2>2, <2>3, <2>4 DEF GrantsNamed, GrantsKept, ShapeInv, TypeOK, Session
<1>3. StoreTypes'
  BY <1>2, OutageCount DEF EndGrant, ShapeInv, TypeOK, StoreTypes
<1>4. req' = [req EXCEPT ![r].pc = "endDel"] /\ "endDel" \in Labels
  BY DEF EndGrant, Labels
<1>5. Placed(r, [e EXCEPT !.pc = "endDel"]) /\ Informed(r, [e EXCEPT !.pc = "endDel"], grant')
  BY <1>0, RequestsAssumption DEF Placed, Informed, Request, Ends, EndsApps, Reqs, Sids
<1> QED BY <1>2, <1>3, <1>4, <1>5, PcMove

\* EndDel keeps the shape.
LEMMA EndDelKeeps ==
    ASSUME ShapeInv, NEW r \in Reqs, EndDel(r)
    PROVE  ShapeInv'
<1> DEFINE e == req[r]
           left == e.todo \ {e.cur}
           q == Ending(e, left, e.ret)
<1>0. e \in Request /\ Placed(r, e) /\ Informed(r, e, grant) /\ e.pc = "endDel"
  BY Shape DEF EndDel
<1>1. left \in SUBSET Sids /\ e.ret \in Labels
  BY <1>0 DEF Request
<1>2. /\ sess' \in [Sids -> Session]
      /\ \A s \in Sids : sess'[s].key = sess[s].key
  <2> DEFINE n == [sess[e.cur] EXCEPT !.st = "gone"]
  <2>1. ASSUME e.cur \in Sids PROVE n \in Session /\ n.key = sess[e.cur].key
    <3>1. sess[e.cur] \in Session
      BY <2>1 DEF ShapeInv, TypeOK
    <3> QED BY <3>1 DEF Session, Status
  <2> HIDE DEF n
  <2>2. sess' = [sess EXCEPT ![e.cur] = n] \/ sess' = sess
    BY DEF EndDel, n
  <2> QED BY <2>1, <2>2 DEF ShapeInv, TypeOK
<1>3. StoreTypes' /\ GrantsNamed' /\ GrantsKept /\ grant' = grant
  BY <1>2, OutageCount DEF EndDel, ShapeInv, TypeOK, StoreTypes, GrantsNamed, GrantsKept
<1>4. /\ q \in Request
      /\ q.pc = (IF left = {} THEN e.ret ELSE "endLoad") /\ q.ret = e.ret
      /\ q.set = e.set /\ q.c = e.c /\ q.id = e.id /\ q.sid = e.sid
  BY <1>0, <1>1, EndingShape
<1>5. req' = [req EXCEPT ![r] = q]
  BY DEF EndDel
<1> HIDE DEF q, left
<1>6. Becomes(r, q)
  BY <1>4, <1>5 DEF Becomes
<1>7. Placed(r, q) /\ Informed(r, q, grant')
  BY <1>0, <1>3, <1>4, RequestsAssumption
     DEF Placed, Informed, Ends, EndsApps, Reqs, Sids
<1> QED BY <1>3, <1>6, <1>7, Frame

\* ConsumeAppCode keeps the shape.
LEMMA ConsumeAppCodeKeeps ==
    ASSUME ShapeInv, NEW r \in Reqs, ConsumeAppCode(r)
    PROVE  ShapeInv'
<1> DEFINE e == req[r]
<1>0. e \in Request /\ Placed(r, e) /\ Informed(r, e, grant) /\ e.pc = "consume"
  BY Shape DEF ConsumeAppCode
<1>1. r \in Exchanges
  BY <1>0, RequestsAssumption DEF Placed, Ends, EndsApps, Reqs, Sids
<1>2. code' \in [Sids -> {"none", "saved", "spent"}]
  BY DEF ConsumeAppCode, ShapeInv, TypeOK
<1>3. StoreTypes' /\ GrantsNamed' /\ GrantsKept /\ grant' = grant
  BY <1>2, OutageCount DEF ConsumeAppCode, ShapeInv, TypeOK, StoreTypes, GrantsNamed, GrantsKept
<1>4. PICK l \in {"codeSess", "refused"} : req' = [req EXCEPT ![r].pc = l]
  BY DEF ConsumeAppCode
<1>5. l \in Labels
  BY <1>4 DEF Labels, Final
<1>6. Placed(r, [e EXCEPT !.pc = l]) /\ Informed(r, [e EXCEPT !.pc = l], grant')
  BY <1>0, <1>1, <1>4, RequestsAssumption DEF Placed, Informed, Request, Ends, EndsApps, Sids
<1> QED BY <1>3, <1>4, <1>5, <1>6, PcMove

\* ExchangeLoad keeps the shape.
LEMMA ExchangeLoadKeeps ==
    ASSUME ShapeInv, NEW r \in Reqs, ExchangeLoad(r)
    PROVE  ShapeInv'
<1> DEFINE e == req[r]
<1>0. e \in Request /\ Placed(r, e) /\ Informed(r, e, grant) /\ e.pc = "codeSess"
  BY Shape DEF ExchangeLoad
<1>1. r \in Exchanges
  BY <1>0, RequestsAssumption DEF Placed, Ends, EndsApps, Reqs, Sids
<1>2. StoreTypes' /\ GrantsNamed' /\ GrantsKept /\ grant' = grant
  BY StoreSame DEF ExchangeLoad, storeVars
<1>3. PICK l \in {"saveGrant", "error", "refused"} : req' = [req EXCEPT ![r].pc = l]
  BY DEF ExchangeLoad
<1>4. l \in Labels
  BY <1>3 DEF Labels, Final
<1>5. Placed(r, [e EXCEPT !.pc = l]) /\ Informed(r, [e EXCEPT !.pc = l], grant')
  BY <1>0, <1>1, <1>3, RequestsAssumption DEF Placed, Informed, Request, Ends, EndsApps, Sids
<1> QED BY <1>2, <1>3, <1>4, <1>5, PcMove

\* SaveRefresh keeps the shape.
LEMMA SaveRefreshKeeps ==
    ASSUME ShapeInv, NEW r \in Reqs, SaveRefresh(r)
    PROVE  ShapeInv'
<1> DEFINE e == req[r]
           n == [st |-> "live", sid |-> e.sid]
<1>0. e \in Request /\ Placed(r, e) /\ Informed(r, e, grant) /\ e.pc = "saveGrant"
  BY Shape DEF SaveRefresh
<1>1. r \in Exchanges /\ e.sid \in Sids
  BY <1>0, RequestsAssumption DEF Placed, Informed, Ends, EndsApps, Reqs, Sids
<1>2. /\ grant' \in [Exchanges -> Grant] /\ GrantsNamed' /\ GrantsKept
      /\ req' = [req EXCEPT ![r].pc = "bind"] => grant'[r].st = "live"
  <2>1. n \in Grant
    BY <1>1 DEF Grant, Status
  <2>2. CASE grant' = [grant EXCEPT ![r] = n]
    BY <1>1, <2>1, <2>2 DEF SaveRefresh, ShapeInv, TypeOK, Session, GrantsNamed, GrantsKept
  <2>3. CASE /\ UNCHANGED grant
             /\ \E l \in {"refused", "unavailable"} : req' = [req EXCEPT ![r].pc = l]
    <3>1. req'[r].pc # "bind"
      BY <1>0, <2>3 DEF ShapeInv, TypeOK, Request
    <3>2. req' # [req EXCEPT ![r].pc = "bind"]
      BY <1>0, <3>1 DEF ShapeInv, TypeOK, Request
    <3> QED BY <2>3, <3>2 DEF SaveRefresh, ShapeInv, TypeOK, GrantsNamed, GrantsKept
  <2> QED BY <2>2, <2>3 DEF SaveRefresh, Unavailable
<1>3. StoreTypes'
  BY <1>2, OutageCount DEF SaveRefresh, Unavailable, ShapeInv, TypeOK, StoreTypes
<1>4. PICK l \in {"bind", "refused", "unavailable"} : req' = [req EXCEPT ![r].pc = l]
  BY DEF SaveRefresh, Unavailable
<1>5. l \in Labels /\ (l = "bind" => grant'[r].st # "none")
  BY <1>2, <1>4 DEF Labels, Final
<1>6. Placed(r, [e EXCEPT !.pc = l]) /\ Informed(r, [e EXCEPT !.pc = l], grant')
  BY <1>0, <1>1, <1>4, <1>5, RequestsAssumption
     DEF Placed, Informed, Request, Ends, EndsApps, Sids
<1> QED BY <1>2, <1>3, <1>4, <1>5, <1>6, PcMove

\* ReplaceSession keeps the shape.
LEMMA ReplaceSessionKeeps ==
    ASSUME ShapeInv, NEW r \in Reqs, ReplaceSession(r)
    PROVE  ShapeInv'
<1> DEFINE e == req[r]
<1>0. e \in Request /\ Placed(r, e) /\ Informed(r, e, grant) /\ e.pc = "bind"
  BY Shape DEF ReplaceSession
<1>1. r \in Exchanges /\ e.sid \in Sids /\ grant[r].st # "none"
  BY <1>0, RequestsAssumption DEF Placed, Informed, Ends, EndsApps, Reqs, Sids
<1>2. sess' \in [Sids -> Session] /\ GrantsNamed'
  <2> DEFINE n == [sess[e.sid] EXCEPT !.key = r]
  <2>1. n \in Session /\ n.key = r
    BY <1>1 DEF ShapeInv, TypeOK, Session
  <2> HIDE DEF n
  <2>2. (sess' = [sess EXCEPT ![e.sid] = n] \/ sess' = sess) /\ grant' = grant
    BY DEF ReplaceSession, n
  <2> QED BY <1>1, <2>1, <2>2 DEF ShapeInv, TypeOK, GrantsNamed
<1>3. StoreTypes' /\ GrantsKept
  BY <1>2, OutageCount DEF ReplaceSession, Unavailable, ShapeInv, TypeOK, StoreTypes, GrantsKept
<1>4. PICK l \in {"issued", "refused", "unavailable"} : req' = [req EXCEPT ![r].pc = l]
  BY DEF ReplaceSession, Unavailable
<1>5. Placed(r, [e EXCEPT !.pc = l])
  BY <1>0, <1>1, <1>4, RequestsAssumption DEF Placed, Request, Ends, EndsApps, Sids
<1> QED BY <1>0, <1>2, <1>3, <1>4, <1>5, FinalMove DEF Final

\* RefreshGrant keeps the shape.
LEMMA RefreshGrantKeeps ==
    ASSUME ShapeInv, NEW r \in Reqs, RefreshGrant(r)
    PROVE  ShapeInv'
<1> DEFINE e == req[r]
<1>0. /\ e \in Request /\ Placed(r, e) /\ Informed(r, e, grant) /\ e.pc = "grant"
      /\ r \in Refreshes
  BY Shape DEF RefreshGrant
<1>1. StoreTypes' /\ GrantsNamed' /\ GrantsKept /\ grant' = grant
  BY StoreSame DEF RefreshGrant, Unavailable, storeVars
<1>2. CASE req' = [req EXCEPT ![r] = [@ EXCEPT !.pc = "renewSess", !.sid = grant[e.key].sid]]
  <2> DEFINE s == grant[e.key].sid
             q == [e EXCEPT !.pc = "renewSess", !.sid = s]
  <2>1. s \in Sids \cup {None} /\ "renewSess" \in Labels
    BY <1>0 DEF Informed, ShapeInv, TypeOK, Grant, Labels
  <2> HIDE DEF s
  <2>2. q \in Request
    BY <1>0, <2>1 DEF Request
  <2>3. Becomes(r, q)
    BY <1>2, <2>2 DEF Becomes, ShapeInv, TypeOK, s
  <2>4. Placed(r, q) /\ Informed(r, q, grant')
    BY <1>0, <1>1, RequestsAssumption DEF Placed, Informed, Request, Ends, EndsApps, Sids
  <2> QED BY <1>1, <2>3, <2>4, Frame
<1>3. CASE \E l \in {"refused", "unavailable"} : req' = [req EXCEPT ![r].pc = l]
  <2>1. PICK l \in {"refused", "unavailable"} : req' = [req EXCEPT ![r].pc = l]
    BY <1>3
  <2>2. Placed(r, [e EXCEPT !.pc = l])
    BY <1>0, <2>1, RequestsAssumption DEF Placed, Request, Ends, EndsApps, Sids
  <2> QED BY <1>0, <1>1, <2>1, <2>2, FinalMove DEF Final
<1> QED BY <1>2, <1>3 DEF RefreshGrant, Unavailable

\* RefreshIssue keeps the shape.
LEMMA RefreshIssueKeeps ==
    ASSUME ShapeInv, NEW r \in Reqs, RefreshIssue(r)
    PROVE  ShapeInv'
<1> DEFINE e == req[r]
<1>0. e \in Request /\ Placed(r, e) /\ e.pc = "renewSess"
  BY Shape DEF RefreshIssue
<1>1. StoreTypes' /\ GrantsNamed' /\ GrantsKept
  BY StoreSame DEF RefreshIssue, Unavailable, storeVars
<1>2. PICK l \in {"issued", "error", "refused", "unavailable"} : req' = [req EXCEPT ![r].pc = l]
  BY DEF RefreshIssue, Unavailable
<1>3. Placed(r, [e EXCEPT !.pc = l])
  BY <1>0, <1>2, RequestsAssumption DEF Placed, Request, Ends, EndsApps, Reqs, Sids
<1> QED BY <1>0, <1>1, <1>2, <1>3, FinalMove DEF Final

\* RevokeGrant keeps the shape.
LEMMA RevokeGrantKeeps ==
    ASSUME ShapeInv, NEW r \in Reqs, RevokeGrant(r)
    PROVE  ShapeInv'
<1> DEFINE e == req[r]
<1>0. /\ e \in Request /\ Placed(r, e) /\ Informed(r, e, grant) /\ e.pc = "grant"
      /\ r \in Revokes
  BY Shape DEF RevokeGrant
<1>1. StoreTypes' /\ GrantsNamed' /\ GrantsKept /\ grant' = grant
  BY StoreSame DEF RevokeGrant, Unavailable, storeVars
<1>2. CASE LiveGrant(e.key) /\ req' = [req EXCEPT ![r].pc = "grantSess"]
  <2>1. "grantSess" \in Labels /\ grant[e.key].st # "none"
    BY <1>2 DEF Labels, LiveGrant
  <2>2. /\ Placed(r, [e EXCEPT !.pc = "grantSess"])
        /\ Informed(r, [e EXCEPT !.pc = "grantSess"], grant')
    BY <1>0, <1>1, <2>1, RequestsAssumption DEF Placed, Informed, Request, Ends, EndsApps, Sids
  <2> QED BY <1>1, <1>2, <2>1, <2>2, PcMove
<1>3. CASE \E l \in {"ended", "refused", "unavailable"} : req' = [req EXCEPT ![r].pc = l]
  <2>1. PICK l \in {"ended", "refused", "unavailable"} : req' = [req EXCEPT ![r].pc = l]
    BY <1>3
  <2>2. Placed(r, [e EXCEPT !.pc = l])
    BY <1>0, <2>1, RequestsAssumption DEF Placed, Request, Ends, EndsApps, Sids
  <2> QED BY <1>0, <1>1, <2>1, <2>2, FinalMove DEF Final
<1> QED BY <1>2, <1>3 DEF RevokeGrant, Unavailable

\* RevokeLoad keeps the shape.
LEMMA RevokeLoadKeeps ==
    ASSUME ShapeInv, NEW r \in Reqs, RevokeLoad(r)
    PROVE  ShapeInv'
<1> DEFINE e == req[r]
           s == grant[e.key].sid
<1>0. e \in Request /\ Placed(r, e) /\ Informed(r, e, grant) /\ e.pc = "grantSess"
  BY Shape DEF RevokeLoad
<1>1. /\ r \in Revokes /\ e.key \in Exchanges /\ grant[e.key].st # "none" /\ s \in Sids
      /\ sess[s].id \in SignIns \cup {None}
  BY <1>0, RequestsAssumption
     DEF Placed, Informed, Ends, EndsApps, Reqs, Sids, ShapeInv, TypeOK, GrantsNamed, Session
<1>2. StoreTypes' /\ GrantsNamed' /\ GrantsKept /\ grant' = grant
  BY StoreSame DEF RevokeLoad, Unavailable, storeVars
<1>3. CASE req' = [req EXCEPT ![r] = [@ EXCEPT !.pc = "delSess", !.sid = s, !.id = sess[s].id]]
  <2> DEFINE i == sess[s].id
             q == [e EXCEPT !.pc = "delSess", !.sid = s, !.id = i]
  <2>1. "delSess" \in Labels /\ i \in SignIns \cup {None}
    BY <1>1 DEF Labels
  <2> HIDE DEF i, s
  <2>2. q \in Request
    BY <1>0, <1>1, <2>1 DEF Request
  <2>3. Becomes(r, q)
    BY <1>3, <2>2 DEF Becomes, ShapeInv, TypeOK, i
  <2>4. Placed(r, q) /\ Informed(r, q, grant')
    BY <1>0, <1>1, <1>2, RequestsAssumption DEF Placed, Informed, Request, Ends, EndsApps, Sids
  <2> QED BY <1>2, <2>3, <2>4, Frame
<1>4. CASE req' = [req EXCEPT ![r].pc = "delGrant"]
  <2>1. "delGrant" \in Labels
    BY DEF Labels
  <2>2. /\ Placed(r, [e EXCEPT !.pc = "delGrant"])
        /\ Informed(r, [e EXCEPT !.pc = "delGrant"], grant')
    BY <1>0, <1>1, <1>2, RequestsAssumption DEF Placed, Informed, Request, Ends, EndsApps, Sids
  <2> QED BY <1>2, <1>4, <2>1, <2>2, PcMove
<1>5. CASE \E l \in {"refused", "unavailable"} : req' = [req EXCEPT ![r].pc = l]
  <2>1. PICK l \in {"refused", "unavailable"} : req' = [req EXCEPT ![r].pc = l]
    BY <1>5
  <2>2. Placed(r, [e EXCEPT !.pc = l])
    BY <1>0, <1>1, <2>1, RequestsAssumption DEF Placed, Request, Ends, EndsApps, Sids
  <2> QED BY <1>0, <1>2, <2>1, <2>2, FinalMove DEF Final
<1> QED BY <1>3, <1>4, <1>5 DEF RevokeLoad, Unavailable

\* RevokeSession keeps the shape.
LEMMA RevokeSessionKeeps ==
    ASSUME ShapeInv, NEW r \in Reqs, RevokeSession(r)
    PROVE  ShapeInv'
<1> DEFINE e == req[r]
<1>0. e \in Request /\ Placed(r, e) /\ Informed(r, e, grant) /\ e.pc = "delSess"
  BY Shape DEF RevokeSession
<1>1. r \in Revokes
  BY <1>0, RequestsAssumption DEF Placed, Ends, EndsApps, Reqs, Sids
<1>2. /\ sess' \in [Sids -> Session]
      /\ \A s \in Sids : sess'[s].key = sess[s].key
  <2> DEFINE n == [sess[e.sid] EXCEPT !.st = "gone"]
  <2>1. ASSUME e.sid \in Sids PROVE n \in Session /\ n.key = sess[e.sid].key
    <3>1. sess[e.sid] \in Session
      BY <2>1 DEF ShapeInv, TypeOK
    <3> QED BY <3>1 DEF Session, Status
  <2> HIDE DEF n
  <2>2. sess' = [sess EXCEPT ![e.sid] = n] \/ sess' = sess
    BY DEF RevokeSession, n
  <2> QED BY <2>1, <2>2 DEF ShapeInv, TypeOK
<1>3. StoreTypes' /\ GrantsNamed' /\ GrantsKept /\ grant' = grant
  BY <1>2, OutageCount
     DEF RevokeSession, Unavailable, ShapeInv, TypeOK, StoreTypes, GrantsNamed, GrantsKept
<1>4. PICK l \in {"delGrant", "unavailable"} : req' = [req EXCEPT ![r].pc = l]
  BY DEF RevokeSession, Unavailable
<1>5. l \in Labels
  BY <1>4 DEF Labels, Final
<1>6. Placed(r, [e EXCEPT !.pc = l]) /\ Informed(r, [e EXCEPT !.pc = l], grant')
  BY <1>0, <1>1, <1>3, <1>4, RequestsAssumption
     DEF Placed, Informed, Request, Ends, EndsApps, Sids
<1> QED BY <1>3, <1>4, <1>5, <1>6, PcMove

\* RevokeToken keeps the shape.
LEMMA RevokeTokenKeeps ==
    ASSUME ShapeInv, NEW r \in Reqs, RevokeToken(r)
    PROVE  ShapeInv'
<1> DEFINE e == req[r]
<1>0. e \in Request /\ Placed(r, e) /\ Informed(r, e, grant) /\ e.pc = "delGrant"
  BY Shape DEF RevokeToken
<1>1. /\ r \in Revokes /\ e.key \in Exchanges /\ grant[e.key].st # "none"
      /\ grant[e.key] \in Grant
  BY <1>0, RequestsAssumption DEF Placed, Informed, Ends, EndsApps, Reqs, Sids, ShapeInv, TypeOK
<1>2. grant' \in [Exchanges -> Grant] /\ GrantsNamed' /\ GrantsKept
  <2> DEFINE n == [grant[e.key] EXCEPT !.st = "gone"]
  <2>1. n \in Grant /\ n.sid = grant[e.key].sid /\ n.st = "gone"
    BY <1>1 DEF Grant, Status
  <2> HIDE DEF n
  <2>2. (grant' = [grant EXCEPT ![e.key] = n] \/ grant' = grant) /\ sess' = sess
    BY DEF RevokeToken, n
  <2>3. grant' \in [Exchanges -> Grant]
    BY <2>1, <2>2 DEF ShapeInv, TypeOK
  <2>4. \A k \in Exchanges : /\ grant'[k].sid = grant[k].sid
                             /\ grant[k].st # "none" <=> grant'[k].st # "none"
    BY <1>1, <2>1, <2>2 DEF ShapeInv, TypeOK
  <2> QED BY <2>2, <2>3, <2>4 DEF GrantsNamed, GrantsKept, ShapeInv, TypeOK, Session
<1>3. StoreTypes'
  BY <1>2, OutageCount DEF RevokeToken, Unavailable, ShapeInv, TypeOK, StoreTypes
<1>4. CASE req' = [req EXCEPT ![r] =
                 [@ EXCEPT !.pc = IF e.id = None THEN "ended" ELSE "endRecord", !.ret = "ended"]]
  <2>1. PICK l \in {"ended", "endRecord"} : l = IF e.id = None THEN "ended" ELSE "endRecord"
    OBVIOUS
  <2> DEFINE q == [e EXCEPT !.pc = l, !.ret = "ended"]
  <2>2. l \in Labels /\ "ended" \in Labels
    BY <2>1 DEF Labels, Final
  <2>3. q \in Request
    BY <1>0, <2>2 DEF Request
  <2>4. Becomes(r, q)
    BY <1>4, <2>1, <2>3 DEF Becomes
  <2>5. e.id \in SignIns \cup {None}
    BY <1>0 DEF Request
  <2>6. Placed(r, q) /\ Informed(r, q, grant')
    BY <1>0, <1>1, <2>1, <2>5, RequestsAssumption
       DEF Placed, Informed, Request, Ends, EndsApps, Sids
  <2> QED BY <1>2, <1>3, <2>4, <2>6, Frame
<1>5. CASE req' = [req EXCEPT ![r].pc = "unavailable"]
  <2>1. Placed(r, [e EXCEPT !.pc = "unavailable"])
    BY <1>0, <1>1, RequestsAssumption DEF Placed, Request, Ends, EndsApps, Sids
  <2> QED BY <1>0, <1>2, <1>3, <1>5, <2>1, FinalMove DEF Final
<1> QED BY <1>4, <1>5 DEF RevokeToken, Unavailable

\* LogoutLoad keeps the shape.
LEMMA LogoutLoadKeeps ==
    ASSUME ShapeInv, NEW r \in Reqs, LogoutLoad(r)
    PROVE  ShapeInv'
<1> DEFINE e == req[r]
<1>0. /\ e \in Request /\ Placed(r, e) /\ Informed(r, e, grant) /\ e.pc = "load"
      /\ r \in Logouts
  BY Shape DEF LogoutLoad
<1>1. StoreTypes' /\ GrantsNamed' /\ GrantsKept /\ grant' = grant
  BY StoreSame DEF LogoutLoad, storeVars
<1>2. Holds(e.ck) => e.ck.id \in SignIns
  BY <1>0 DEF Holds, Request, Cookie
<1>3. "ended" \in Labels /\ "endRecord" \in Labels
  BY DEF Labels, Final
<1>4. CASE Holds(e.ck) /\ req' = [req EXCEPT ![r] =
               [@ EXCEPT !.pc = "endRecord", !.id = e.ck.id, !.ret = "ended", !.set = "clear"]]
  <2> DEFINE q == [e EXCEPT !.pc = "endRecord", !.id = e.ck.id, !.ret = "ended", !.set = "clear"]
  <2>1. q \in Request
    BY <1>0, <1>2, <1>3, <1>4 DEF Request
  <2>2. Becomes(r, q)
    BY <1>4, <2>1 DEF Becomes
  <2>3. Placed(r, q) /\ Informed(r, q, grant')
    BY <1>0, <1>1, <1>2, <1>4, RequestsAssumption
       DEF Placed, Informed, Request, Ends, EndsApps, Sids
  <2> QED BY <1>1, <2>2, <2>3, Frame
<1>5. CASE req' = [req EXCEPT ![r] = [@ EXCEPT !.pc = "ended", !.set = "clear"]]
  <2> DEFINE q == [e EXCEPT !.pc = "ended", !.set = "clear"]
  <2>1. q \in Request
    BY <1>0, <1>3 DEF Request
  <2>2. Becomes(r, q)
    BY <1>5, <2>1 DEF Becomes
  <2>3. Placed(r, q) /\ Informed(r, q, grant')
    BY <1>0, <1>1, RequestsAssumption
       DEF Placed, Informed, Request, Ends, EndsApps, Sids
  <2> QED BY <1>1, <2>2, <2>3, Frame
<1>6. CASE req' = [req EXCEPT ![r].pc = "ended"]
  <2>1. Placed(r, [e EXCEPT !.pc = "ended"])
    BY <1>0, RequestsAssumption DEF Placed, Request, Ends, EndsApps, Sids
  <2> QED BY <1>0, <1>1, <1>6, <2>1, FinalMove DEF Final
<1> QED BY <1>4, <1>5, <1>6 DEF LogoutLoad

\* Only a sign-in gives a cookie, which then names what it made.
LEMMA DeliverKeeps ==
    ASSUME ShapeInv, NEW r \in Reqs, Deliver(r)
    PROVE  ShapeInv'
<1> DEFINE e == req[r]
           q == [e EXCEPT !.set = "keep"]
<1>0. e \in Request /\ Placed(r, e) /\ Informed(r, e, grant) /\ e.set # "keep"
  BY Shape DEF Deliver
<1>1. cookie' \in [Browsers -> Cookie]
  <2>1. NoCookie \in Cookie
    BY DEF NoCookie, Cookie
  <2>2. e.set = "give" => [id |-> e.id, sec |-> r] \in Cookie
    BY <1>0 DEF Informed, Request, Cookie
  <2>3. e.set \in {"clear", "give"}
    BY <1>0 DEF Request
  <2>4. PICK n \in Cookie : cookie' = [cookie EXCEPT ![e.b] = n] \/ cookie' = cookie
    BY <2>1, <2>2, <2>3 DEF Deliver
  <2> QED BY <2>4 DEF ShapeInv, TypeOK
<1>2. StoreTypes' /\ GrantsNamed' /\ GrantsKept /\ grant' = grant
  BY <1>1 DEF Deliver, storeVars, ShapeInv, TypeOK, StoreTypes, GrantsNamed, GrantsKept
<1>3. q \in Request
  BY <1>0 DEF Request
<1>4. Becomes(r, q)
  BY <1>3 DEF Becomes, Deliver
<1>5. Placed(r, q) /\ Informed(r, q, grant')
  BY <1>0, <1>2 DEF Placed, Informed, Request
<1> QED BY <1>2, <1>4, <1>5, Frame

\* The clock is not part of the shape.
LEMMA TickKeeps == ShapeInv /\ Tick => ShapeInv'
BY DEF Tick, storeVars, ShapeInv, TypeOK, GrantsNamed, Placed, Informed

\* Nothing has been stored and no request has begun.
LEMMA ShapeInit == Init => ShapeInv
<1> SUFFICES ASSUME Init PROVE ShapeInv
  OBVIOUS
<1>1. Blank \in Request
  BY DEF Blank, Request, Labels, Cookie, NoCookie
<1>2. TypeOK
  BY <1>1 DEF Init, TypeOK, Shared, Session, Grant, Cookie, NoCookie, Status
<1>3. GrantsNamed
  BY DEF Init, GrantsNamed
<1>4. \A r \in Reqs : Placed(r, req[r]) /\ Informed(r, req[r], grant)
  BY DEF Init, Blank, Placed, Informed, Ends, EndsApps
<1> QED BY <1>2, <1>3, <1>4 DEF ShapeInv

\* The shape is inductive.
LEMMA ShapeStep == ShapeInv /\ [Next]_vars => ShapeInv'
<1> SUFFICES ASSUME ShapeInv, [Next]_vars PROVE ShapeInv'
  OBVIOUS
<1>1. CASE UNCHANGED vars
  BY <1>1 DEF vars, ShapeInv, TypeOK, GrantsNamed, Placed, Informed
<1>2. ASSUME NEW r \in Reqs, Step(r) PROVE ShapeInv'
  BY <1>2, JoinLoadKeeps, JoinReplaceKeeps, JoinCreateKeeps, AnswerLoadKeeps,
     CreateSessionKeeps, AddSharedAppKeeps, SharedLiveKeeps, SaveAppCodeKeeps, EndRecordKeeps,
     TakeAppsKeeps, EndLoadKeeps, EndGrantKeeps, EndDelKeeps, ConsumeAppCodeKeeps,
     ExchangeLoadKeeps, SaveRefreshKeeps, ReplaceSessionKeeps, RefreshGrantKeeps,
     RefreshIssueKeeps, RevokeGrantKeeps, RevokeLoadKeeps, RevokeSessionKeeps,
     RevokeTokenKeeps, LogoutLoadKeeps DEF Step
<1> QED BY <1>1, <1>2, ArriveKeeps, DeliverKeeps, TickKeeps DEF Next

\* Every value the store and the requests ever hold is of its type: no step reads
\* a session, a grant or a list that its request has not been given.
THEOREM TypeCorrect == Spec => []TypeOK
<1>1. Spec => []ShapeInv
  BY ShapeInit, ShapeStep, PTL DEF Spec
<1>2. ShapeInv => TypeOK
  BY DEF ShapeInv
<1> QED BY <1>1, <1>2, PTL

=============================================================================
