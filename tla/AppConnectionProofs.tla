------------------------- MODULE AppConnectionProofs --------------------------
(* Proofs about AppConnection, for any number of sessions and of requests   *)
(* of each sort: its types, that a connection never forks into two chains   *)
(* of tokens, that it implements TokenChain, that what ended stays ended    *)
(* and what was said ended is, that a live connection is listed and can go  *)
(* on being refreshed.                                                      *)
EXTENDS AppConnection, FiniteSetTheorems, TLAPS

-----------------------------------------------------------------------------
(* The shape: where each sort of request may be, and what it has read by    *)
(* then.  The types are not inductive without it.                           *)

\* The steps of endConnection.
Ends == {"endSess", "endKey", "endToken", "unindex"}

\* A session that a sign-in made, and a grant that a request drew.
Made(s) == s \in Sessions /\ sess[s].st # "none"
Drawn(k) == k \in Keys /\ grant[k].st # "none"

\* A grant that is named with a session was drawn for it.
Names(k, s) == k # None => Drawn(k) /\ grant[k].s = s

ChoiceOK(r) ==
    LET q == req[r] IN
    /\ r \in Choices
    /\ q.pc \in {"idle", "ticket", "chooseSess", "chooseSave", "chooseCode", "coded",
                 "refused", "unavailable"}
    /\ q.pc # "idle" => Made(q.s)

ConnectOK(r) ==
    LET q == req[r] IN
    /\ r \in Connects
    /\ q.pc \in {"idle", "consume", "load", "register", "saveNext", "bind", "addIndex",
                 "issued", "refused", "unavailable"} \cup Ends
    /\ q.pc # "idle" => Made(q.s)
    /\ q.pc = "idle" => q.key = None
    /\ q.pc \in Ends => q.ret = "refused"
    /\ q.pc # "endToken" /\ (q.pc = "endKey" => q.key # None)
    /\ q.k = None /\ q.todo = {} /\ Names(q.key, q.s)
    /\ q.pc \in {"idle", "consume", "load", "register", "saveNext"} => ~Drawn(r)
    /\ q.pc \in {"bind", "addIndex", "issued"} => Drawn(r) /\ grant[r].s = q.s

RefreshOK(r) ==
    LET q == req[r] IN
    /\ r \in Refreshes
    /\ q.pc \in {"idle", "grant", "loadGranted", "dropGrant", "register", "take", "saveNext",
                 "markUsed", "bind", "issued", "refused", "reused", "unavailable"} \cup Ends
    /\ q.pc # "idle" => Drawn(q.k) /\ q.k # r
    /\ q.pc \in {"idle", "grant"} => q.s = None /\ q.key = None
    /\ q.s # None => Made(q.s) /\ grant[q.k].s = q.s
    /\ q.pc \in {"loadGranted", "dropGrant", "register", "take", "saveNext", "markUsed", "bind",
                 "issued", "reused"} \cup Ends => q.s # None
    /\ q.pc = "dropGrant" => q.ret = "refused"
    /\ q.pc \in Ends => q.ret \in {"refused", "reused"}
    /\ q.pc = "endKey" => q.key # None
    /\ q.todo = {} /\ Names(q.key, q.s)
    /\ q.pc \in {"idle", "grant", "loadGranted", "dropGrant", "register", "take", "saveNext"}
           => ~Drawn(r)
    /\ q.pc \in {"markUsed", "bind", "issued"} => Drawn(r) /\ grant[r].s = q.s

RevokeOK(r) ==
    LET q == req[r] IN
    /\ r \in Revokes
    /\ q.pc \in {"idle", "grant", "loadGranted", "dropGrant", "ended", "refused",
                 "unavailable"} \cup Ends
    /\ q.pc # "idle" => Drawn(q.k)
    /\ q.pc \in {"idle", "grant"} => q.s = None /\ q.key = None
    /\ q.s # None => Made(q.s) /\ grant[q.k].s = q.s
    /\ q.pc \in {"loadGranted", "dropGrant"} \cup Ends => q.s # None
    /\ q.pc \in {"dropGrant"} \cup Ends => q.ret = "ended"
    /\ q.pc = "endKey" => q.key # None
    /\ q.todo = {} /\ Names(q.key, q.s)

UseOK(r) ==
    LET q == req[r] IN
    /\ r \in Uses
    /\ q.pc \in {"idle", "find", "findSess", "dropIndex", "touch", "issued", "refused",
                 "unavailable"}
    /\ q.pc # "idle" => Made(q.s)
    /\ q.pc = "idle" => q.key = None
    /\ q.todo = {} /\ Names(q.key, q.s)

SignOutOK(r) ==
    LET q == req[r] IN
    /\ r \in SignOuts
    /\ q.pc \in {"idle", "find", "findSess", "dropIndex", "ended", "missing",
                 "unavailable"} \cup Ends
    /\ q.pc # "idle" => Made(q.s) /\ q.ret = "ended"
    /\ q.pc = "idle" => q.key = None
    /\ q.pc # "endToken" /\ (q.pc = "endKey" => q.key # None)
    /\ q.k = None /\ q.todo = {} /\ Names(q.key, q.s)

EndAllOK(r) ==
    LET q == req[r] IN
    /\ r \in EndAlls
    /\ q.pc \in {"idle", "find", "findSess", "dropIndex", "ended", "unavailable"} \cup Ends
    /\ q.pc \in {"findSess", "dropIndex"} \cup Ends => Made(q.s)
    /\ q.pc \notin {"idle", "unavailable"} => q.ret = "ended"
    /\ q.pc # "endToken" /\ (q.pc = "endKey" => q.key # None)
    /\ q.pc \in Ends => Names(q.key, q.s)
    /\ q.k = None /\ \A s \in q.todo \cup q.seen : Made(s)

ListOK(r) ==
    LET q == req[r] IN
    /\ r \in Lists
    /\ q.pc \in {"idle", "findSess", "dropIndex", "ended", "unavailable"}
    /\ q.pc = "dropIndex" => Made(q.s)
    /\ q.pc \notin {"idle", "unavailable"} => q.ret = "ended"
    /\ \A s \in q.todo \cup q.seen : Made(s)

ReqOK(r) ==
    \/ ChoiceOK(r) \/ ConnectOK(r) \/ RefreshOK(r) \/ RevokeOK(r)
    \/ UseOK(r) \/ SignOutOK(r) \/ EndAllOK(r) \/ ListOK(r)

\* Only what a sign-in made is in the store; keys and grants name each other.
StoreOK ==
    /\ \A s \in Sessions :
          /\ ticket[s] # "none" \/ code[s] # "none" \/ sess[s].named \/ s \in index => Made(s)
          /\ Names(sess[s].key, s)
    /\ \A k \in Keys : Drawn(k) => Made(grant[k].s)

\* The inductive invariant of type correctness.
Shape ==
    /\ TypeOK
    /\ StoreOK
    /\ \A r \in Reqs : ReqOK(r)

-----------------------------------------------------------------------------
(* The frame of a step: it is enough to look at the request that moves.     *)

StoreTypes ==
    /\ sess \in [Sessions -> Session]
    /\ ticket \in [Sessions -> {"none", "saved", "spent"}]
    /\ code \in [Sessions -> {"none", "saved", "spent"}]
    /\ grant \in [Keys -> Grant]
    /\ index \in SUBSET Sessions
    /\ owned \in BOOLEAN
    /\ outages \in Nat

\* What was made or drawn stays so, and only r draws a grant, its own.
Grows(r) ==
    /\ \A s : Made(s) => Made(s)'
    /\ \A k \in Keys : Drawn(k) => Drawn(k)' /\ grant'[k].s = grant[k].s
    /\ \A k \in Keys \ {r} : Drawn(k)' => Drawn(k)

\* Request r goes on as q, and no other moves.
Becomes(r, q) ==
    /\ req' \in [Reqs -> Request]
    /\ req'[r] = q
    /\ \A x \in Reqs \ {r} : req'[x] = req[x]

LEMMA Moves ==
    ASSUME Shape, NEW r \in Reqs, NEW q \in Request, req' = [req EXCEPT ![r] = q]
    PROVE  Becomes(r, q)
BY DEF Shape, TypeOK, Becomes

LEMMA Goes ==
    ASSUME Shape, NEW r \in Reqs, NEW l \in Labels, Go(r, l)
    PROVE  Becomes(r, [req[r] EXCEPT !.pc = l])
<1>1. req[r] \in Request /\ req \in [Reqs -> Request]
  BY DEF Shape, TypeOK
<1>2. [req[r] EXCEPT !.pc = l] \in Request
  BY <1>1 DEF Request
<1>3. req' = [req EXCEPT ![r] = [req[r] EXCEPT !.pc = l]]
  BY <1>1 DEF Go
<1> QED BY <1>2, <1>3, Moves

LEMMA Frame ==
    ASSUME Shape, NEW r \in Reqs, NEW q, Becomes(r, q), ReqOK(r)', StoreTypes', StoreOK', Grows(r)
    PROVE  Shape'
<1>1. TypeOK'
  BY DEF TypeOK, StoreTypes, Becomes
<1>2. ASSUME NEW x \in Reqs, x # r PROVE ReqOK(x)'
  <2>1. req'[x] = req[x] /\ ReqOK(x)
    BY <1>2 DEF Shape, Becomes
  <2>2. \A k \in Keys : Drawn(k) => Drawn(k)' /\ grant'[k].s = grant[k].s
    BY DEF Grows
  <2>3. \A k, s : Names(k, s) => Names(k, s)'
    BY <2>2 DEF Names, Drawn
  <2>4. \A s : Made(s) => Made(s)'
    BY DEF Grows
  <2>5. x \in Keys => (~Drawn(x) => ~Drawn(x)')
    BY <1>2 DEF Grows
  <2>6. \A k : Drawn(k) => k \in Keys
    BY DEF Drawn
  <2>7. CASE ChoiceOK(x)
    BY <2>1, <2>4, <2>7 DEF ChoiceOK, ReqOK
  <2>8. CASE ConnectOK(x)
    <3>1. x \in Keys
      BY <2>8 DEF ConnectOK, Keys
    <3> QED BY <2>1, <2>2, <2>3, <2>4, <2>5, <2>8, <3>1 DEF ConnectOK, ReqOK
  <2>9. CASE RefreshOK(x)
    <3>1. x \in Keys
      BY <2>9 DEF RefreshOK, Keys
    <3>2. req[x].s # None => req[x].pc # "idle" /\ Drawn(req[x].k)
      BY <2>9 DEF RefreshOK
    <3> QED BY <2>1, <2>2, <2>3, <2>4, <2>5, <2>6, <2>9, <3>1, <3>2 DEF RefreshOK, ReqOK
  <2>10. CASE RevokeOK(x)
    <3>2. req[x].s # None => req[x].pc # "idle" /\ Drawn(req[x].k)
      BY <2>10 DEF RevokeOK
    <3> QED BY <2>1, <2>2, <2>3, <2>4, <2>6, <2>10, <3>2 DEF RevokeOK, ReqOK
  <2>11. CASE UseOK(x)
    BY <2>1, <2>3, <2>4, <2>11 DEF UseOK, ReqOK
  <2>12. CASE SignOutOK(x)
    BY <2>1, <2>3, <2>4, <2>12 DEF SignOutOK, ReqOK
  <2>13. CASE EndAllOK(x)
    BY <2>1, <2>3, <2>4, <2>13 DEF EndAllOK, ReqOK
  <2>14. CASE ListOK(x)
    BY <2>1, <2>4, <2>14 DEF ListOK, ReqOK
  <2> QED BY <2>1, <2>7, <2>8, <2>9, <2>10, <2>11, <2>12, <2>13, <2>14 DEF ReqOK
<1>3. \A x \in Reqs : ReqOK(x)'
  BY <1>2
<1> QED BY <1>1, <1>3 DEF Shape

\* A step that leaves the store as it is, or whose store call fails.
LEMMA StoreSame ==
    ASSUME Shape, UNCHANGED <<storeVars, owned>>, UNCHANGED outages \/ Fails, NEW r
    PROVE  StoreTypes' /\ StoreOK' /\ Grows(r)
<1>1. outages' \in Nat
  BY DEF Shape, TypeOK, Fails
<1>2. UNCHANGED <<sess, ticket, code, grant, index>>
  BY DEF storeVars
<1>3. Grows(r)
  BY <1>2 DEF Grows, Made, Drawn
<1> QED BY <1>1, <1>2, <1>3
       DEF Shape, TypeOK, StoreTypes, StoreOK, Made, Drawn, Names

\* What the shape says of the request that moves.
LEMMA Shaped ==
    ASSUME Shape, NEW r \in Reqs
    PROVE  req[r] \in Request /\ req \in [Reqs -> Request] /\ ReqOK(r)
BY DEF Shape, TypeOK

-----------------------------------------------------------------------------
(* Every step keeps the shape.                                              *)

LEMMA AskAssistantKeeps ==
    ASSUME Shape, NEW t \in Sessions, AskAssistant(t) \/ Expire(t)
    PROVE  Shape'
<1>1. /\ UNCHANGED <<code, grant, index, owned, req, outages>>
      /\ sess' \in [Sessions -> Session]
      /\ \A s \in Sessions : /\ sess'[s].key = sess[s].key /\ sess'[s].named = sess[s].named
                             /\ sess[s].st # "none" => sess'[s].st # "none"
      /\ sess'[t].st # "none"
  BY DEF AskAssistant, Expire, Shape, TypeOK, Session, Status
<1>2. /\ ticket' \in [Sessions -> {"none", "saved", "spent"}]
      /\ \A s \in Sessions \ {t} : ticket'[s] = ticket[s]
  BY DEF AskAssistant, Expire, Shape, TypeOK
<1>3. \A s : Made(s) => Made(s)'
  BY <1>1 DEF Made
<1>4. \A k : Drawn(k)' <=> Drawn(k)
  BY <1>1 DEF Drawn
<1>5. StoreOK'
  BY <1>1, <1>2, <1>3, <1>4 DEF Shape, StoreOK, Made, Names
<1>6. TypeOK'
  BY <1>1, <1>2 DEF Shape, TypeOK
<1>7. ASSUME NEW r \in Reqs PROVE ReqOK(r)'
  BY <1>1, <1>3, <1>4 DEF Shape, ReqOK, ChoiceOK, ConnectOK, RefreshOK, RevokeOK, UseOK,
     SignOutOK, EndAllOK, ListOK, Names
<1> QED BY <1>5, <1>6, <1>7 DEF Shape

\* Which sort a request is of says what the shape says of it.
LEMMA Sorts ==
    ASSUME Shape, NEW r \in Reqs
    PROVE  /\ r \in Choices => ChoiceOK(r)
           /\ r \in Connects => ConnectOK(r)
           /\ r \in Refreshes => RefreshOK(r)
           /\ r \in Revokes => RevokeOK(r)
           /\ r \in Uses => UseOK(r)
           /\ r \in SignOuts => SignOutOK(r)
           /\ r \in EndAlls => EndAllOK(r)
           /\ r \in Lists => ListOK(r)
<1>1. ReqOK(r)
  BY Shaped
<1>2. /\ ChoiceOK(r) => r \in Choices
      /\ ConnectOK(r) => r \in Connects
      /\ RefreshOK(r) => r \in Refreshes
      /\ RevokeOK(r) => r \in Revokes
      /\ UseOK(r) => r \in Uses
      /\ SignOutOK(r) => r \in SignOuts
      /\ EndAllOK(r) => r \in EndAlls
      /\ ListOK(r) => r \in Lists
  BY DEF ChoiceOK, ConnectOK, RefreshOK, RevokeOK, UseOK, SignOutOK, EndAllOK, ListOK
<1> QED BY <1>1, <1>2, RequestsAssumption DEF ReqOK, Keys, Sweeps

\* A token that was answered was drawn, for a session that was made.
LEMMA IssuedDrawn ==
    ASSUME Shape, NEW k \in Keys, req[k].pc = "issued"
    PROVE  Drawn(k) /\ Made(req[k].s) /\ grant[k].s = req[k].s
<1>1. k \in Reqs
  BY DEF Reqs
<1>2. CASE k \in Connects
  BY <1>1, <1>2, Sorts DEF ConnectOK
<1>3. CASE k \in Refreshes
  <2>1. RefreshOK(k) /\ req[k].s # None
    BY <1>1, <1>3, Sorts DEF RefreshOK
  <2> QED BY <2>1 DEF RefreshOK
<1> QED BY <1>2, <1>3 DEF Keys

\* The handlers begin.
LEMMA ArriveKeeps ==
    ASSUME Shape, NEW r \in Reqs, Arrive(r)
    PROVE  Shape'
<1>0. req[r] \in Request /\ req \in [Reqs -> Request] /\ ReqOK(r)
  BY Shaped
<1>1. CASE r \in Choices /\ \E s \in Sessions, good \in BOOLEAN : ChoicePosted(r, s, good)
  <2>1. PICK s \in Sessions, good \in BOOLEAN : ChoicePosted(r, s, good)
    BY <1>1
  <2> DEFINE q == [req[r] EXCEPT !.pc = "ticket", !.s = s, !.good = good]
  <2>2. q \in Request
    BY <1>0 DEF Request, Labels
  <2>3. Becomes(r, q)
    BY <2>1, <2>2, Moves DEF ChoicePosted
  <2>4. UNCHANGED <<storeVars, owned, outages>> /\ ticket[s] # "none"
    BY <2>1 DEF ChoicePosted
  <2>5. StoreTypes' /\ StoreOK' /\ Grows(r)
    BY <2>4, StoreSame
  <2>6. Made(s)'
    BY <2>4, <2>5 DEF Shape, StoreOK, Grows
  <2>7. ChoiceOK(r)'
    BY <1>0, <1>1, <2>3, <2>6 DEF ChoiceOK, Becomes, Request
  <2> QED BY <2>3, <2>5, <2>7, Frame DEF ReqOK
<1>2. CASE r \in Connects /\ \E s \in Sessions, good \in BOOLEAN : CodePresented(r, s, good)
  <2>1. PICK s \in Sessions, good \in BOOLEAN : CodePresented(r, s, good)
    BY <1>2
  <2> DEFINE q == [req[r] EXCEPT !.pc = "consume", !.s = s, !.good = good]
  <2>2. q \in Request
    BY <1>0 DEF Request, Labels
  <2>3. Becomes(r, q)
    BY <2>1, <2>2, Moves DEF CodePresented
  <2>4. UNCHANGED <<storeVars, owned, outages>> /\ code[s] # "none" /\ req[r].pc = "idle"
    BY <2>1 DEF CodePresented
  <2>5. StoreTypes' /\ StoreOK' /\ Grows(r)
    BY <2>4, StoreSame
  <2>6. Made(s)' /\ grant' = grant
    BY <2>4, <2>5 DEF Shape, StoreOK, Grows, storeVars
  <2>7. ConnectOK(r) /\ req[r].key = None
    BY <1>2, <2>4, Sorts DEF ConnectOK
  <2>8. ConnectOK(r)'
    BY <1>0, <2>3, <2>4, <2>6, <2>7 DEF ConnectOK, Becomes, Request, Ends, Names, Drawn
  <2> QED BY <2>3, <2>5, <2>8, Frame DEF ReqOK
<1>3. CASE /\ r \in Refreshes \cup Revokes
           /\ \E k \in Keys, good \in BOOLEAN : TokenPresented(r, k, good)
  <2>1. PICK k \in Keys, good \in BOOLEAN : TokenPresented(r, k, good)
    BY <1>3
  <2> DEFINE q == [req[r] EXCEPT !.pc = "grant", !.k = k, !.good = good]
  <2>2. q \in Request
    BY <1>0 DEF Request, Labels
  <2>3. Becomes(r, q)
    BY <2>1, <2>2, Moves DEF TokenPresented
  <2>4. /\ UNCHANGED <<storeVars, owned, outages>> /\ req[r].pc = "idle" /\ k # r
        /\ Drawn(k)
    BY <2>1, IssuedDrawn DEF TokenPresented
  <2>5. StoreTypes' /\ StoreOK' /\ Grows(r)
    BY <2>4, StoreSame
  <2>6. Drawn(k)' /\ grant' = grant
    BY <2>4, <2>5 DEF Grows, storeVars
  <2>7. CASE r \in Refreshes
    <3>1. RefreshOK(r)
      BY <2>7, Sorts
    <3>2. RefreshOK(r)'
      BY <1>0, <2>3, <2>4, <2>6, <3>1 DEF RefreshOK, Becomes, Request, Ends, Names, Drawn
    <3> QED BY <2>3, <2>5, <3>2, Frame DEF ReqOK
  <2>8. CASE r \in Revokes
    <3>1. RevokeOK(r)
      BY <2>8, Sorts
    <3>2. RevokeOK(r)'
      BY <1>0, <2>3, <2>4, <2>6, <3>1 DEF RevokeOK, Becomes, Request, Ends, Names, Drawn
    <3> QED BY <2>3, <2>5, <3>2, Frame DEF ReqOK
  <2> QED BY <1>3, <2>7, <2>8
<1>4. CASE /\ r \in SignOuts
           /\ \E s \in Sessions, administrator \in BOOLEAN : SignOutAsked(r, s, administrator)
  <2>1. PICK s \in Sessions, next \in {"find", "missing", "unavailable"} :
            /\ sess[s].named /\ UNCHANGED <<storeVars, owned, outages>> /\ req[r].pc = "idle"
            /\ req' = [req EXCEPT ![r] = [@ EXCEPT !.pc = next, !.s = s, !.ret = "ended"]]
    BY <1>4 DEF SignOutAsked
  <2> DEFINE q == [req[r] EXCEPT !.pc = next, !.s = s, !.ret = "ended"]
  <2>2. q \in Request
    BY <1>0 DEF Request, Labels, Final
  <2>3. Becomes(r, q)
    BY <2>1, <2>2, Moves
  <2>5. StoreTypes' /\ StoreOK' /\ Grows(r)
    BY <2>1, StoreSame
  <2>6. Made(s)' /\ grant' = grant
    BY <2>1, <2>5 DEF Shape, StoreOK, Grows, storeVars
  <2>7. SignOutOK(r) /\ req[r].key = None
    BY <1>4, <2>1, Sorts DEF SignOutOK
  <2>8. SignOutOK(r)'
    BY <1>0, <2>1, <2>3, <2>6, <2>7 DEF SignOutOK, Becomes, Request, Ends, Names, Drawn
  <2> QED BY <2>3, <2>5, <2>8, Frame DEF ReqOK

<1>5. CASE r \in Uses /\ \E k \in Keys : TokenUsed(r, k)
  <2>0. PICK k \in Keys : TokenUsed(r, k)
    BY <1>5
  <2>1. Made(req[k].s) /\ UNCHANGED <<storeVars, owned, outages>> /\ req[r].pc = "idle"
    BY <2>0, IssuedDrawn DEF TokenUsed
  <2> DEFINE q == [req[r] EXCEPT !.pc = "find", !.s = req[k].s]
  <2>2. PICK s \in Sessions : s = req[k].s
    BY <2>1 DEF Made
  <2>3. q \in Request
    BY <1>0, <2>2 DEF Request, Labels
  <2>4. Becomes(r, q)
    BY <2>0, <2>3, Moves DEF TokenUsed
  <2>5. StoreTypes' /\ StoreOK' /\ Grows(r)
    BY <2>1, StoreSame
  <2>6. Made(s)' /\ grant' = grant
    BY <2>1, <2>2, <2>5 DEF Grows, storeVars
  <2>7. UseOK(r) /\ req[r].key = None
    BY <1>5, <2>1, Sorts DEF UseOK
  <2>8. UseOK(r)'
    BY <1>0, <2>2, <2>4, <2>6, <2>7 DEF UseOK, Becomes, Request, Names, Drawn
  <2> QED BY <2>4, <2>5, <2>8, Frame DEF ReqOK
<1>6. CASE Snapshot(r)
  <2>1. r \in Sweeps /\ req[r].pc = "idle" /\ UNCHANGED <<storeVars, owned>>
        /\ (UNCHANGED outages \/ Fails)
    BY <1>6 DEF Snapshot, Unavailable
  <2>2. StoreTypes' /\ StoreOK' /\ Grows(r)
    BY <2>1, StoreSame
  <2>3. Listed \in SUBSET Sessions /\ \A s \in Listed : Made(s)'
    BY <2>2 DEF Listed, Shape, TypeOK, StoreOK, Grows
  <2>4. CASE Unavailable(r)
    <3> DEFINE q == [req[r] EXCEPT !.pc = "unavailable"]
    <3>1. Becomes(r, q)
      BY <2>4, Goes DEF Unavailable, Labels, Final
    <3>2. EndAllOK(r)' \/ ListOK(r)'
      <4>1. EndAllOK(r) \/ ListOK(r)
        BY <2>1, Sorts DEF Sweeps
      <4> QED BY <1>0, <2>2, <3>1, <4>1 DEF EndAllOK, ListOK, Becomes, Request, Ends, Grows
    <3> QED BY <2>2, <3>1, <3>2, Frame DEF ReqOK
  <2>5. ASSUME NEW l \in Labels,
               req' = [req EXCEPT ![r] = [@ EXCEPT !.todo = Listed, !.seen = Listed,
                                                   !.ret = "ended", !.pc = l]],
               l = "ended" \/ l = IF r \in Lists THEN "findSess" ELSE "find"
        PROVE  Shape'
    <3> DEFINE q == [req[r] EXCEPT !.todo = Listed, !.seen = Listed, !.ret = "ended", !.pc = l]
    <3>1. q \in Request
      BY <1>0, <2>3, <2>5 DEF Request, Labels, Final
    <3>2. Becomes(r, q)
      BY <2>5, <3>1, Moves
    <3>3. CASE r \in EndAlls
      <4>1. EndAllOK(r) /\ r \notin Lists
        BY <3>3, Sorts, RequestsAssumption
      <4>2. EndAllOK(r)'
        BY <1>0, <2>3, <2>5, <3>2, <4>1 DEF EndAllOK, Becomes, Request, Ends
      <4> QED BY <2>2, <3>2, <4>2, Frame DEF ReqOK
    <3>4. CASE r \in Lists
      <4>1. ListOK(r)
        BY <3>4, Sorts
      <4>2. ListOK(r)'
        BY <1>0, <2>3, <2>5, <3>2, <4>1 DEF ListOK, Becomes, Request
      <4> QED BY <2>2, <3>2, <4>2, Frame DEF ReqOK
    <3> QED BY <2>1, <3>3, <3>4 DEF Sweeps
  <2>6. {"ended", "findSess", "find"} \subseteq Labels
    BY DEF Labels, Final
  <2> QED BY <1>6, <2>4, <2>5, <2>6 DEF Snapshot
<1> QED BY <1>1, <1>2, <1>3, <1>4, <1>5, <1>6 DEF Arrive

\* An answer that ends a request where it failed.
LEMMA AnswerKeeps ==
    ASSUME Shape, NEW r \in Reqs, NEW l \in {"refused", "unavailable"}, Go(r, l),
           req[r].pc # "idle", l = "refused" => r \notin SignOuts \cup Sweeps,
           StoreTypes', StoreOK', Grows(r)
    PROVE  Shape'
<1>1. Becomes(r, [req[r] EXCEPT !.pc = l])
  BY Goes DEF Labels, Final
<1>2. req[r] \in Request /\ ReqOK(r)
  BY Shaped
<1>3. /\ \A k \in Keys : Drawn(k) => Drawn(k)' /\ grant'[k].s = grant[k].s
      /\ \A s : Made(s) => Made(s)'
      /\ \A k, s : Names(k, s) => Names(k, s)'
      /\ \A k : Drawn(k) => k \in Keys
  BY DEF Grows, Names, Drawn
<1>4. CASE ChoiceOK(r)
  BY <1>1, <1>2, <1>3, <1>4, Frame DEF ChoiceOK, ReqOK, Becomes, Request
<1>5. CASE ConnectOK(r)
  <2>1. ConnectOK(r)'
    BY <1>1, <1>2, <1>3, <1>5 DEF ConnectOK, Becomes, Request, Ends
  <2> QED BY <1>1, <2>1, Frame DEF ReqOK
<1>6. CASE RefreshOK(r)
  <2>1. RefreshOK(r)'
    BY <1>1, <1>2, <1>3, <1>6 DEF RefreshOK, Becomes, Request, Ends
  <2> QED BY <1>1, <2>1, Frame DEF ReqOK
<1>7. CASE RevokeOK(r)
  <2>1. RevokeOK(r)'
    BY <1>1, <1>2, <1>3, <1>7 DEF RevokeOK, Becomes, Request, Ends
  <2> QED BY <1>1, <2>1, Frame DEF ReqOK
<1>8. CASE UseOK(r)
  <2>1. UseOK(r)'
    BY <1>1, <1>2, <1>3, <1>8 DEF UseOK, Becomes, Request
  <2> QED BY <1>1, <2>1, Frame DEF ReqOK
<1>9. CASE SignOutOK(r)
  <2>1. SignOutOK(r)'
    BY <1>1, <1>2, <1>3, <1>9 DEF SignOutOK, Becomes, Request, Ends
  <2> QED BY <1>1, <2>1, Frame DEF ReqOK
<1>10. CASE EndAllOK(r)
  <2>1. EndAllOK(r)'
    BY <1>1, <1>2, <1>3, <1>10 DEF EndAllOK, Becomes, Request, Ends, Sweeps
  <2> QED BY <1>1, <2>1, Frame DEF ReqOK
<1>11. CASE ListOK(r)
  <2>1. ListOK(r)'
    BY <1>1, <1>2, <1>3, <1>11 DEF ListOK, Becomes, Request, Sweeps
  <2> QED BY <1>1, <2>1, Frame DEF ReqOK
<1> QED BY <1>2, <1>4, <1>5, <1>6, <1>7, <1>8, <1>9, <1>10, <1>11 DEF ReqOK

\* A choice goes on.
LEMMA ChoiceMove ==
    ASSUME Shape, NEW r \in Reqs, ChoiceOK(r), req[r].pc # "idle",
           NEW l \in {"chooseSess", "chooseSave", "chooseCode", "coded", "refused", "unavailable"},
           Go(r, l), StoreTypes', StoreOK', Grows(r)
    PROVE  Shape'
<1>1. Becomes(r, [req[r] EXCEPT !.pc = l])
  BY Goes DEF Labels, Final
<1>2. ChoiceOK(r)'
  BY <1>1, Shaped DEF ChoiceOK, Becomes, Request, Grows
<1> QED BY <1>1, <1>2, Frame DEF ReqOK

\* The choice of assistant, and the code it ends with.
LEMMA ChoiceStepKeeps ==
    ASSUME Shape, NEW r \in Reqs,
           ConsumeTicket(r) \/ ChooseLoad(r) \/ ChooseSave(r) \/ ChooseCode(r)
    PROVE  Shape'
<1>0. ChoiceOK(r) /\ Made(req[r].s) /\ req[r].pc # "idle"
  BY Shaped DEF ReqOK, ChoiceOK, ConnectOK, RefreshOK, RevokeOK, UseOK, SignOutOK, EndAllOK,
     ListOK, Ends, ConsumeTicket, ChooseLoad, ChooseSave, ChooseCode
<1>1. UNCHANGED outages \/ Fails
  BY DEF ConsumeTicket, ChooseLoad, ChooseSave, ChooseCode, Unavailable
<1>2. outages' \in Nat
  BY <1>1 DEF Shape, TypeOK, Fails
<1>3. UNCHANGED <<grant, index, owned>>
  BY DEF ConsumeTicket, ChooseLoad, ChooseSave, ChooseCode, storeVars
<1>4. /\ ticket' \in [Sessions -> {"none", "saved", "spent"}]
      /\ code' \in [Sessions -> {"none", "saved", "spent"}]
      /\ \A s \in Sessions : ticket'[s] # "none" \/ code'[s] # "none" => Made(s)
  BY <1>0 DEF ConsumeTicket, ChooseLoad, ChooseSave, ChooseCode, storeVars, Shape, TypeOK, StoreOK
<1>5. /\ sess' \in [Sessions -> Session]
      /\ \A s \in Sessions : /\ sess'[s].st = sess[s].st /\ sess'[s].key = sess[s].key
                             /\ sess'[s].named = sess[s].named
  <2>1. CASE UNCHANGED sess
    BY <2>1 DEF Shape, TypeOK
  <2>2. CASE sess' = [sess EXCEPT ![req[r].s].chosen = TRUE]
    BY <2>2, <1>0 DEF Shape, TypeOK, Session
  <2> QED BY <2>1, <2>2 DEF ConsumeTicket, ChooseLoad, ChooseSave, ChooseCode, storeVars
<1>6. Grows(r) /\ \A s : Made(s)' <=> Made(s)
  BY <1>3, <1>5 DEF Grows, Made, Drawn
<1>7. StoreTypes' /\ StoreOK'
  BY <1>2, <1>3, <1>4, <1>5, <1>6 DEF Shape, TypeOK, StoreTypes, StoreOK, Names, Drawn
<1>8. \E l \in {"chooseSess", "chooseSave", "chooseCode", "coded", "refused", "unavailable"} :
         Go(r, l)
  BY DEF ConsumeTicket, ChooseLoad, ChooseSave, ChooseCode, Unavailable
<1> QED BY <1>0, <1>6, <1>7, <1>8, ChoiceMove

\* A grant is drawn, marked or removed.
LEMMA GrantWritten ==
    ASSUME Shape, NEW r, NEW k \in Keys, NEW v \in Grant, v.st # "none", Made(v.s),
           grant' = [grant EXCEPT ![k] = v], Drawn(k) => grant[k].s = v.s, k = r \/ Drawn(k),
           UNCHANGED <<sess, ticket, code, index, owned>>, UNCHANGED outages \/ Fails
    PROVE  StoreTypes' /\ StoreOK' /\ Grows(r)
<1>1. outages' \in Nat /\ grant' \in [Keys -> Grant] /\ grant \in [Keys -> Grant]
  BY DEF Shape, TypeOK, Fails
<1>2. \A x : Made(x)' <=> Made(x)
  BY DEF Made
<1>3. \A x : Drawn(x)' <=> Drawn(x) \/ x = k
  BY <1>1 DEF Drawn
<1>4. \A x \in Keys : Drawn(x) => grant'[x].s = grant[x].s
  BY <1>1
<1>5. Grows(r)
  BY <1>2, <1>3, <1>4 DEF Grows
<1>6. StoreOK'
  BY <1>1, <1>2, <1>3, <1>4 DEF Shape, StoreOK, Names, Drawn
<1> QED BY <1>1, <1>5, <1>6 DEF StoreTypes, Shape, TypeOK

LEMMA GrantRemoved ==
    ASSUME Shape, NEW r, NEW k, Drawn(k), grant' = [grant EXCEPT ![k].st = "gone"],
           UNCHANGED <<sess, ticket, code, index, owned>>, UNCHANGED outages \/ Fails
    PROVE  StoreTypes' /\ StoreOK' /\ Grows(r)
<1> DEFINE v == [grant[k] EXCEPT !.st = "gone"]
<1>1. k \in Keys /\ grant[k] \in Grant
  BY DEF Drawn, Shape, TypeOK
<1>2. v \in Grant /\ v.st # "none" /\ v.s = grant[k].s
  BY <1>1 DEF Grant
<1>3. Made(v.s)
  BY <1>1, <1>2 DEF Shape, StoreOK
<1>4. grant' = [grant EXCEPT ![k] = v]
  BY <1>1 DEF Shape, TypeOK
<1> HIDE DEF v
<1> QED BY <1>1, <1>2, <1>3, <1>4, GrantWritten

\* A session is written or ended.
LEMMA SessionWritten ==
    ASSUME Shape, NEW r, NEW t \in Sessions, Made(t), NEW v \in Session, v.st # "none",
           Names(v.key, t), sess' = [sess EXCEPT ![t] = v],
           UNCHANGED <<ticket, code, grant, index, owned>>, UNCHANGED outages \/ Fails
    PROVE  StoreTypes' /\ StoreOK' /\ Grows(r)
<1>1. outages' \in Nat /\ sess' \in [Sessions -> Session] /\ sess \in [Sessions -> Session]
  BY DEF Shape, TypeOK, Fails
<1>2. \A x : Made(x)' <=> Made(x)
  BY <1>1 DEF Made
<1>3. \A x : (Drawn(x)' <=> Drawn(x)) /\ \A s : Names(x, s) <=> Names(x, s)'
  BY DEF Drawn, Names
<1>4. Grows(r)
  BY <1>2, <1>3 DEF Grows
<1>5. StoreOK'
  BY <1>1, <1>2, <1>3 DEF Shape, StoreOK
<1> QED BY <1>1, <1>4, <1>5 DEF StoreTypes, Shape, TypeOK

\* The index takes in or drops a connection.
LEMMA IndexWritten ==
    ASSUME Shape, NEW r, NEW t, index' = index \ {t} \/ (Made(t) /\ index' = index \cup {t}),
           UNCHANGED <<sess, ticket, code, grant, owned>>, UNCHANGED outages \/ Fails
    PROVE  StoreTypes' /\ StoreOK' /\ Grows(r)
<1>1. outages' \in Nat /\ index' \in SUBSET Sessions
  BY DEF Shape, TypeOK, Fails, Made
<1>2. \A x : Made(x)' <=> Made(x)
  BY DEF Made
<1>3. \A x : (Drawn(x)' <=> Drawn(x)) /\ \A s : Names(x, s) <=> Names(x, s)'
  BY DEF Drawn, Names
<1>4. Grows(r)
  BY <1>2, <1>3 DEF Grows
<1>5. StoreOK'
  BY <1>1, <1>2, <1>3 DEF Shape, StoreOK
<1> QED BY <1>1, <1>4, <1>5 DEF StoreTypes, Shape, TypeOK

\* An exchange goes on.
LEMMA ConnectMove ==
    ASSUME Shape, NEW r \in Reqs, ConnectOK(r), req[r].pc # "idle",
           NEW l \in {"load", "saveNext", "bind", "addIndex", "issued"}, Go(r, l),
           l \in {"load", "saveNext"} => ~Drawn(r)',
           l \in {"bind", "addIndex", "issued"} => Drawn(r)' /\ grant'[r].s = req[r].s,
           StoreTypes', StoreOK', Grows(r)
    PROVE  Shape'
<1>1. Becomes(r, [req[r] EXCEPT !.pc = l])
  BY Goes DEF Labels, Final
<1>2. /\ \A s : Made(s) => Made(s)'
      /\ \A k, s : Names(k, s) => Names(k, s)'
  BY DEF Grows, Names, Drawn
<1>3. ConnectOK(r)'
  BY <1>1, <1>2, Shaped DEF ConnectOK, Becomes, Request, Ends
<1> QED BY <1>1, <1>3, Frame DEF ReqOK

\* A refresh goes on.
LEMMA RefreshMove ==
    ASSUME Shape, NEW r \in Reqs, RefreshOK(r), req[r].s # None,
           NEW l \in {"take", "saveNext", "markUsed", "bind", "issued"}, Go(r, l),
           l \in {"take", "saveNext"} => ~Drawn(r)',
           l \in {"markUsed", "bind", "issued"} => Drawn(r)' /\ grant'[r].s = req[r].s,
           StoreTypes', StoreOK', Grows(r)
    PROVE  Shape'
<1>1. Becomes(r, [req[r] EXCEPT !.pc = l])
  BY Goes DEF Labels, Final
<1>2. /\ \A s : Made(s) => Made(s)'
      /\ \A k, s : Names(k, s) => Names(k, s)'
      /\ \A k : Drawn(k) => Drawn(k)' /\ grant'[k].s = grant[k].s
  BY DEF Grows, Names, Drawn
<1>3. RefreshOK(r)'
  BY <1>1, <1>2, Shaped DEF RefreshOK, Becomes, Request, Ends
<1> QED BY <1>1, <1>3, Frame DEF ReqOK

\* ConsumeAppCode keeps the shape.
LEMMA ConsumeAppCodeKeeps ==
    ASSUME Shape, NEW r \in Reqs, ConsumeAppCode(r)
    PROVE  Shape'
<1>1. ConnectOK(r) /\ req[r].pc = "consume" /\ Made(req[r].s) /\ ~Drawn(r)
  BY Shaped DEF ReqOK, ChoiceOK, ConnectOK, RefreshOK, RevokeOK, UseOK, SignOutOK, EndAllOK,
     ListOK, Ends, ConsumeAppCode
<1>2. /\ UNCHANGED <<sess, ticket, grant, index, owned>>
      /\ UNCHANGED outages \/ Fails
      /\ code' \in [Sessions -> {"none", "saved", "spent"}]
      /\ \A s \in Sessions : code'[s] # "none" => Made(s)
  BY <1>1 DEF ConsumeAppCode, Unavailable, Shape, TypeOK, StoreOK
<1>3. Grows(r) /\ (\A s : Made(s)' <=> Made(s)) /\ ~Drawn(r)'
  BY <1>1, <1>2 DEF Grows, Made, Drawn
<1>4. StoreTypes' /\ StoreOK'
  BY <1>2, <1>3 DEF Shape, TypeOK, Fails, StoreTypes, StoreOK, Names, Drawn
<1>5. r \notin SignOuts \cup Sweeps
  BY <1>1, RequestsAssumption DEF ConnectOK, Keys
<1>6. \E l \in {"load", "refused", "unavailable"} : Go(r, l)
  BY DEF ConsumeAppCode, Unavailable
<1> QED BY <1>1, <1>3, <1>4, <1>5, <1>6, ConnectMove, AnswerKeeps

\* ConnectLoad keeps the shape.
LEMMA ConnectLoadKeeps ==
    ASSUME Shape, NEW r \in Reqs, ConnectLoad(r)
    PROVE  Shape'
<1>1. ConnectOK(r) /\ req[r].pc = "load" /\ Made(req[r].s) /\ req[r] \in Request
  BY Shaped DEF ReqOK, ChoiceOK, ConnectOK, RefreshOK, RevokeOK, UseOK, SignOutOK, EndAllOK,
     ListOK, Ends, ConnectLoad
<1>2. StoreTypes' /\ StoreOK' /\ Grows(r) /\ grant' = grant
  BY StoreSame DEF ConnectLoad, storeVars
<1>3. r \notin SignOuts \cup Sweeps
  BY <1>1, RequestsAssumption DEF ConnectOK, Keys
<1>4. CASE Go(r, "refused")
  BY <1>1, <1>2, <1>3, <1>4, AnswerKeeps
<1>5. CASE req' = [req EXCEPT ![r] = [@ EXCEPT !.pc = "register", !.key = sess[req[r].s].key,
                                               !.named = sess[req[r].s].named]]
  <2> DEFINE q == [req[r] EXCEPT !.pc = "register", !.key = sess[req[r].s].key,
                                 !.named = sess[req[r].s].named]
  <2>1. PICK s \in Sessions : s = req[r].s
    BY <1>1 DEF Made
  <2>2. sess[s] \in Session /\ Names(sess[s].key, s)
    BY DEF Shape, TypeOK, StoreOK
  <2>3. q \in Request
    BY <1>1, <2>1, <2>2 DEF Request, Session, Labels
  <2>4. Becomes(r, q)
    BY <1>5, <2>3, Moves
  <2>5. q.key = sess[s].key /\ q.s = s /\ q.pc = "register" /\ q.k = None /\ q.todo = {}
    BY <1>1, <2>1 DEF Request, ConnectOK
  <2>6. Made(s)'
    BY <1>1, <1>2, <2>1 DEF Grows
  <2>7. ConnectOK(r)'
    BY <1>1, <1>2, <2>2, <2>4, <2>5, <2>6
       DEF ConnectOK, Becomes, Ends, Names, Drawn
  <2> QED BY <1>2, <2>4, <2>7, Frame DEF ReqOK
<1> QED BY <1>4, <1>5 DEF ConnectLoad

\* An exchange and a refresh share the steps that draw the next token.
LEMMA AtSharedStep ==
    ASSUME Shape, NEW r \in Reqs, req[r].pc \in {"register", "saveNext", "bind"}
    PROVE  /\ r \in Keys /\ r \notin SignOuts \cup Sweeps
           /\ r \notin Connects \/ r \notin Refreshes
           /\ \/ r \in Connects /\ ConnectOK(r)
              \/ r \in Refreshes /\ RefreshOK(r)
           /\ req[r].s # None /\ Made(req[r].s) /\ req[r] \in Request
           /\ req[r].pc # "bind" => ~Drawn(r)
           /\ req[r].pc = "bind" => Drawn(r) /\ grant[r].s = req[r].s
<1>1. ConnectOK(r) \/ RefreshOK(r)
  <2>1. ReqOK(r)
    BY Shaped
  <2>2. ~ChoiceOK(r) /\ ~RevokeOK(r) /\ ~UseOK(r) /\ ~SignOutOK(r) /\ ~EndAllOK(r) /\ ~ListOK(r)
    BY DEF ChoiceOK, RevokeOK, UseOK, SignOutOK, EndAllOK, ListOK, Ends
  <2> QED BY <2>1, <2>2 DEF ReqOK
<1>2. CASE ConnectOK(r)
  BY <1>2, Shaped, RequestsAssumption DEF ConnectOK, Keys, Made, Ends
<1>3. CASE RefreshOK(r)
  BY <1>3, Shaped, RequestsAssumption DEF RefreshOK, Keys, Made, Ends
<1> QED BY <1>1, <1>2, <1>3

\* AskRegister keeps the shape.
LEMMA AskRegisterKeeps ==
    ASSUME Shape, NEW r \in Reqs, AskRegister(r)
    PROVE  Shape'
<1>1. /\ ConnectOK(r) \/ (RefreshOK(r) /\ req[r].s # None)
      /\ req[r].pc = "register" /\ ~Drawn(r) /\ req[r] \in Request
  BY AtSharedStep DEF AskRegister
<1>2. /\ StoreTypes' /\ StoreOK' /\ Grows(r)
      /\ UNCHANGED <<sess, ticket, code, grant, index>> /\ ~Drawn(r)'
  BY <1>1, StoreSame DEF AskRegister, storeVars, Drawn
<1>3. /\ ConnectOK(r) <=> r \in Connects
      /\ RefreshOK(r) <=> r \in Refreshes
      /\ r \notin SignOuts \cup Sweeps
      /\ r \notin Connects \/ r \notin Refreshes
  BY <1>1, RequestsAssumption DEF ConnectOK, RefreshOK, Keys
<1>4. CASE Go(r, "unavailable")
  BY <1>1, <1>2, <1>4, AnswerKeeps
<1>5. CASE Go(r, IF r \in Connects THEN "saveNext" ELSE "take")
  BY <1>1, <1>2, <1>3, <1>5, ConnectMove, RefreshMove
<1>6. CASE req' = [req EXCEPT ![r] = [@ EXCEPT !.pc = "endSess", !.ret = "refused"]]
  <2> DEFINE q == [req[r] EXCEPT !.pc = "endSess", !.ret = "refused"]
  <2>1. q \in Request
    BY <1>1 DEF Request, Labels, Final
  <2>2. Becomes(r, q)
    BY <1>6, <2>1, Moves
  <2>3. ConnectOK(r)' \/ RefreshOK(r)'
    BY <1>1, <1>2, <2>2 DEF ConnectOK, RefreshOK, Becomes, Request, Ends, Names, Drawn, Made
  <2> QED BY <1>2, <2>2, <2>3, Frame DEF ReqOK
<1> QED BY <1>4, <1>5, <1>6 DEF AskRegister

\* SaveNext keeps the shape.
LEMMA SaveNextKeeps ==
    ASSUME Shape, NEW r \in Reqs, SaveNext(r)
    PROVE  Shape'
<1>1. /\ ConnectOK(r) \/ (RefreshOK(r) /\ req[r].s # None)
      /\ req[r].pc = "saveNext" /\ Made(req[r].s) /\ ~Drawn(r) /\ req[r] \in Request
  BY AtSharedStep DEF SaveNext
<1>2. /\ ConnectOK(r) <=> r \in Connects
      /\ RefreshOK(r) <=> r \in Refreshes
      /\ r \notin SignOuts \cup Sweeps
      /\ r \notin Connects \/ r \notin Refreshes
      /\ r \in Keys
  BY <1>1, RequestsAssumption DEF ConnectOK, RefreshOK, Keys
<1>3. CASE /\ Go(r, IF r \in Connects THEN "bind" ELSE "markUsed")
           /\ grant' = [grant EXCEPT ![r] = [st |-> "live", s |-> req[r].s, rotated |-> FALSE]]
           /\ UNCHANGED <<sess, ticket, code, index, owned, outages>>
  <2>1. [st |-> "live", s |-> req[r].s, rotated |-> FALSE] \in Grant
    BY <1>1 DEF Grant, Made
  <2>2. StoreTypes' /\ StoreOK' /\ Grows(r)
    BY <1>1, <1>2, <1>3, <2>1, GrantWritten
  <2>3. Drawn(r)' /\ grant'[r].s = req[r].s
    BY <1>2, <1>3 DEF Drawn, Shape, TypeOK
  <2> QED BY <1>1, <1>2, <1>3, <2>2, <2>3, ConnectMove, RefreshMove
<1>4. CASE UNCHANGED grant /\ ((Go(r, "refused") /\ UNCHANGED outages) \/ Unavailable(r))
  <2>1. StoreTypes' /\ StoreOK' /\ Grows(r)
    BY <1>4, StoreSame DEF SaveNext, Unavailable, storeVars
  <2> QED BY <1>1, <1>2, <1>4, <2>1, AnswerKeeps DEF Unavailable
<1> QED BY <1>3, <1>4 DEF SaveNext

\* Bind keeps the shape.
LEMMA BindKeeps ==
    ASSUME Shape, NEW r \in Reqs, Bind(r)
    PROVE  Shape'
<1>1. /\ ConnectOK(r) \/ (RefreshOK(r) /\ req[r].s # None)
      /\ req[r].pc = "bind" /\ Made(req[r].s) /\ Drawn(r) /\ grant[r].s = req[r].s
      /\ req[r] \in Request
  BY AtSharedStep DEF Bind
<1>2. /\ ConnectOK(r) <=> r \in Connects
      /\ RefreshOK(r) <=> r \in Refreshes
      /\ r \notin SignOuts \cup Sweeps
      /\ r \notin Connects \/ r \notin Refreshes
      /\ r \in Keys
  BY <1>1, RequestsAssumption DEF ConnectOK, RefreshOK, Keys
<1>3. CASE /\ Go(r, IF r \in Connects THEN "addIndex" ELSE "issued")
           /\ sess' = [sess EXCEPT ![req[r].s] = [@ EXCEPT !.key = r, !.named = TRUE]]
           /\ UNCHANGED <<ticket, code, grant, index, owned, outages>>
  <2> DEFINE v == [sess[req[r].s] EXCEPT !.key = r, !.named = TRUE]
  <2>1. sess[req[r].s] \in Session /\ sess[req[r].s].st # "none"
    BY <1>1 DEF Made, Shape, TypeOK
  <2>2. v \in Session /\ v.st # "none" /\ Names(v.key, req[r].s)
    BY <1>1, <1>2, <2>1 DEF Session, Names
  <2>3. sess' = [sess EXCEPT ![req[r].s] = v] /\ req[r].s \in Sessions
    BY <1>1, <1>3 DEF Made
  <2> HIDE DEF v
  <2>4. StoreTypes' /\ StoreOK' /\ Grows(r)
    BY <1>1, <1>3, <2>2, <2>3, SessionWritten
  <2>5. Drawn(r)' /\ grant'[r].s = req[r].s
    BY <1>1, <1>3 DEF Drawn
  <2> QED BY <1>1, <1>2, <1>3, <2>4, <2>5, ConnectMove, RefreshMove
<1>4. CASE UNCHANGED sess /\ ((Go(r, "refused") /\ UNCHANGED outages) \/ Unavailable(r))
  <2>1. StoreTypes' /\ StoreOK' /\ Grows(r)
    BY <1>4, StoreSame DEF Bind, Unavailable, storeVars
  <2> QED BY <1>1, <1>2, <1>4, <2>1, AnswerKeeps DEF Unavailable
<1> QED BY <1>3, <1>4 DEF Bind

\* AddConnection keeps the shape.
LEMMA AddConnectionKeeps ==
    ASSUME Shape, NEW r \in Reqs, AddConnection(r)
    PROVE  Shape'
<1>1. /\ ConnectOK(r) /\ req[r].pc = "addIndex" /\ Made(req[r].s) /\ Drawn(r)
      /\ grant[r].s = req[r].s
  BY Shaped DEF ReqOK, ChoiceOK, ConnectOK, RefreshOK, RevokeOK, UseOK, SignOutOK, EndAllOK,
     ListOK, Ends, AddConnection
<1>2. r \notin SignOuts \cup Sweeps
  BY <1>1, RequestsAssumption DEF ConnectOK, Keys
<1>3. CASE /\ Go(r, "issued")
           /\ index' = index \cup {req[r].s}
           /\ UNCHANGED <<sess, ticket, code, grant, owned, outages>>
  <2>1. StoreTypes' /\ StoreOK' /\ Grows(r)
    BY <1>1, <1>3, IndexWritten
  <2>2. Drawn(r)' /\ grant'[r].s = req[r].s
    BY <1>1, <1>3 DEF Drawn
  <2> QED BY <1>1, <1>3, <2>1, <2>2, ConnectMove
<1>4. CASE UNCHANGED index /\ ((Go(r, "refused") /\ UNCHANGED outages) \/ Unavailable(r))
  <2>1. StoreTypes' /\ StoreOK' /\ Grows(r)
    BY <1>4, StoreSame DEF AddConnection, Unavailable, storeVars
  <2> QED BY <1>1, <1>2, <1>4, <2>1, AnswerKeeps DEF Unavailable
<1> QED BY <1>3, <1>4 DEF AddConnection

\* LoadRefresh keeps the shape.
LEMMA LoadRefreshKeeps ==
    ASSUME Shape, NEW r \in Reqs, LoadRefresh(r)
    PROVE  Shape'
<1>1. RefreshOK(r) /\ req[r].pc = "grant" /\ req[r] \in Request /\ Drawn(req[r].k)
  BY Shaped, Sorts DEF RefreshOK, LoadRefresh
<1>2. StoreTypes' /\ StoreOK' /\ Grows(r) /\ UNCHANGED <<sess, ticket, code, grant, index>>
  BY StoreSame DEF LoadRefresh, Unavailable, storeVars
<1>3. r \notin SignOuts \cup Sweeps
  BY <1>1, RequestsAssumption DEF RefreshOK, Keys
<1>4. CASE Go(r, "refused") \/ Go(r, "unavailable")
  BY <1>1, <1>2, <1>3, <1>4, AnswerKeeps
<1>5. CASE req' = [req EXCEPT ![r] = [@ EXCEPT !.pc = "loadGranted", !.s = grant[req[r].k].s,
                                               !.rotated = grant[req[r].k].rotated]]
  <2> DEFINE q == [req[r] EXCEPT !.pc = "loadGranted", !.s = grant[req[r].k].s,
                                 !.rotated = grant[req[r].k].rotated]
  <2>1. PICK k \in Keys : k = req[r].k
    BY <1>1 DEF Drawn
  <2>2. grant[k] \in Grant /\ Drawn(k) /\ Made(grant[k].s)
    BY <1>1, <2>1 DEF Shape, TypeOK, StoreOK
  <2>3. q \in Request
    BY <1>1, <2>1, <2>2 DEF Request, Grant, Labels
  <2>4. Becomes(r, q)
    BY <1>5, <2>3, Moves
  <2>5. q.k = k /\ q.s = grant[k].s /\ q.pc = "loadGranted" /\ q.todo = {} /\ q.key = req[r].key
    BY <1>1, <2>1 DEF Request, RefreshOK
  <2>6. req[r].key = None
    BY <1>1 DEF RefreshOK
  <2>7. RefreshOK(r)'
    BY <1>1, <1>2, <2>1, <2>2, <2>4, <2>5, <2>6, RequestsAssumption
       DEF RefreshOK, Becomes, Names, Drawn, Made, Ends
  <2> QED BY <1>2, <2>4, <2>7, Frame DEF ReqOK
<1> QED BY <1>4, <1>5 DEF LoadRefresh, Unavailable

\* The fields of a request that read the session it names.
LEMMA ReadsKey ==
    ASSUME Shape, NEW s, Made(s)
    PROVE  sess[s] \in Session /\ Names(sess[s].key, s) /\ sess[s].key \in Keys \cup {None}
BY DEF Shape, TypeOK, StoreOK, Made, Session

\* LoadGranted keeps the shape.
LEMMA LoadGrantedKeeps ==
    ASSUME Shape, NEW r \in Reqs, LoadGranted(r)
    PROVE  Shape'
<1>1. RefreshOK(r) /\ req[r].pc = "loadGranted" /\ req[r] \in Request /\ Made(req[r].s)
  BY Shaped, Sorts DEF RefreshOK, LoadGranted
<1>2. StoreTypes' /\ StoreOK' /\ Grows(r) /\ UNCHANGED <<sess, ticket, code, grant, index>>
  BY StoreSame DEF LoadGranted, Unavailable, storeVars
<1>3. r \notin SignOuts \cup Sweeps
  BY <1>1, RequestsAssumption DEF RefreshOK, Keys
<1>4. CASE Go(r, "unavailable")
  BY <1>1, <1>2, <1>3, <1>4, AnswerKeeps
<1>5. CASE req' = [req EXCEPT ![r] = [@ EXCEPT !.pc = "dropGrant", !.ret = "refused"]]
  <2> DEFINE q == [req[r] EXCEPT !.pc = "dropGrant", !.ret = "refused"]
  <2>1. q \in Request
    BY <1>1 DEF Request, Labels, Final
  <2>2. Becomes(r, q)
    BY <1>5, <2>1, Moves
  <2>3. RefreshOK(r)'
    BY <1>1, <1>2, <2>2 DEF RefreshOK, Becomes, Request, Names, Drawn, Made, Ends
  <2> QED BY <1>2, <2>2, <2>3, Frame DEF ReqOK
<1>6. ASSUME NEW l \in {"endSess", "register"}, NEW d \in Labels,
             l = "endSess" => d = "reused",
             req' = [req EXCEPT ![r] = [@ EXCEPT !.pc = l, !.ret = d, !.key = sess[req[r].s].key,
                                                 !.named = sess[req[r].s].named]]
      PROVE  Shape'
  <2> DEFINE q == [req[r] EXCEPT !.pc = l, !.ret = d, !.key = sess[req[r].s].key,
                                 !.named = sess[req[r].s].named]
  <2>1. PICK s \in Sessions : s = req[r].s
    BY <1>1 DEF Made
  <2>2. sess[s] \in Session /\ Names(sess[s].key, s) /\ sess[s].key \in Keys \cup {None}
    BY <1>1, <2>1, ReadsKey
  <2>3. q \in Request
    BY <1>1, <1>6, <2>1, <2>2 DEF Request, Labels, Final, Session
  <2>4. Becomes(r, q)
    BY <1>6, <2>3, Moves
  <2>5. /\ q.pc = l /\ q.ret = d /\ q.key = sess[s].key /\ q.s = s /\ q.k = req[r].k
        /\ q.todo = req[r].todo
    BY <1>1, <2>1 DEF Request
  <2>6. Made(s)'
    BY <1>1, <1>2, <2>1 DEF Grows
  <2> HIDE DEF q
  <2>7. RefreshOK(r)'
    BY <1>1, <1>2, <1>6, <2>1, <2>2, <2>4, <2>5, <2>6
       DEF RefreshOK, Becomes, Names, Drawn, Ends
  <2> QED BY <1>2, <2>4, <2>7, Frame DEF ReqOK
<1>7. CASE req' = [req EXCEPT ![r] = Ending(req[r], "reused")]
  BY <1>6, <1>7 DEF Ending, Labels, Final
<1>8. CASE req' = [req EXCEPT ![r] = [@ EXCEPT !.pc = "register", !.key = sess[req[r].s].key,
                                               !.named = sess[req[r].s].named]]
  <2>1. [req[r] EXCEPT !.pc = "register", !.key = sess[req[r].s].key,
                       !.named = sess[req[r].s].named]
        = [req[r] EXCEPT !.pc = "register", !.ret = req[r].ret, !.key = sess[req[r].s].key,
                         !.named = sess[req[r].s].named]
    BY <1>1 DEF Request
  <2>2. req[r].ret \in Labels
    BY <1>1 DEF Request
  <2> QED BY <1>6, <1>8, <2>1, <2>2
<1> QED BY <1>4, <1>5, <1>7, <1>8 DEF LoadGranted, Unavailable

\* DropGrant keeps the shape.
LEMMA DropGrantKeeps ==
    ASSUME Shape, NEW r \in Reqs, DropGrant(r)
    PROVE  Shape'
<1>1. RefreshOK(r) \/ RevokeOK(r)
  <2>1. ReqOK(r) /\ req[r].pc = "dropGrant"
    BY Shaped DEF DropGrant
  <2> QED BY <2>1 DEF ReqOK, ChoiceOK, ConnectOK, UseOK, SignOutOK, EndAllOK, ListOK, Ends
<1>2. Drawn(req[r].k) /\ req[r].pc = "dropGrant" /\ req[r] \in Request
  BY <1>1, Shaped DEF RefreshOK, RevokeOK, DropGrant
<1>3. StoreTypes' /\ StoreOK' /\ Grows(r)
  <2>1. CASE grant' = [grant EXCEPT ![req[r].k].st = "gone"] /\ UNCHANGED outages
    BY <1>2, <2>1, GrantRemoved DEF DropGrant
  <2>2. CASE Fails /\ UNCHANGED grant
    BY <2>2, StoreSame DEF DropGrant, storeVars
  <2> QED BY <2>1, <2>2 DEF DropGrant
<1>4. CASE RefreshOK(r)
  <2>1. Go(r, "refused")
    BY <1>2, <1>4 DEF RefreshOK, DropGrant
  <2>2. r \notin SignOuts \cup Sweeps
    BY <1>4, RequestsAssumption DEF RefreshOK, Keys
  <2> QED BY <1>2, <1>3, <2>1, <2>2, AnswerKeeps
<1>5. CASE RevokeOK(r)
  <2>1. Go(r, "ended")
    BY <1>2, <1>5 DEF RevokeOK, DropGrant
  <2>2. Becomes(r, [req[r] EXCEPT !.pc = "ended"])
    BY <2>1, Goes DEF Labels, Final
  <2>3. /\ \A s : Made(s) => Made(s)'
        /\ \A k, s : Names(k, s) => Names(k, s)'
        /\ \A k : Drawn(k) => Drawn(k)' /\ grant'[k].s = grant[k].s
    BY <1>3 DEF Grows, Names, Drawn
  <2>4. RevokeOK(r)'
    BY <1>2, <1>5, <2>2, <2>3 DEF RevokeOK, Becomes, Request, Ends
  <2> QED BY <1>3, <2>2, <2>4, Frame DEF ReqOK
<1> QED BY <1>1, <1>4, <1>5

\* TakeRefresh keeps the shape.
LEMMA TakeRefreshKeeps ==
    ASSUME Shape, NEW r \in Reqs, TakeRefresh(r)
    PROVE  Shape'
<1>1. RefreshOK(r)
  <2>1. ReqOK(r) /\ req[r].pc = "take"
    BY Shaped DEF TakeRefresh
  <2> QED BY <2>1 DEF ReqOK, ChoiceOK, ConnectOK, RevokeOK, UseOK, SignOutOK, EndAllOK, ListOK, Ends
<1>2. /\ req[r].pc = "take" /\ req[r] \in Request /\ Drawn(req[r].k) /\ req[r].k # r
      /\ Made(req[r].s) /\ req[r].s # None /\ ~Drawn(r)
  BY <1>1, Shaped DEF RefreshOK, TakeRefresh
<1>3. r \notin SignOuts \cup Sweeps
  BY <1>1, RequestsAssumption DEF RefreshOK, Keys
<1>4. CASE UNCHANGED grant /\ ((Go(r, "refused") /\ UNCHANGED outages) \/ Unavailable(r))
  <2>1. StoreTypes' /\ StoreOK' /\ Grows(r)
    BY <1>4, StoreSame DEF TakeRefresh, Unavailable, storeVars
  <2> QED BY <1>2, <1>3, <1>4, <2>1, AnswerKeeps DEF Unavailable
<1>5. CASE /\ grant' = [grant EXCEPT ![req[r].k].st = "gone"]
           /\ req' = [req EXCEPT ![r] =
                 IF grant[req[r].k].rotated THEN [@ EXCEPT !.pc = "endSess", !.ret = "reused"]
                 ELSE [@ EXCEPT !.pc = "saveNext"]]
           /\ UNCHANGED outages
  <2>1. StoreTypes' /\ StoreOK' /\ Grows(r)
    BY <1>2, <1>5, GrantRemoved DEF TakeRefresh
  <2>2. ~Drawn(r)'
    BY <1>2, <1>5 DEF Drawn, Shape, TypeOK
  <2>3. /\ \A s : Made(s) => Made(s)'
        /\ \A k, s : Names(k, s) => Names(k, s)'
        /\ \A k : Drawn(k) => Drawn(k)' /\ grant'[k].s = grant[k].s
    BY <2>1 DEF Grows, Names, Drawn
  <2>4. CASE grant[req[r].k].rotated
    <3> DEFINE q == [req[r] EXCEPT !.pc = "endSess", !.ret = "reused"]
    <3>1. q \in Request
      BY <1>2 DEF Request, Labels, Final
    <3>2. Becomes(r, q)
      BY <1>5, <2>4, <3>1, Moves
    <3>3. RefreshOK(r)'
      BY <1>1, <1>2, <2>3, <3>2 DEF RefreshOK, Becomes, Request, Ends
    <3> QED BY <2>1, <3>2, <3>3, Frame DEF ReqOK
  <2>5. CASE ~grant[req[r].k].rotated
    <3>1. Go(r, "saveNext")
      BY <1>2, <1>5, <2>5 DEF Go, Shape, TypeOK
    <3> QED BY <1>1, <1>2, <2>1, <2>2, <3>1, RefreshMove
  <2> QED BY <2>4, <2>5
<1> QED BY <1>4, <1>5 DEF TakeRefresh

\* MarkUsed keeps the shape.
LEMMA MarkUsedKeeps ==
    ASSUME Shape, NEW r \in Reqs, MarkUsed(r)
    PROVE  Shape'
<1>1. RefreshOK(r)
  <2>1. ReqOK(r) /\ req[r].pc = "markUsed"
    BY Shaped DEF MarkUsed
  <2> QED BY <2>1 DEF ReqOK, ChoiceOK, ConnectOK, RevokeOK, UseOK, SignOutOK, EndAllOK, ListOK, Ends
<1>2. /\ req[r].pc = "markUsed" /\ Drawn(req[r].k) /\ Made(req[r].s) /\ req[r].s # None
      /\ grant[req[r].k].s = req[r].s /\ Drawn(r) /\ grant[r].s = req[r].s
  BY <1>1 DEF RefreshOK, MarkUsed
<1>3. r \notin SignOuts \cup Sweeps /\ r \in Keys
  BY <1>1, RequestsAssumption DEF RefreshOK, Keys
<1>4. CASE UNCHANGED grant /\ ((Go(r, "refused") /\ UNCHANGED outages) \/ Unavailable(r))
  <2>1. StoreTypes' /\ StoreOK' /\ Grows(r)
    BY <1>4, StoreSame DEF MarkUsed, Unavailable, storeVars
  <2> QED BY <1>2, <1>3, <1>4, <2>1, AnswerKeeps DEF Unavailable
<1>5. CASE /\ grant' = [grant EXCEPT ![req[r].k] = [st |-> "live", s |-> req[r].s, rotated |-> TRUE]]
           /\ Go(r, "bind")
           /\ UNCHANGED outages
  <2> DEFINE v == [st |-> "live", s |-> req[r].s, rotated |-> TRUE]
  <2>1. v \in Grant /\ v.st # "none" /\ v.s = req[r].s
    BY <1>2 DEF Grant, Made
  <2>2. req[r].k \in Keys /\ grant' = [grant EXCEPT ![req[r].k] = v]
    BY <1>2, <1>5 DEF Drawn
  <2> HIDE DEF v
  <2>3. StoreTypes' /\ StoreOK' /\ Grows(r)
    BY <1>2, <1>5, <2>1, <2>2, GrantWritten DEF MarkUsed
  <2>4. Drawn(r)' /\ grant'[r].s = req[r].s
    BY <1>2, <1>3, <2>3 DEF Grows
  <2> QED BY <1>1, <1>2, <1>5, <2>3, <2>4, RefreshMove
<1> QED BY <1>4, <1>5 DEF MarkUsed

\* RevokeGrant keeps the shape.
LEMMA RevokeGrantKeeps ==
    ASSUME Shape, NEW r \in Reqs, RevokeGrant(r)
    PROVE  Shape'
<1>1. RevokeOK(r) /\ req[r].pc = "grant" /\ req[r] \in Request /\ Drawn(req[r].k)
  BY Shaped, Sorts DEF RevokeOK, RevokeGrant
<1>2. StoreTypes' /\ StoreOK' /\ Grows(r) /\ UNCHANGED <<sess, ticket, code, grant, index>>
  BY StoreSame DEF RevokeGrant, Unavailable, storeVars
<1>3. r \notin SignOuts \cup Sweeps
  BY <1>1, RequestsAssumption DEF RevokeOK
<1>4. CASE Go(r, "refused") \/ Go(r, "unavailable")
  BY <1>1, <1>2, <1>3, <1>4, AnswerKeeps
<1>5. CASE Go(r, "ended")
  <2>1. Becomes(r, [req[r] EXCEPT !.pc = "ended"])
    BY <1>5, Goes DEF Labels, Final
  <2>2. RevokeOK(r)'
    BY <1>1, <1>2, <2>1 DEF RevokeOK, Becomes, Request, Ends, Names, Drawn, Made
  <2> QED BY <1>2, <2>1, <2>2, Frame DEF ReqOK
<1>6. CASE req' = [req EXCEPT ![r] = [@ EXCEPT !.pc = "loadGranted", !.s = grant[req[r].k].s]]
  <2> DEFINE q == [req[r] EXCEPT !.pc = "loadGranted", !.s = grant[req[r].k].s]
  <2>1. PICK k \in Keys : k = req[r].k
    BY <1>1 DEF Drawn
  <2>2. grant[k] \in Grant /\ Drawn(k) /\ Made(grant[k].s)
    BY <1>1, <2>1 DEF Shape, TypeOK, StoreOK
  <2>3. q \in Request
    BY <1>1, <2>1, <2>2 DEF Request, Grant, Labels
  <2>4. Becomes(r, q)
    BY <1>6, <2>3, Moves
  <2>5. q.k = k /\ q.s = grant[k].s /\ q.pc = "loadGranted" /\ q.todo = {} /\ q.key = None
    BY <1>1, <2>1 DEF Request, RevokeOK
  <2>6. RevokeOK(r)'
    BY <1>1, <1>2, <2>2, <2>4, <2>5, RequestsAssumption
       DEF RevokeOK, Becomes, Names, Drawn, Made, Ends
  <2> QED BY <1>2, <2>4, <2>6, Frame DEF ReqOK
<1> QED BY <1>4, <1>5, <1>6 DEF RevokeGrant, Unavailable

\* RevokeLoad keeps the shape.
LEMMA RevokeLoadKeeps ==
    ASSUME Shape, NEW r \in Reqs, RevokeLoad(r)
    PROVE  Shape'
<1>1. RevokeOK(r) /\ req[r].pc = "loadGranted" /\ req[r] \in Request /\ Made(req[r].s)
  BY Shaped, Sorts DEF RevokeOK, RevokeLoad
<1>2. StoreTypes' /\ StoreOK' /\ Grows(r) /\ UNCHANGED <<sess, ticket, code, grant, index>>
  BY StoreSame DEF RevokeLoad, storeVars
<1>3. CASE req' = [req EXCEPT ![r] = [@ EXCEPT !.pc = "dropGrant", !.ret = "ended"]]
  <2> DEFINE q == [req[r] EXCEPT !.pc = "dropGrant", !.ret = "ended"]
  <2>1. q \in Request
    BY <1>1 DEF Request, Labels, Final
  <2>2. Becomes(r, q)
    BY <1>3, <2>1, Moves
  <2>3. RevokeOK(r)'
    BY <1>1, <1>2, <2>2 DEF RevokeOK, Becomes, Request, Names, Drawn, Made, Ends
  <2> QED BY <1>2, <2>2, <2>3, Frame DEF ReqOK
<1>4. CASE req' = [req EXCEPT ![r] = Ending(req[r], "ended")]
  <2> DEFINE q == Ending(req[r], "ended")
  <2>1. PICK s \in Sessions : s = req[r].s
    BY <1>1 DEF Made
  <2>2. sess[s] \in Session /\ Names(sess[s].key, s) /\ sess[s].key \in Keys \cup {None}
    BY <1>1, <2>1, ReadsKey
  <2>3. q \in Request
    BY <1>1, <2>1, <2>2 DEF Request, Labels, Final, Session, Ending
  <2>4. Becomes(r, q)
    BY <1>4, <2>3, Moves
  <2>5. /\ q.pc = "endSess" /\ q.ret = "ended" /\ q.key = sess[s].key /\ q.s = s
        /\ q.k = req[r].k /\ q.todo = req[r].todo
    BY <1>1, <2>1 DEF Request, Ending
  <2> HIDE DEF q
  <2>6. RevokeOK(r)'
    BY <1>1, <1>2, <2>1, <2>2, <2>4, <2>5 DEF RevokeOK, Becomes, Names, Drawn, Ends, Made
  <2> QED BY <1>2, <2>4, <2>6, Frame DEF ReqOK
<1> QED BY <1>3, <1>4 DEF RevokeLoad

\* Of a request in endConnection: what it has still to remove was drawn, and
\* only a sweep has more connections to do.
LEMMA AtEnds ==
    ASSUME Shape, NEW r \in Reqs, req[r].pc \in Ends
    PROVE  /\ req[r] \in Request /\ Made(req[r].s) /\ Names(req[r].key, req[r].s)
           /\ req[r].pc = "endKey" => req[r].key # None
           /\ req[r].pc = "endToken" => req[r].k # None
           /\ \/ ConnectOK(r) \/ RefreshOK(r) \/ RevokeOK(r) \/ SignOutOK(r) \/ EndAllOK(r)
           /\ r \in EndAlls \/ req[r].todo = {}
           /\ req[r].k # None => Drawn(req[r].k) /\ grant[req[r].k].s = req[r].s
           /\ req[r].ret \in {"refused", "reused", "ended"}
<1>1. ReqOK(r) /\ req[r] \in Request
  BY Shaped
<1>2. ~ChoiceOK(r) /\ ~UseOK(r) /\ ~ListOK(r)
  BY DEF ChoiceOK, UseOK, ListOK, Ends
<1>3. req[r].pc \notin {"idle", "unavailable"}
  BY DEF Ends
<1>4. CASE ConnectOK(r)
  BY <1>1, <1>3, <1>4 DEF ConnectOK
<1>5. CASE RefreshOK(r)
  BY <1>1, <1>3, <1>5, RequestsAssumption DEF RefreshOK, Drawn, Reqs
<1>6. CASE RevokeOK(r)
  BY <1>1, <1>3, <1>6, RequestsAssumption DEF RevokeOK, Drawn, Reqs
<1>7. CASE SignOutOK(r)
  BY <1>1, <1>3, <1>7 DEF SignOutOK
<1>8. CASE EndAllOK(r)
  BY <1>1, <1>3, <1>8 DEF EndAllOK
<1> QED BY <1>1, <1>2, <1>4, <1>5, <1>6, <1>7, <1>8 DEF ReqOK

\* endConnection goes on, or the request goes where it was called from.
LEMMA EndMove ==
    ASSUME Shape, NEW r \in Reqs, req[r].pc \in Ends,
           NEW l \in Labels, Go(r, l), l \in Ends \cup {Done(req[r])},
           l = "endKey" => req[r].key # None, l = "endToken" => req[r].k # None,
           StoreTypes', StoreOK', Grows(r)
    PROVE  Shape'
<1>1. Becomes(r, [req[r] EXCEPT !.pc = l])
  BY Goes
<1>2. /\ \A s : Made(s) => Made(s)'
      /\ \A k, s : Names(k, s) => Names(k, s)'
      /\ \A k : Drawn(k) => Drawn(k)' /\ grant'[k].s = grant[k].s
  BY DEF Grows, Names, Drawn
<1>3. req[r] \in Request /\ req[r].pc \notin {"idle", "unavailable", "grant"}
  BY AtEnds DEF Ends
<1>4. l \in Ends \/ (req[r].todo = {} /\ l = req[r].ret) \/ (req[r].todo # {} /\ l = "find")
  BY DEF Done
<1>5. CASE ConnectOK(r)
  <2>1. l \in Ends \cup {"refused"}
    BY <1>4, <1>5 DEF ConnectOK
  <2>2. ConnectOK(r)'
    BY <1>1, <1>2, <1>3, <1>5, <2>1 DEF ConnectOK, Becomes, Request, Ends
  <2> QED BY <1>1, <2>2, Frame DEF ReqOK
<1>6. CASE RefreshOK(r)
  <2>1. l \in Ends \cup {"refused", "reused"}
    BY <1>4, <1>6 DEF RefreshOK
  <2>2. RefreshOK(r)'
    BY <1>1, <1>2, <1>3, <1>6, <2>1 DEF RefreshOK, Becomes, Request, Ends
  <2> QED BY <1>1, <2>2, Frame DEF ReqOK
<1>7. CASE RevokeOK(r)
  <2>1. l \in Ends \cup {"ended"}
    BY <1>4, <1>7 DEF RevokeOK
  <2>2. RevokeOK(r)'
    BY <1>1, <1>2, <1>3, <1>7, <2>1 DEF RevokeOK, Becomes, Request, Ends
  <2> QED BY <1>1, <2>2, Frame DEF ReqOK
<1>8. CASE SignOutOK(r)
  <2>1. l \in Ends \cup {"ended"}
    BY <1>3, <1>4, <1>8 DEF SignOutOK
  <2>2. SignOutOK(r)'
    BY <1>1, <1>2, <1>3, <1>8, <2>1 DEF SignOutOK, Becomes, Request, Ends
  <2> QED BY <1>1, <2>2, Frame DEF ReqOK
<1>9. CASE EndAllOK(r)
  <2>1. l \in Ends \cup {"ended", "find"}
    BY <1>3, <1>4, <1>9 DEF EndAllOK
  <2>2. EndAllOK(r)'
    BY <1>1, <1>2, <1>3, <1>9, <2>1 DEF EndAllOK, Becomes, Request, Ends
  <2> QED BY <1>1, <2>2, Frame DEF ReqOK
<1> QED BY AtEnds, <1>5, <1>6, <1>7, <1>8, <1>9

\* Where endConnection goes next is one of its steps, or where it was called from.
LEMMA AfterSteps ==
    ASSUME NEW q
    PROVE  /\ AfterGrants(q) \in {"unindex", Done(q)}
           /\ AfterKey(q) \in {"endToken", "unindex", Done(q)}
           /\ AfterSession(q) \in {"endKey", "endToken", "unindex", Done(q)}
           /\ AfterKey(q) = "endToken" => q.k # None \/ Done(q) = "endToken"
           /\ AfterSession(q) = "endKey" => q.key # None \/ Done(q) = "endKey"
           /\ AfterSession(q) = "endToken" => q.k # None \/ Done(q) = "endToken"
BY DEF AfterGrants, AfterKey, AfterSession

\* EndSession, EndGrant and Unindex keep the shape.
LEMMA EndStepKeeps ==
    ASSUME Shape, NEW r \in Reqs, EndSession(r) \/ EndGrant(r) \/ Unindex(r)
    PROVE  Shape'
<1>1. req[r].pc \in Ends
  BY DEF Ends, EndSession, EndGrant, Unindex
<1>2. /\ req[r] \in Request /\ Made(req[r].s) /\ Names(req[r].key, req[r].s)
      /\ req[r].ret \in {"refused", "reused", "ended"}
  BY <1>1, AtEnds
<1>3. Done(req[r]) \in {"refused", "reused", "ended", "find"}
  BY <1>2 DEF Done
<1>4. Ends \subseteq Labels /\ {"refused", "reused", "ended", "find", "unavailable"} \subseteq Labels
  BY DEF Labels, Final, Ends
<1>5. CASE EndSession(r)
  <2>1. CASE Unavailable(r) /\ UNCHANGED sess
    <3>1. StoreTypes' /\ StoreOK' /\ Grows(r)
      BY <1>5, <2>1, StoreSame DEF EndSession, Unavailable, storeVars
    <3> QED BY <1>1, <2>1, <3>1, AnswerKeeps DEF Unavailable, Ends
  <2>2. CASE /\ sess' = [sess EXCEPT ![req[r].s].st = IF Lasts(req[r].s) THEN "gone" ELSE "over"]
             /\ Go(r, AfterSession(req[r])) /\ UNCHANGED outages
    <3> DEFINE v == [sess[req[r].s] EXCEPT !.st = IF Lasts(req[r].s) THEN "gone" ELSE "over"]
    <3>1. sess[req[r].s] \in Session /\ Names(sess[req[r].s].key, req[r].s)
      BY <1>2, ReadsKey
    <3>2. v \in Session /\ v.st # "none" /\ Names(v.key, req[r].s)
      BY <3>1 DEF Session, Status
    <3>3. sess' = [sess EXCEPT ![req[r].s] = v] /\ req[r].s \in Sessions
      BY <1>2, <2>2 DEF Made
    <3> HIDE DEF v
    <3>4. StoreTypes' /\ StoreOK' /\ Grows(r)
      BY <1>2, <1>5, <2>2, <3>2, <3>3, SessionWritten DEF EndSession
    <3> QED BY <1>1, <1>3, <1>4, <2>2, <3>4, AfterSteps, EndMove DEF Ends
  <2> QED BY <1>5, <2>1, <2>2 DEF EndSession
<1>6. CASE EndGrant(r)
  <2> DEFINE k == IF req[r].pc = "endKey" THEN req[r].key ELSE req[r].k
  <2>1. CASE Unavailable(r) /\ UNCHANGED grant
    <3>1. StoreTypes' /\ StoreOK' /\ Grows(r)
      BY <1>6, <2>1, StoreSame DEF EndGrant, Unavailable, storeVars
    <3> QED BY <1>1, <2>1, <3>1, AnswerKeeps DEF Unavailable, Ends
  <2>2. CASE /\ grant' = [grant EXCEPT ![k].st = "gone"]
             /\ Go(r, IF req[r].pc = "endKey" THEN AfterKey(req[r]) ELSE AfterGrants(req[r]))
             /\ UNCHANGED outages
    <3>1. Drawn(k)
      BY <1>1, <1>6, AtEnds DEF EndGrant, Names
    <3>2. StoreTypes' /\ StoreOK' /\ Grows(r)
      BY <1>6, <2>2, <3>1, GrantRemoved DEF EndGrant
    <3> QED BY <1>1, <1>3, <1>4, <2>2, <3>2, AfterSteps, EndMove DEF Ends
  <2> QED BY <1>6, <2>1, <2>2 DEF EndGrant
<1>7. CASE Unindex(r)
  <2>1. StoreTypes' /\ StoreOK' /\ Grows(r)
    <3>1. CASE index' = index \ {req[r].s} /\ UNCHANGED outages
      BY <1>7, <3>1, IndexWritten DEF Unindex
    <3>2. CASE Fails /\ UNCHANGED index
      BY <1>7, <3>2, StoreSame DEF Unindex, storeVars
    <3> QED BY <1>7, <3>1, <3>2 DEF Unindex
  <2> QED BY <1>1, <1>3, <1>4, <1>7, <2>1, EndMove DEF Unindex
<1> QED BY <1>5, <1>6, <1>7

\* A request goes on to end a connection whose session it read.
LEMMA EndBegins ==
    ASSUME Shape, NEW r \in Reqs, NEW s \in Sessions, Made(s), NEW T \in SUBSET Sessions,
           SignOutOK(r) \/ EndAllOK(r), req[r].pc = "findSess",
           req' = [req EXCEPT ![r] = Ending([req[r] EXCEPT !.s = s, !.todo = T], "ended")],
           \A x \in T : Made(x), SignOutOK(r) => T = {},
           UNCHANGED <<storeVars, owned, outages>>
    PROVE  Shape'
<1> DEFINE q == [req[r] EXCEPT !.s = s, !.todo = T, !.pc = "endSess", !.ret = "ended",
                               !.key = sess[s].key, !.named = sess[s].named]
<1>1. req[r] \in Request
  BY Shaped
<1>2. q = Ending([req[r] EXCEPT !.s = s, !.todo = T], "ended")
  BY <1>1 DEF Ending, Request
<1>3. sess[s] \in Session /\ Names(sess[s].key, s) /\ sess[s].key \in Keys \cup {None}
  BY ReadsKey
<1>4. q \in Request
  BY <1>1, <1>3 DEF Request, Labels, Final, Session
<1>5. Becomes(r, q)
  BY <1>2, <1>4, Moves
<1>6. /\ q.pc = "endSess" /\ q.ret = "ended" /\ q.key = sess[s].key /\ q.s = s
      /\ q.k = req[r].k /\ q.todo = T /\ q.seen = req[r].seen
  BY <1>1 DEF Request
<1>7. StoreTypes' /\ StoreOK' /\ Grows(r) /\ UNCHANGED <<sess, grant>>
  BY StoreSame DEF storeVars
<1>8. \A x : (Made(x)' <=> Made(x)) /\ \A k : Names(k, x) => Names(k, x)'
  BY <1>7 DEF Made, Names, Drawn
<1> HIDE DEF q
<1>9. CASE SignOutOK(r)
  <2>1. SignOutOK(r)'
    BY <1>3, <1>5, <1>6, <1>8, <1>9 DEF SignOutOK, Becomes, Ends
  <2> QED BY <1>5, <1>7, <2>1, Frame DEF ReqOK
<1>10. CASE EndAllOK(r)
  <2>1. EndAllOK(r)'
    BY <1>3, <1>5, <1>6, <1>8, <1>10 DEF EndAllOK, Becomes, Ends
  <2> QED BY <1>5, <1>7, <2>1, Frame DEF ReqOK
<1> QED BY <1>9, <1>10

\* Who looks connections up.
LEMMA AtFind ==
    ASSUME Shape, NEW r \in Reqs, req[r].pc \in {"find", "findSess", "dropIndex", "touch"}
    PROVE  /\ req[r] \in Request
           /\ \/ r \in Uses /\ UseOK(r)
              \/ r \in SignOuts /\ SignOutOK(r) /\ req[r].pc # "touch"
              \/ r \in EndAlls /\ EndAllOK(r) /\ req[r].pc # "touch"
              \/ r \in Lists /\ ListOK(r) /\ req[r].pc \in {"findSess", "dropIndex"}
           /\ \A s \in req[r].todo : Made(s)
<1>1. ReqOK(r) /\ req[r] \in Request
  BY Shaped
<1>2. ~ChoiceOK(r) /\ ~ConnectOK(r) /\ ~RefreshOK(r) /\ ~RevokeOK(r)
  BY DEF ChoiceOK, ConnectOK, RefreshOK, RevokeOK, Ends
<1> QED BY <1>1, <1>2 DEF ReqOK, UseOK, SignOutOK, EndAllOK, ListOK, Ends

\* A lookup goes on, with the connection s.
LEMMA FindMove ==
    ASSUME Shape, NEW r \in Reqs, req[r].pc \in {"find", "findSess", "dropIndex"},
           NEW s, NEW T \in SUBSET req[r].todo, NEW l,
           req' = [req EXCEPT ![r] = [@ EXCEPT !.s = s, !.todo = T, !.pc = l]],
           s = req[r].s \/ s \in req[r].todo,
           r \notin Sweeps => s = req[r].s,
           req[r].pc = "find" \/ r \in Lists \/ s = req[r].s,
           \/ l \in {"findSess", "dropIndex"} /\ (r \in EndAlls \cup Lists => Made(s))
           \/ l = NotLive(r, [req[r] EXCEPT !.s = s, !.todo = T]),
           r \in Lists => l # "find",
           StoreTypes', StoreOK', Grows(r)
    PROVE  Shape'
<1> DEFINE q == [req[r] EXCEPT !.s = s, !.todo = T, !.pc = l]
<1>0. req[r] \in Request /\ req[r].todo \in SUBSET Sessions /\ req[r].ret \in Labels
  BY AtFind DEF Request
<1>1. [req[r] EXCEPT !.s = s, !.todo = T].ret = req[r].ret
      /\ [req[r] EXCEPT !.s = s, !.todo = T].todo = T
  BY <1>0 DEF Request
<1>2. l \in {"findSess", "dropIndex", "refused", "missing", "find", req[r].ret}
  BY <1>1 DEF NotLive, Done
<1>3. l \in Labels
  BY <1>0, <1>2 DEF Labels, Final
<1>4. q \in Request
  BY <1>0, <1>3 DEF Request
<1>5. Becomes(r, q)
  BY <1>4, Moves
<1>6. /\ q.pc = l /\ q.s = s /\ q.todo = T /\ q.seen = req[r].seen /\ q.k = req[r].k
      /\ q.key = req[r].key /\ q.ret = req[r].ret
  BY <1>0 DEF Request
<1>7. /\ \A x : Made(x) => Made(x)'
      /\ \A k, x : Names(k, x) => Names(k, x)'
  BY DEF Grows, Names, Drawn
<1> HIDE DEF q
<1>8. CASE r \in Uses /\ UseOK(r)
  <2>1. l \in {"findSess", "dropIndex", "refused"} /\ s = req[r].s /\ T = {}
    BY <1>2, <1>8, RequestsAssumption DEF UseOK, NotLive, Sweeps
  <2>2. UseOK(r)'
    BY <1>5, <1>6, <1>7, <1>8, <2>1 DEF UseOK, Becomes
  <2> QED BY <1>5, <2>2, Frame DEF ReqOK
<1>9. CASE r \in SignOuts /\ SignOutOK(r)
  <2>1. l \in {"findSess", "dropIndex", "missing"} /\ s = req[r].s /\ T = {}
    BY <1>2, <1>9, RequestsAssumption DEF SignOutOK, NotLive, Sweeps
  <2>2. SignOutOK(r)'
    BY <1>5, <1>6, <1>7, <1>9, <2>1 DEF SignOutOK, Becomes, Ends
  <2> QED BY <1>5, <2>2, Frame DEF ReqOK
<1>10. CASE r \in EndAlls /\ EndAllOK(r)
  <2>1. l \in {"findSess", "dropIndex", "ended", "find"} /\ req[r].ret = "ended"
    BY <1>1, <1>10, RequestsAssumption DEF EndAllOK, NotLive, Sweeps, Done
  <2>2. l \in {"findSess", "dropIndex"} => Made(s)
    BY <1>1, <1>10, RequestsAssumption DEF EndAllOK, NotLive, Sweeps, Done
  <2>3. EndAllOK(r)'
    BY <1>5, <1>6, <1>7, <1>10, <2>1, <2>2 DEF EndAllOK, Becomes, Ends
  <2> QED BY <1>5, <2>3, Frame DEF ReqOK
<1>11. CASE r \in Lists /\ ListOK(r)
  <2>1. l \in {"findSess", "dropIndex", "ended"} /\ req[r].ret = "ended"
    BY <1>1, <1>11, RequestsAssumption DEF ListOK, NotLive, Sweeps, Done
  <2>2. l = "dropIndex" => Made(s)
    BY <1>1, <1>11, RequestsAssumption DEF ListOK, NotLive, Sweeps, Done
  <2>3. ListOK(r)'
    BY <1>5, <1>6, <1>7, <1>11, <2>1, <2>2 DEF ListOK, Becomes
  <2> QED BY <1>5, <2>3, Frame DEF ReqOK
<1> QED BY AtFind, <1>8, <1>9, <1>10, <1>11

\* FindConnection keeps the shape.
LEMMA FindConnectionKeeps ==
    ASSUME Shape, NEW r \in Reqs, FindConnection(r)
    PROVE  Shape'
<1>1. req[r].pc = "find" /\ req[r] \in Request /\ \A s \in req[r].todo : Made(s)
  BY AtFind DEF FindConnection
<1>2. StoreTypes' /\ StoreOK' /\ Grows(r)
  BY StoreSame DEF FindConnection, Unavailable
<1>3. CASE Unavailable(r)
  BY <1>1, <1>2, <1>3, AnswerKeeps DEF Unavailable
<1>4. ASSUME NEW s \in IF r \in EndAlls THEN req[r].todo ELSE {req[r].s},
             LET at == [req[r] EXCEPT !.s = s, !.todo = @ \ {s}] IN
             req' = [req EXCEPT ![r] = [at EXCEPT !.pc =
                        IF s \in Listed THEN "findSess" ELSE NotLive(r, at)]]
      PROVE  Shape'
  <2> DEFINE T == req[r].todo \ {s}
             l == IF s \in Listed THEN "findSess"
                  ELSE NotLive(r, [req[r] EXCEPT !.s = s, !.todo = T])
  <2>1. [req[r] EXCEPT !.s = s, !.todo = @ \ {s}] = [req[r] EXCEPT !.s = s, !.todo = T]
    BY <1>1 DEF Request
  <2>2. req' = [req EXCEPT ![r] = [@ EXCEPT !.s = s, !.todo = T, !.pc = l]]
    <3>1. [[req[r] EXCEPT !.s = s, !.todo = T] EXCEPT !.pc = l]
          = [req[r] EXCEPT !.s = s, !.todo = T, !.pc = l]
      BY <1>1 DEF Request
    <3> HIDE DEF T
    <3> QED BY <1>4, <2>1, <3>1
  <2>3. r \notin Lists
    BY <1>1, Sorts DEF ListOK
  <2>4. s = req[r].s \/ s \in req[r].todo
    BY <1>4
  <2>5. r \notin Sweeps => s = req[r].s
    BY <1>4 DEF Sweeps
  <2>6. r \in EndAlls \cup Lists => Made(s)
    BY <1>1, <1>4, <2>3
  <2>7. T \in SUBSET req[r].todo
    OBVIOUS
  <2>8. \/ l \in {"findSess", "dropIndex"}
        \/ l = NotLive(r, [req[r] EXCEPT !.s = s, !.todo = T])
    OBVIOUS
  <2> HIDE DEF T, l
  <2> QED BY <1>1, <1>2, <2>2, <2>3, <2>4, <2>5, <2>6, <2>7, <2>8, FindMove
<1> QED BY <1>3, <1>4 DEF FindConnection

\* FindSession keeps the shape.
LEMMA FindSessionKeeps ==
    ASSUME Shape, NEW r \in Reqs, FindSession(r)
    PROVE  Shape'
<1>1. req[r].pc = "findSess" /\ req[r] \in Request /\ \A s \in req[r].todo : Made(s)
  BY AtFind DEF FindSession
<1>2. StoreTypes' /\ StoreOK' /\ Grows(r) /\ UNCHANGED <<sess, grant>>
  BY StoreSame DEF FindSession, Unavailable, storeVars
<1>3. CASE Unavailable(r)
  BY <1>1, <1>2, <1>3, AnswerKeeps DEF Unavailable
<1>4. ASSUME NEW s \in IF r \in Lists THEN req[r].todo ELSE {req[r].s}, UNCHANGED outages,
             LET at == [req[r] EXCEPT !.s = s, !.todo = @ \ {s}] IN
                 \/ /\ ~Live(s)
                    /\ req' = [req EXCEPT ![r] = [at EXCEPT !.pc = "dropIndex"]]
                 \/ /\ Live(s) /\ r \in SignOuts \cup EndAlls
                    /\ req' = [req EXCEPT ![r] = Ending(at, "ended")]
                 \/ /\ Live(s) /\ r \in Lists
                    /\ req' = [req EXCEPT ![r] = [at EXCEPT !.pc = NotLive(r, at)]]
                 \/ /\ Live(s) /\ r \in Uses
                    /\ \E next \in {"issued", "touch"} :
                           req' = [req EXCEPT ![r] = [at EXCEPT !.pc = next,
                                                                !.key = sess[s].key]]
      PROVE  Shape'
  <2> DEFINE T == req[r].todo \ {s}
             at == [req[r] EXCEPT !.s = s, !.todo = T]
  <2>0. [req[r] EXCEPT !.s = s, !.todo = @ \ {s}] = at
    BY <1>1 DEF Request
  <2>1. Made(s) /\ s \in Sessions
    <3>1. ~(r \in Lists) => Made(req[r].s)
      BY <1>1, AtFind DEF UseOK, SignOutOK, EndAllOK
    <3> QED BY <1>1, <1>4, <3>1 DEF Made
  <2>2. T \in SUBSET req[r].todo /\ T \in SUBSET Sessions /\ \A x \in T : Made(x)
    BY <1>1 DEF Request
  <2>3. s = req[r].s \/ s \in req[r].todo
    BY <1>4
  <2>4. r \notin Sweeps => s = req[r].s
    BY <1>4 DEF Sweeps
  <2>5. r \in Lists \/ s = req[r].s
    BY <1>4
  <2>6. ASSUME NEW l, l = "dropIndex" \/ (r \in Lists /\ l = NotLive(r, at)),
               req' = [req EXCEPT ![r] = [at EXCEPT !.pc = l]]
        PROVE  Shape'
    <3>1. r \in Lists => l # "find"
      <4>1. ASSUME r \in Lists PROVE at.todo = {} => at.ret = "ended"
        BY <1>1, <4>1, Sorts DEF ListOK, Request
      <4> QED BY <2>6, <4>1, RequestsAssumption DEF NotLive, Done, Sweeps
    <3>2. req' = [req EXCEPT ![r] = [@ EXCEPT !.s = s, !.todo = T, !.pc = l]]
      BY <1>1, <2>6 DEF Request
    <3>3. \/ l \in {"findSess", "dropIndex"} /\ (r \in EndAlls \cup Lists => Made(s))
          \/ l = NotLive(r, [req[r] EXCEPT !.s = s, !.todo = T])
      BY <2>1, <2>6
    <3> HIDE DEF T
    <3> QED BY <1>1, <1>2, <2>2, <2>3, <2>4, <2>5, <3>1, <3>2, <3>3, FindMove
  <2>7. ASSUME r \in SignOuts \cup EndAlls, req' = [req EXCEPT ![r] = Ending(at, "ended")]
        PROVE  Shape'
    <3>1. SignOutOK(r) \/ EndAllOK(r)
      BY <1>1, <2>7, Sorts
    <3>2. SignOutOK(r) => T = {}
      BY DEF SignOutOK
    <3>3. UNCHANGED <<storeVars, owned, outages>>
      BY <1>4 DEF FindSession
    <3> HIDE DEF T
    <3> QED BY <1>1, <2>1, <2>2, <2>7, <3>1, <3>2, <3>3, EndBegins
  <2>8. ASSUME r \in Uses, NEW l \in {"issued", "touch"},
               req' = [req EXCEPT ![r] = [at EXCEPT !.pc = l, !.key = sess[s].key]]
        PROVE  Shape'
    <3> DEFINE q == [at EXCEPT !.pc = l, !.key = sess[s].key]
    <3>1. UseOK(r)
      BY <2>8, Sorts
    <3>2. sess[s] \in Session /\ Names(sess[s].key, s) /\ sess[s].key \in Keys \cup {None}
      BY <2>1, ReadsKey
    <3>3. q \in Request
      BY <1>1, <2>1, <2>2, <2>8, <3>2 DEF Request, Labels, Final
    <3>4. Becomes(r, q)
      BY <2>8, <3>3, Moves
    <3>5. q.pc = l /\ q.s = s /\ q.todo = T /\ q.key = sess[s].key /\ T = {}
      BY <1>1, <3>1 DEF Request, UseOK
    <3>6. Made(s)' /\ Names(q.key, s)'
      BY <1>2, <2>1, <3>2, <3>4, <3>5 DEF Made, Names, Drawn
    <3> HIDE DEF q, T
    <3>7. UseOK(r)'
      BY <1>2, <2>1, <2>8, <3>1, <3>2, <3>4, <3>5 DEF UseOK, Becomes, Names, Drawn, Made
    <3> QED BY <1>2, <3>4, <3>7, Frame DEF ReqOK
  <2> QED BY <1>4, <2>0, <2>6, <2>7, <2>8
<1> QED BY <1>3, <1>4 DEF FindSession

\* DropIndex keeps the shape.
LEMMA DropIndexKeeps ==
    ASSUME Shape, NEW r \in Reqs, DropIndex(r)
    PROVE  Shape'
<1>1. req[r].pc = "dropIndex" /\ req[r] \in Request
  BY AtFind DEF DropIndex
<1>2. StoreTypes' /\ StoreOK' /\ Grows(r)
  <2>1. CASE index' = index \ {req[r].s} /\ UNCHANGED outages
    BY <2>1, IndexWritten DEF DropIndex
  <2>2. CASE Fails /\ UNCHANGED index
    BY <2>2, StoreSame DEF DropIndex, storeVars
  <2> QED BY <2>1, <2>2 DEF DropIndex
<1> DEFINE l == NotLive(r, req[r])
<1>3. [req[r] EXCEPT !.s = req[r].s, !.todo = req[r].todo] = req[r]
  BY <1>1 DEF Request
<1>4. req' = [req EXCEPT ![r] = [@ EXCEPT !.s = req[r].s, !.todo = req[r].todo, !.pc = l]]
  BY <1>1, <1>3 DEF DropIndex, Go, Request
<1>5. r \in Lists => l # "find"
  <2>1. ASSUME r \in Lists PROVE req[r].todo = {} => req[r].ret = "ended"
    BY <1>1, <2>1, Sorts DEF ListOK
  <2> QED BY <2>1, RequestsAssumption DEF NotLive, Done, Sweeps
<1>6. l = NotLive(r, [req[r] EXCEPT !.s = req[r].s, !.todo = req[r].todo])
  BY <1>3
<1> HIDE DEF l
<1> QED BY <1>1, <1>2, <1>4, <1>5, <1>6, FindMove

\* Touch keeps the shape.
LEMMA TouchKeeps ==
    ASSUME Shape, NEW r \in Reqs, Touch(r)
    PROVE  Shape'
<1>1. r \in Uses /\ UseOK(r) /\ req[r].pc = "touch" /\ req[r] \in Request
  BY AtFind DEF Touch
<1>2. Made(req[r].s) /\ Names(req[r].key, req[r].s)
  BY <1>1 DEF UseOK
<1>3. r \notin SignOuts \cup Sweeps
  BY <1>1, RequestsAssumption
<1>4. CASE UNCHANGED sess /\ ((Go(r, "refused") /\ UNCHANGED outages) \/ Unavailable(r))
  <2>1. StoreTypes' /\ StoreOK' /\ Grows(r)
    BY <1>4, StoreSame DEF Touch, Unavailable, storeVars
  <2> QED BY <1>1, <1>3, <1>4, <2>1, AnswerKeeps DEF Unavailable
<1>5. CASE sess' = [sess EXCEPT ![req[r].s].key = req[r].key] /\ Go(r, "issued") /\ UNCHANGED outages
  <2> DEFINE v == [sess[req[r].s] EXCEPT !.key = req[r].key]
  <2>1. sess[req[r].s] \in Session /\ sess[req[r].s].st # "none"
    BY <1>2 DEF Made, Shape, TypeOK
  <2>2. v \in Session /\ v.st # "none" /\ v.key = req[r].key
    BY <1>1, <2>1 DEF Session, Request
  <2>3. sess' = [sess EXCEPT ![req[r].s] = v] /\ req[r].s \in Sessions
    BY <1>2, <1>5 DEF Made
  <2> HIDE DEF v
  <2>4. StoreTypes' /\ StoreOK' /\ Grows(r)
    BY <1>2, <1>5, <2>2, <2>3, SessionWritten DEF Touch
  <2>5. Becomes(r, [req[r] EXCEPT !.pc = "issued"])
    BY <1>5, Goes DEF Labels, Final
  <2>6. /\ \A x : Made(x) => Made(x)'
        /\ \A k, x : Names(k, x) => Names(k, x)'
    BY <2>4 DEF Grows, Names, Drawn
  <2>7. UseOK(r)'
    BY <1>1, <2>5, <2>6 DEF UseOK, Becomes, Request
  <2> QED BY <2>4, <2>5, <2>7, Frame DEF ReqOK
<1> QED BY <1>4, <1>5 DEF Touch

-----------------------------------------------------------------------------
\* Nothing has been stored and no request has begun.
LEMMA ShapeInit == Init => Shape
<1> SUFFICES ASSUME Init PROVE Shape
  OBVIOUS
<1>1. Blank \in Request /\ Blank.pc = "idle" /\ Blank.s = None /\ Blank.k = None
      /\ Blank.key = None /\ Blank.todo = {} /\ Blank.seen = {}
  BY DEF Blank, Request, Labels
<1>2. TypeOK
  BY <1>1 DEF Init, TypeOK, Session, Grant, Status
<1>3. StoreOK
  BY DEF Init, StoreOK, Names, Drawn
<1>4. ASSUME NEW r \in Reqs PROVE ReqOK(r)
  <2>1. req[r] = Blank /\ ~Drawn(r)
    BY DEF Init, Drawn
  <2> HIDE DEF Blank
  <2>2. CASE r \in Choices
    BY <1>1, <2>1, <2>2 DEF ReqOK, ChoiceOK
  <2>3. CASE r \in Connects
    BY <1>1, <2>1, <2>3 DEF ReqOK, ConnectOK, Ends, Names
  <2>4. CASE r \in Refreshes
    BY <1>1, <2>1, <2>4 DEF ReqOK, RefreshOK, Ends, Names
  <2>5. CASE r \in Revokes
    BY <1>1, <2>1, <2>5 DEF ReqOK, RevokeOK, Ends, Names
  <2>6. CASE r \in Uses
    BY <1>1, <2>1, <2>6 DEF ReqOK, UseOK, Names
  <2>7. CASE r \in SignOuts
    BY <1>1, <2>1, <2>7 DEF ReqOK, SignOutOK, Ends, Names
  <2>8. CASE r \in EndAlls
    BY <1>1, <2>1, <2>8 DEF ReqOK, EndAllOK, Ends, Names
  <2>9. CASE r \in Lists
    BY <1>1, <2>1, <2>9 DEF ReqOK, ListOK
  <2> QED BY <2>2, <2>3, <2>4, <2>5, <2>6, <2>7, <2>8, <2>9 DEF Reqs, Keys, Sweeps
<1> QED BY <1>2, <1>3, <1>4 DEF Shape

\* The shape is inductive.
LEMMA ShapeStep == Shape /\ [Next]_vars => Shape'
<1> SUFFICES ASSUME Shape, [Next]_vars PROVE Shape'
  OBVIOUS
<1>1. CASE UNCHANGED vars
  <2>1. \A r : ReqOK(r)' <=> ReqOK(r)
    BY <1>1 DEF vars, ReqOK, ChoiceOK, ConnectOK, RefreshOK, RevokeOK, UseOK, SignOutOK,
       EndAllOK, ListOK, Made, Drawn, Names
  <2> QED BY <1>1, <2>1 DEF vars, Shape, TypeOK, StoreOK, Made, Drawn, Names
<1>2. ASSUME NEW r \in Reqs, Step(r) PROVE Shape'
  BY <1>2, ChoiceStepKeeps, ConsumeAppCodeKeeps, ConnectLoadKeeps, AskRegisterKeeps,
     SaveNextKeeps, BindKeeps, AddConnectionKeeps, LoadRefreshKeeps, LoadGrantedKeeps,
     DropGrantKeeps, TakeRefreshKeeps, MarkUsedKeeps, EndStepKeeps, RevokeGrantKeeps,
     RevokeLoadKeeps, FindConnectionKeeps, FindSessionKeeps, DropIndexKeeps, TouchKeeps DEF Step
<1>3. ASSUME RemoveAssistant PROVE Shape'
  <2>1. UNCHANGED <<sess, ticket, code, grant, index, req, outages>> /\ owned' = FALSE
    BY <1>3 DEF RemoveAssistant, storeVars
  <2>2. \A r : ReqOK(r)' <=> ReqOK(r)
    BY <2>1 DEF ReqOK, ChoiceOK, ConnectOK, RefreshOK, RevokeOK, UseOK, SignOutOK,
       EndAllOK, ListOK, Made, Drawn, Names
  <2> QED BY <2>1, <2>2 DEF Shape, TypeOK, StoreOK, Made, Drawn, Names
<1> QED BY <1>1, <1>2, <1>3, ArriveKeeps, AskAssistantKeeps DEF Next

\* Every value the store and the requests ever hold is of its type: no step
\* reads a session, grant or ticket that its request was not given (the handlers
\* of aiapp.go and connections.go).
THEOREM TypeCorrect == Spec => []TypeOK
<1>1. Spec => []Shape
  BY ShapeInit, ShapeStep, PTL DEF Spec
<1>2. Shape => TypeOK
  BY DEF Shape
<1> QED BY <1>1, <1>2, PTL

-----------------------------------------------------------------------------
(* What a step does to the turn to draw a connection's next token.  Most    *)
(* steps of the handlers leave it where it is, or lose it.                  *)

\* Who has the turn in hand, the grants that can be renewed while their session
\* lasts, the choices on their way to the code, the refreshes that took a token.
Hand(r) ==
    /\ r \in Keys
    /\ req[r].pc = "saveNext" \/ (r \in Connects /\ req[r].pc \in {"load", "register"})

Fresh(k) == k \in Keys /\ grant[k].st = "live" /\ ~grant[k].rotated

Choosing(r) == r \in Choices /\ req[r].pc \in {"chooseSess", "chooseSave", "chooseCode"}

Marking(r) == r \in Refreshes /\ req[r].pc \in {"saveNext", "markUsed"}

Others(r) == \A x \in Reqs \ {r} : req'[x] = req[x]

SameStatus == \A s \in Sessions : sess'[s].st = sess[s].st

\* A step that moves no turn, or loses the one its request has in hand.
Calm(r) ==
    /\ UNCHANGED <<ticket, code, grant>> /\ SameStatus /\ Others(r)
    /\ Hand(r)' => Hand(r) /\ req'[r].s = req[r].s
    /\ Choosing(r)' => Choosing(r) /\ req'[r].s = req[r].s
    /\ Marking(r)' => Marking(r) /\ req'[r].k = req[r].k

TicketTaken(r) ==
    /\ r \in Choices /\ Made(req[r].s) /\ ticket[req[r].s] = "saved" /\ req'[r].s = req[r].s
    /\ ticket' = [ticket EXCEPT ![req[r].s] = "spent"]
    /\ UNCHANGED <<code, grant>> /\ SameStatus /\ Others(r)

Coded(r) ==
    /\ Choosing(r) /\ ~Choosing(r)'
    /\ code' = [code EXCEPT ![req[r].s] = "saved"]
    /\ UNCHANGED <<ticket, grant>> /\ SameStatus /\ Others(r)

CodeTaken(r) ==
    /\ r \in Connects /\ Made(req[r].s) /\ ~Drawn(r) /\ ~Hand(r)
    /\ code[req[r].s] = "saved" /\ req'[r].s = req[r].s
    /\ code' = [code EXCEPT ![req[r].s] = "spent"]
    /\ UNCHANGED <<ticket, grant>> /\ SameStatus /\ Others(r)

TokenTaken(r) ==
    /\ r \in Refreshes /\ ~Hand(r) /\ Hand(r)' /\ req'[r].s = req[r].s /\ req'[r].k = req[r].k
    /\ Made(req[r].s) /\ Drawn(req[r].k) /\ grant[req[r].k].s = req[r].s /\ ~Drawn(r)
    /\ LiveGrant(req[r].k) /\ ~grant[req[r].k].rotated
    /\ grant' = [grant EXCEPT ![req[r].k].st = "gone"]
    /\ UNCHANGED <<ticket, code>> /\ SameStatus /\ Others(r)

NextDrawn(r) ==
    /\ Hand(r) /\ ~Hand(r)' /\ Lasts(req[r].s)
    /\ Marking(r)' => Marking(r) /\ req'[r].k = req[r].k
    /\ grant' = [grant EXCEPT ![r] = [st |-> "live", s |-> req[r].s, rotated |-> FALSE]]
    /\ UNCHANGED <<ticket, code>> /\ SameStatus /\ Others(r)

TokenMarked(r) ==
    /\ Marking(r) /\ ~Marking(r)' /\ ~Hand(r) /\ ~Hand(r)'
    /\ grant' = [grant EXCEPT ![req[r].k] = [st |-> "live", s |-> req[r].s, rotated |-> TRUE]]
    /\ UNCHANGED <<ticket, code>> /\ SameStatus /\ Others(r)

GrantLost(r, k) ==
    /\ Drawn(k) /\ grant' = [grant EXCEPT ![k].st = "gone"]
    /\ ~Hand(r) /\ ~Hand(r)' /\ ~Marking(r)' /\ r \notin Choices
    /\ UNCHANGED <<ticket, code>> /\ SameStatus /\ Others(r)

SessionEnded(r) ==
    /\ sess' = [sess EXCEPT ![req[r].s].st = IF Lasts(req[r].s) THEN "gone" ELSE "over"]
    /\ Made(req[r].s) /\ ~Hand(r) /\ ~Hand(r)' /\ ~Marking(r)' /\ r \notin Choices
    /\ UNCHANGED <<ticket, code, grant>> /\ Others(r)

\* A request that only goes on to another step.
LEMMA GoesOn ==
    ASSUME Shape, NEW r \in Reqs, NEW l, Go(r, l)
    PROVE  /\ req'[r].pc = l /\ req'[r].s = req[r].s /\ req'[r].k = req[r].k /\ req'[r].ret = req[r].ret
           /\ req'[r].key = req[r].key /\ req'[r].todo = req[r].todo /\ req'[r].seen = req[r].seen
           /\ Others(r)
<1>1. req[r] \in Request /\ req \in [Reqs -> Request]
  BY DEF Shape, TypeOK
<1>2. req'[r] = [req[r] EXCEPT !.pc = l] /\ Others(r)
  BY <1>1 DEF Go, Others
<1> QED BY <1>1, <1>2 DEF Request

\* What the sorts of request cannot be at.
LEMMA SortsApart ==
    ASSUME NEW r
    PROVE  /\ r \in Choices => r \notin Keys
           /\ r \in Revokes \cup Uses \cup SignOuts \cup Sweeps => r \notin Keys \cup Choices
           /\ r \in Connects => r \in Keys /\ r \notin Refreshes
           /\ r \in Refreshes => r \in Keys /\ r \notin Connects
BY RequestsAssumption DEF Keys

\* A request that arrives has no turn yet.
LEMMA ArriveCalm ==
    ASSUME Shape, NEW r \in Reqs, Arrive(r)
    PROVE  Calm(r)
<1>1. req[r] \in Request /\ req \in [Reqs -> Request]
  BY Shaped
<1>2. UNCHANGED <<ticket, code, grant>> /\ SameStatus
  BY DEF Arrive, ChoicePosted, CodePresented, TokenPresented, SignOutAsked, TokenUsed, Snapshot,
     storeVars, SameStatus
<1>3. \E q : req' = [req EXCEPT ![r] = q] /\ (q.pc \in {"ticket", "consume", "grant", "find",
            "missing", "unavailable", "ended", "findSess"})
  <2>1. CASE \E s \in Sessions, good \in BOOLEAN : ChoicePosted(r, s, good)
    <3>1. PICK s \in Sessions, good \in BOOLEAN : ChoicePosted(r, s, good)
      BY <2>1
    <3> WITNESS [req[r] EXCEPT !.pc = "ticket", !.s = s, !.good = good]
    <3> QED BY <1>1, <3>1 DEF ChoicePosted, Request
  <2>2. CASE \E s \in Sessions, good \in BOOLEAN : CodePresented(r, s, good)
    <3>1. PICK s \in Sessions, good \in BOOLEAN : CodePresented(r, s, good)
      BY <2>2
    <3> WITNESS [req[r] EXCEPT !.pc = "consume", !.s = s, !.good = good]
    <3> QED BY <1>1, <3>1 DEF CodePresented, Request
  <2>3. CASE \E k \in Keys, good \in BOOLEAN : TokenPresented(r, k, good)
    <3>1. PICK k \in Keys, good \in BOOLEAN : TokenPresented(r, k, good)
      BY <2>3
    <3> WITNESS [req[r] EXCEPT !.pc = "grant", !.k = k, !.good = good]
    <3> QED BY <1>1, <3>1 DEF TokenPresented, Request
  <2>4. CASE \E s \in Sessions, administrator \in BOOLEAN : SignOutAsked(r, s, administrator)
    <3>1. PICK s \in Sessions, l \in {"find", "missing", "unavailable"} :
              req' = [req EXCEPT ![r] = [@ EXCEPT !.pc = l, !.s = s, !.ret = "ended"]]
      BY <2>4 DEF SignOutAsked
    <3> WITNESS [req[r] EXCEPT !.pc = l, !.s = s, !.ret = "ended"]
    <3> QED BY <1>1, <3>1 DEF Request
  <2>5. CASE \E k \in Keys : TokenUsed(r, k)
    <3>1. PICK k \in Keys : TokenUsed(r, k)
      BY <2>5
    <3> WITNESS [req[r] EXCEPT !.pc = "find", !.s = req[k].s]
    <3> QED BY <1>1, <3>1 DEF TokenUsed, Request
  <2>6. CASE Snapshot(r)
    <3>1. CASE Unavailable(r)
      <4> WITNESS [req[r] EXCEPT !.pc = "unavailable"]
      <4> QED BY <1>1, <3>1 DEF Unavailable, Go, Request
    <3>2. CASE req' = [req EXCEPT ![r] = [@ EXCEPT !.todo = Listed, !.seen = Listed, !.ret = "ended",
                         !.pc = IF Listed = {} THEN "ended"
                                ELSE IF r \in Lists THEN "findSess" ELSE "find"]]
      <4> WITNESS [req[r] EXCEPT !.todo = Listed, !.seen = Listed, !.ret = "ended",
                         !.pc = IF Listed = {} THEN "ended"
                                ELSE IF r \in Lists THEN "findSess" ELSE "find"]
      <4> QED BY <1>1, <3>2 DEF Request
    <3> QED BY <2>6, <3>1, <3>2 DEF Snapshot
  <2> QED BY <2>1, <2>2, <2>3, <2>4, <2>5, <2>6 DEF Arrive
<1>4. PICK q : req' = [req EXCEPT ![r] = q] /\ (q.pc \in {"ticket", "consume", "grant", "find",
            "missing", "unavailable", "ended", "findSess"})
  BY <1>3
<1>5. req'[r] = q /\ Others(r)
  BY <1>1, <1>4 DEF Others
<1> QED BY <1>2, <1>4, <1>5 DEF Calm, Hand, Choosing, Marking

\* A failed or refused call, or one of the answers, loses what was in hand.
LEMMA StopCalm ==
    ASSUME Shape, NEW r \in Reqs, NEW l, Go(r, l), UNCHANGED <<sess, ticket, code, grant>>,
           l \notin {"saveNext", "load", "register", "chooseSess", "chooseSave", "chooseCode",
                     "markUsed"}
    PROVE  Calm(r)
BY GoesOn DEF Calm, Hand, Choosing, Marking, SameStatus

\* The choice of assistant.
LEMMA ChoiceKind ==
    ASSUME Shape, NEW r \in Reqs,
           ConsumeTicket(r) \/ ChooseLoad(r) \/ ChooseSave(r) \/ ChooseCode(r)
    PROVE  Calm(r) \/ TicketTaken(r) \/ Coded(r)
<1>0. ReqOK(r)
  BY Shaped
<1>1. CASE ConsumeTicket(r)
  <2>1. r \in Choices /\ Made(req[r].s)
    BY <1>0, <1>1 DEF ConsumeTicket, ReqOK, ChoiceOK, ConnectOK, RefreshOK, RevokeOK, UseOK,
       SignOutOK, EndAllOK, ListOK, Ends
  <2>2. CASE Go(r, "refused") /\ UNCHANGED ticket
    BY <1>1, <2>2, StopCalm DEF ConsumeTicket
  <2>3. CASE /\ ticket[req[r].s] = "saved"
             /\ ticket' = [ticket EXCEPT ![req[r].s] = "spent"]
             /\ Go(r, IF req[r].good THEN "chooseSess" ELSE "refused")
    BY <1>1, <2>1, <2>3, GoesOn DEF ConsumeTicket, TicketTaken, SameStatus
  <2> QED BY <1>1, <2>2, <2>3 DEF ConsumeTicket
<1>2. CASE ChooseLoad(r)
  <2>1. r \in Choices
    BY <1>0, <1>2 DEF ChooseLoad, ReqOK, ChoiceOK, ConnectOK, RefreshOK, RevokeOK, UseOK,
       SignOutOK, EndAllOK, ListOK, Ends
  <2>2. UNCHANGED <<sess, ticket, code, grant>> /\ SameStatus
    BY <1>2 DEF ChooseLoad, storeVars, SameStatus
  <2>3. CASE Go(r, "refused")
    BY <2>2, <2>3, StopCalm
  <2>4. CASE Go(r, "chooseSave")
    BY <1>2, <2>1, <2>2, <2>4, GoesOn, SortsApart DEF ChooseLoad, Calm, Hand, Choosing, Marking
  <2> QED BY <1>2, <2>3, <2>4 DEF ChooseLoad
<1>3. CASE ChooseSave(r)
  <2>1. r \in Choices
    BY <1>0, <1>3 DEF ChooseSave, ReqOK, ChoiceOK, ConnectOK, RefreshOK, RevokeOK, UseOK,
       SignOutOK, EndAllOK, ListOK, Ends
  <2>2. CASE Go(r, "refused") /\ UNCHANGED sess
    BY <1>3, <2>2, StopCalm DEF ChooseSave
  <2>3. CASE sess' = [sess EXCEPT ![req[r].s].chosen = TRUE] /\ Go(r, "chooseCode")
    <3>1. SameStatus
      BY <2>3 DEF SameStatus, Shape, TypeOK, Session
    <3> QED BY <1>3, <2>1, <2>3, <3>1, GoesOn, SortsApart
            DEF ChooseSave, Calm, Hand, Choosing, Marking
  <2> QED BY <1>3, <2>2, <2>3 DEF ChooseSave
<1>4. CASE ChooseCode(r)
  <2>1. r \in Choices
    BY <1>0, <1>4 DEF ChooseCode, ReqOK, ChoiceOK, ConnectOK, RefreshOK, RevokeOK, UseOK,
       SignOutOK, EndAllOK, ListOK, Ends
  <2>2. CASE Unavailable(r) /\ UNCHANGED code
    BY <1>4, <2>2, StopCalm DEF ChooseCode, Unavailable
  <2>3. CASE code' = [code EXCEPT ![req[r].s] = "saved"] /\ Go(r, "coded")
    BY <1>4, <2>1, <2>3, GoesOn DEF ChooseCode, Coded, Choosing, SameStatus
  <2> QED BY <1>4, <2>2, <2>3 DEF ChooseCode
<1> QED BY <1>1, <1>2, <1>3, <1>4

\* The code exchange.
LEMMA ConnectKind ==
    ASSUME Shape, NEW r \in Reqs, ConsumeAppCode(r) \/ ConnectLoad(r) \/ AddConnection(r)
    PROVE  Calm(r) \/ CodeTaken(r)
<1>1. r \in Connects /\ r \in Keys /\ r \notin Choices /\ r \notin Refreshes
  <2>1. ReqOK(r) /\ req[r].pc \in {"consume", "load", "addIndex"}
    BY Shaped DEF ConsumeAppCode, ConnectLoad, AddConnection
  <2>2. ConnectOK(r)
    BY <2>1 DEF ReqOK, ChoiceOK, RefreshOK, RevokeOK, UseOK, SignOutOK, EndAllOK, ListOK, Ends
  <2> QED BY <2>2, SortsApart DEF ConnectOK
<1>2. CASE ConsumeAppCode(r)
  <2>1. CASE /\ code[req[r].s] = "saved"
             /\ code' = [code EXCEPT ![req[r].s] = "spent"]
             /\ \E fresh \in BOOLEAN : Go(r, IF req[r].good /\ fresh THEN "load" ELSE "refused")
    <3>1. Made(req[r].s) /\ ~Drawn(r)
      BY <1>1, <1>2, Sorts DEF ConsumeAppCode, ConnectOK
    <3> QED BY <1>1, <1>2, <2>1, <3>1, GoesOn DEF ConsumeAppCode, CodeTaken, Hand, SameStatus
  <2>2. CASE UNCHANGED code /\ (Go(r, "refused") \/ Unavailable(r))
    BY <1>2, <2>2, StopCalm DEF ConsumeAppCode, Unavailable
  <2> QED BY <1>2, <2>1, <2>2 DEF ConsumeAppCode
<1>3. CASE ConnectLoad(r)
  <2>1. UNCHANGED <<sess, ticket, code, grant>> /\ SameStatus
    BY <1>3 DEF ConnectLoad, storeVars, SameStatus
  <2>2. CASE Go(r, "refused")
    BY <2>1, <2>2, StopCalm
  <2>3. CASE req' = [req EXCEPT ![r] = [@ EXCEPT !.pc = "register", !.key = sess[req[r].s].key,
                                                 !.named = sess[req[r].s].named]]
    <3>1. req'[r].pc = "register" /\ req'[r].s = req[r].s /\ Others(r)
      BY <2>3, Shaped DEF Others, Request
    <3> QED BY <1>1, <1>3, <2>1, <3>1 DEF ConnectLoad, Calm, Hand, Choosing, Marking
  <2> QED BY <1>3, <2>2, <2>3 DEF ConnectLoad
<1>4. CASE AddConnection(r)
  BY <1>4, StopCalm DEF AddConnection, Unavailable
<1> QED BY <1>2, <1>3, <1>4

\* The steps of an exchange and a refresh.
LEMMA SharedKind ==
    ASSUME Shape, NEW r \in Reqs, AskRegister(r) \/ SaveNext(r) \/ Bind(r)
    PROVE  Calm(r) \/ NextDrawn(r)
<1>0. req[r].pc \in {"register", "saveNext", "bind"}
  BY DEF AskRegister, SaveNext, Bind
<1>1. /\ r \in Keys /\ r \notin Choices /\ (r \notin Connects \/ r \notin Refreshes)
      /\ r \in Connects \/ r \in Refreshes
  BY <1>0, AtSharedStep, SortsApart
<1>2. CASE AskRegister(r)
  <2>1. UNCHANGED <<sess, ticket, code, grant>> /\ SameStatus
    BY <1>2 DEF AskRegister, storeVars, SameStatus
  <2>2. CASE Go(r, IF r \in Connects THEN "saveNext" ELSE "take")
    BY <1>1, <1>2, <2>1, <2>2, GoesOn DEF AskRegister, Calm, Hand, Choosing, Marking
  <2>3. CASE Go(r, "unavailable")
    BY <2>1, <2>3, StopCalm
  <2>4. CASE req' = [req EXCEPT ![r] = [@ EXCEPT !.pc = "endSess", !.ret = "refused"]]
    <3>1. req'[r].pc = "endSess" /\ Others(r)
      BY <2>4, Shaped DEF Others, Request
    <3> QED BY <2>1, <3>1 DEF Calm, Hand, Choosing, Marking
  <2> QED BY <1>2, <2>2, <2>3, <2>4 DEF AskRegister
<1>3. CASE SaveNext(r)
  <2>1. CASE /\ Lasts(req[r].s)
             /\ grant' = [grant EXCEPT ![r] = [st |-> "live", s |-> req[r].s, rotated |-> FALSE]]
             /\ Go(r, IF r \in Connects THEN "bind" ELSE "markUsed")
    BY <1>1, <1>3, <2>1, GoesOn DEF SaveNext, NextDrawn, Hand, Marking, SameStatus
  <2>2. CASE UNCHANGED grant /\ (Go(r, "refused") \/ Unavailable(r))
    BY <1>3, <2>2, StopCalm DEF SaveNext, Unavailable
  <2> QED BY <1>3, <2>1, <2>2 DEF SaveNext
<1>4. CASE Bind(r)
  <2>1. CASE sess' = [sess EXCEPT ![req[r].s] = [@ EXCEPT !.key = r, !.named = TRUE]]
             /\ Go(r, IF r \in Connects THEN "addIndex" ELSE "issued")
    <3>1. SameStatus
      BY <2>1 DEF SameStatus, Shape, TypeOK, Session
    <3> QED BY <1>4, <2>1, <3>1, GoesOn DEF Bind, Calm, Hand, Choosing, Marking
  <2>2. CASE UNCHANGED sess /\ (Go(r, "refused") \/ Unavailable(r))
    BY <1>4, <2>2, StopCalm DEF Bind, Unavailable
  <2> QED BY <1>4, <2>1, <2>2 DEF Bind
<1> QED BY <1>2, <1>3, <1>4

\* A refresh takes its token, draws the next, and marks the one it took.
LEMMA RefreshKind ==
    ASSUME Shape, NEW r \in Reqs, LoadRefresh(r) \/ LoadGranted(r) \/ TakeRefresh(r) \/ MarkUsed(r)
    PROVE  Calm(r) \/ TokenTaken(r) \/ TokenMarked(r) \/ GrantLost(r, req[r].k)
<1>0. req[r].pc \in {"grant", "loadGranted", "take", "markUsed"} /\ req[r] \in Request
  BY Shaped DEF LoadRefresh, LoadGranted, TakeRefresh, MarkUsed
<1>1. CASE LoadRefresh(r)
  <2>1. UNCHANGED <<sess, ticket, code, grant>> /\ SameStatus
    BY <1>1 DEF LoadRefresh, Unavailable, storeVars, SameStatus
  <2>2. CASE Go(r, "refused") \/ Unavailable(r)
    BY <2>1, <2>2, StopCalm DEF Unavailable
  <2>3. CASE req' = [req EXCEPT ![r] = [@ EXCEPT !.pc = "loadGranted", !.s = grant[req[r].k].s,
                                                 !.rotated = grant[req[r].k].rotated]]
    <3>1. req'[r].pc = "loadGranted" /\ Others(r)
      BY <1>0, <2>3, Shaped DEF Others, Request
    <3> QED BY <2>1, <3>1 DEF Calm, Hand, Choosing, Marking
  <2> QED BY <1>1, <2>2, <2>3 DEF LoadRefresh
<1>2. CASE LoadGranted(r)
  <2>1. UNCHANGED <<sess, ticket, code, grant>> /\ SameStatus /\ r \in Refreshes /\ r \notin Connects
    BY <1>2, SortsApart DEF LoadGranted, Unavailable, storeVars, SameStatus
  <2>2. CASE Unavailable(r)
    BY <2>1, <2>2, StopCalm DEF Unavailable
  <2>3. ASSUME NEW q, req' = [req EXCEPT ![r] = q], q.pc \in {"endSess", "register", "dropGrant"}
        PROVE  Calm(r)
    <3>1. req'[r] = q /\ Others(r)
      BY <2>3, Shaped DEF Others
    <3> QED BY <2>1, <2>3, <3>1, SortsApart DEF Calm, Hand, Choosing, Marking
  <2>4. /\ Ending(req[r], "reused").pc = "endSess"
        /\ [req[r] EXCEPT !.pc = "register", !.key = sess[req[r].s].key,
                          !.named = sess[req[r].s].named].pc = "register"
        /\ [req[r] EXCEPT !.pc = "dropGrant", !.ret = "refused"].pc = "dropGrant"
    BY <1>0 DEF Ending, Request
  <2> QED BY <1>2, <2>2, <2>3, <2>4 DEF LoadGranted
<1>3. CASE TakeRefresh(r)
  <2>0. /\ r \notin Connects /\ Drawn(req[r].k) /\ r \in Refreshes
        /\ Made(req[r].s) /\ grant[req[r].k].s = req[r].s /\ ~Drawn(r)
    <3>1. RefreshOK(r)
      BY <1>3, Shaped DEF TakeRefresh, ReqOK, ChoiceOK, ConnectOK, RevokeOK, UseOK, SignOutOK,
         EndAllOK, ListOK, Ends
    <3> QED BY <1>3, <3>1, SortsApart DEF RefreshOK, TakeRefresh
  <2>1. CASE UNCHANGED grant /\ (Go(r, "refused") \/ Unavailable(r))
    BY <1>3, <2>1, StopCalm DEF TakeRefresh, Unavailable
  <2>2. CASE /\ LiveGrant(req[r].k) /\ ~grant[req[r].k].rotated
             /\ grant' = [grant EXCEPT ![req[r].k].st = "gone"]
             /\ req' = [req EXCEPT ![r] = [@ EXCEPT !.pc = "saveNext"]]
    <3>1. Go(r, "saveNext")
      BY <1>0, <2>2, Shaped DEF Go
    <3> QED BY <1>3, <2>0, <2>2, <3>1, GoesOn, SortsApart
            DEF TakeRefresh, TokenTaken, Hand, SameStatus
  <2>3. CASE /\ grant' = [grant EXCEPT ![req[r].k].st = "gone"]
             /\ req' = [req EXCEPT ![r] = [@ EXCEPT !.pc = "endSess", !.ret = "reused"]]
    <3>1. req'[r].pc = "endSess" /\ Others(r)
      BY <1>0, <2>3, Shaped DEF Others, Request
    <3> QED BY <1>3, <2>0, <2>3, <3>1, SortsApart
            DEF TakeRefresh, GrantLost, Hand, Marking, SameStatus
  <2> QED BY <1>3, <2>1, <2>2, <2>3 DEF TakeRefresh
<1>4. CASE MarkUsed(r)
  <2>0. r \in Refreshes /\ r \notin Connects
    <3>1. RefreshOK(r)
      BY <1>4, Shaped DEF MarkUsed, ReqOK, ChoiceOK, ConnectOK, RevokeOK, UseOK, SignOutOK,
         EndAllOK, ListOK, Ends
    <3> QED BY <3>1, SortsApart DEF RefreshOK
  <2>1. CASE UNCHANGED grant /\ (Go(r, "refused") \/ Unavailable(r))
    BY <1>4, <2>1, StopCalm DEF MarkUsed, Unavailable
  <2>2. CASE /\ grant' = [grant EXCEPT ![req[r].k] =
                             [st |-> "live", s |-> req[r].s, rotated |-> TRUE]]
             /\ Go(r, "bind")
    BY <1>4, <2>0, <2>2, GoesOn DEF MarkUsed, TokenMarked, Hand, Marking, SameStatus
  <2> QED BY <1>4, <2>1, <2>2 DEF MarkUsed
<1> QED BY <1>1, <1>2, <1>3, <1>4

\* A grant is dropped because its session is gone, or its connection is ended.
LEMMA DropKind ==
    ASSUME Shape, NEW r \in Reqs, DropGrant(r)
    PROVE  Calm(r) \/ GrantLost(r, req[r].k)
<1>1. RefreshOK(r) \/ RevokeOK(r)
  <2>1. ReqOK(r) /\ req[r].pc = "dropGrant"
    BY Shaped DEF DropGrant
  <2> QED BY <2>1 DEF ReqOK, ChoiceOK, ConnectOK, UseOK, SignOutOK, EndAllOK, ListOK, Ends
<1>2. /\ req[r].pc = "dropGrant" /\ Drawn(req[r].k) /\ req[r].ret \in {"refused", "ended"}
      /\ r \notin Choices
  BY <1>1, SortsApart DEF RefreshOK, RevokeOK, DropGrant
<1>3. CASE UNCHANGED grant
  BY <1>2, <1>3, StopCalm DEF DropGrant
<1>4. CASE grant' = [grant EXCEPT ![req[r].k].st = "gone"]
  BY <1>2, <1>4, GoesOn DEF DropGrant, GrantLost, Hand, Marking, SameStatus
<1> QED BY <1>3, <1>4 DEF DropGrant

\* endConnection.
LEMMA EndKind ==
    ASSUME Shape, NEW r \in Reqs, EndSession(r) \/ EndGrant(r) \/ Unindex(r)
    PROVE  \/ Calm(r) \/ SessionEnded(r)
           \/ req[r].pc = "endKey" /\ GrantLost(r, req[r].key)
           \/ req[r].pc = "endToken" /\ GrantLost(r, req[r].k)
<1>1. req[r].pc \in Ends
  BY DEF Ends, EndSession, EndGrant, Unindex
<1>2. /\ Made(req[r].s) /\ req[r].ret \in {"refused", "reused", "ended"}
      /\ req[r].pc = "endKey" => Drawn(req[r].key)
      /\ req[r].pc = "endToken" => Drawn(req[r].k)
      /\ r \notin Choices
  <2>1. r \notin Choices
    BY <1>1, AtEnds, SortsApart DEF ConnectOK, RefreshOK, RevokeOK, SignOutOK, EndAllOK, Sweeps
  <2> QED BY <1>1, <2>1, AtEnds DEF Names
<1>3. ASSUME NEW l, l \in {AfterSession(req[r]), AfterKey(req[r]), AfterGrants(req[r]), Done(req[r]),
                          "unavailable"}
      PROVE  l \in {"endKey", "endToken", "unindex", "find", "refused", "reused", "ended",
                    "unavailable"}
  BY <1>2, <1>3, AfterSteps DEF Done
<1>4. ASSUME NEW l, Go(r, l), l \in {AfterSession(req[r]), AfterKey(req[r]), AfterGrants(req[r]),
                                     Done(req[r]), "unavailable"}
      PROVE  /\ ~Hand(r) /\ ~Hand(r)' /\ ~Marking(r)' /\ ~Choosing(r)' /\ Others(r)
  BY <1>1, <1>3, <1>4, GoesOn DEF Hand, Marking, Choosing, Ends
<1>5. CASE UNCHANGED <<sess, ticket, code, grant>>
  <2>1. ~Hand(r) /\ ~Hand(r)' /\ ~Marking(r)' /\ ~Choosing(r)' /\ Others(r)
    BY <1>4 DEF EndSession, EndGrant, Unindex, Unavailable
  <2> QED BY <1>5, <2>1 DEF Calm, SameStatus
<1>6. CASE EndSession(r)
  <2>1. CASE Unavailable(r) /\ UNCHANGED sess
    BY <1>5, <1>6, <2>1 DEF EndSession
  <2>2. CASE /\ sess' = [sess EXCEPT ![req[r].s].st = IF Lasts(req[r].s) THEN "gone" ELSE "over"]
             /\ Go(r, AfterSession(req[r]))
    BY <1>2, <1>4, <1>6, <2>2 DEF EndSession, SessionEnded
  <2> QED BY <1>6, <2>1, <2>2 DEF EndSession
<1>7. CASE EndGrant(r)
  <2> DEFINE k == IF req[r].pc = "endKey" THEN req[r].key ELSE req[r].k
  <2>1. CASE Unavailable(r) /\ UNCHANGED grant
    BY <1>5, <1>7, <2>1 DEF EndGrant
  <2>2. CASE /\ grant' = [grant EXCEPT ![k].st = "gone"]
             /\ Go(r, IF req[r].pc = "endKey" THEN AfterKey(req[r]) ELSE AfterGrants(req[r]))
    <3>1. Drawn(k)
      BY <1>2, <1>7 DEF EndGrant
    <3>2. GrantLost(r, k)
      BY <1>2, <1>4, <1>7, <2>2, <3>1 DEF EndGrant, GrantLost, SameStatus
    <3> QED BY <1>7, <3>2 DEF EndGrant
  <2> QED BY <1>7, <2>1, <2>2 DEF EndGrant
<1>8. CASE Unindex(r)
  BY <1>5, <1>8 DEF Unindex
<1> QED BY <1>6, <1>7, <1>8

\* Revocations, lookups and uses have no turn.
LEMMA LookupCalm ==
    ASSUME Shape, NEW r \in Reqs,
           RevokeGrant(r) \/ RevokeLoad(r) \/ FindConnection(r) \/ FindSession(r) \/ DropIndex(r)
              \/ Touch(r)
    PROVE  Calm(r)
<1>1. r \notin Keys /\ r \notin Choices /\ r \notin Refreshes
  <2>1. CASE RevokeGrant(r) \/ RevokeLoad(r)
    BY <2>1, SortsApart DEF RevokeGrant, RevokeLoad
  <2>2. CASE FindConnection(r) \/ FindSession(r) \/ DropIndex(r) \/ Touch(r)
    <3>1. r \in Uses \cup SignOuts \cup Sweeps
      BY <2>2, AtFind DEF FindConnection, FindSession, DropIndex, Touch, Sweeps
    <3> QED BY <3>1, SortsApart
  <2> QED BY <2>1, <2>2
<1>2. UNCHANGED <<ticket, code, grant>>
  BY DEF RevokeGrant, RevokeLoad, FindConnection, FindSession, DropIndex, Touch, Unavailable,
     storeVars
<1>3. SameStatus
  <2>1. CASE UNCHANGED sess
    BY <2>1 DEF SameStatus
  <2>2. CASE sess' = [sess EXCEPT ![req[r].s].key = req[r].key]
    BY <2>2 DEF SameStatus, Shape, TypeOK, Session
  <2> QED BY <2>1, <2>2 DEF RevokeGrant, RevokeLoad, FindConnection, FindSession, DropIndex, Touch,
             Unavailable, storeVars
<1>4. Others(r)
  BY Shaped DEF RevokeGrant, RevokeLoad, FindConnection, FindSession, DropIndex, Touch, Unavailable,
     Go, Others
<1> QED BY <1>1, <1>2, <1>3, <1>4 DEF Calm, Hand, Choosing, Marking

\* Every step of a request is one of these.
LEMMA StepKinds ==
    ASSUME Shape, NEW r \in Reqs, Step(r)
    PROVE  \/ Calm(r) \/ TicketTaken(r) \/ Coded(r) \/ CodeTaken(r) \/ TokenTaken(r)
           \/ NextDrawn(r) \/ TokenMarked(r) \/ SessionEnded(r)
           \/ \E k \in Keys : GrantLost(r, k)
<1>1. \A k : GrantLost(r, k) => k \in Keys
  BY DEF GrantLost, Drawn
<1> QED BY <1>1, ChoiceKind, ConnectKind, SharedKind, RefreshKind, DropKind, EndKind, LookupCalm
        DEF Step

-----------------------------------------------------------------------------
(* One turn of each connection.                                             *)

\* The request x has the turn of the connection s in hand, or drew the token
\* it lies in.
HasTurn(x, s) ==
    \/ Hand(x) /\ req[x].s = s
    \/ Fresh(x) /\ grant[x].s = s

\* A ticket lets one choice on to the code, which is saved once.
OneChoice ==
    /\ \A s \in Sessions : ticket[s] # "spent" => code[s] = "none"
    /\ \A c \in Choices : Choosing(c) => ticket[req[c].s] = "spent" /\ code[req[c].s] = "none"
    /\ \A c, d \in Choices : Choosing(c) /\ Choosing(d) /\ req[c].s = req[d].s => c = d

\* Nobody has the turn before the code is spent, one at most has it after, and
\* the token a refresh took cannot be renewed again.
OneHolder ==
    /\ \A s \in Sessions, x \in Keys : HasTurn(x, s) => code[s] = "spent"
    /\ \A s \in Sessions, x, y \in Keys : HasTurn(x, s) /\ HasTurn(y, s) => x = y
    /\ \A r \in Refreshes : Marking(r) => ~Fresh(req[r].k)

Turns == OneChoice /\ OneHolder

\* Choices go on one at a time.
LEMMA OneChoiceFrame ==
    ASSUME Shape, OneChoice, NEW r \in Reqs, Others(r), UNCHANGED <<ticket, code>>,
           Choosing(r)' => Choosing(r) /\ req'[r].s = req[r].s
    PROVE  OneChoice'
<1>1. Choices \subseteq Reqs
  BY DEF Reqs
<1>2. \A c \in Choices : Choosing(c)' => Choosing(c) /\ req'[c].s = req[c].s
  BY <1>1 DEF Others, Choosing
<1> QED BY <1>2 DEF OneChoice

\* The turn stays, or is lost.
LEMMA OneHolderFrame ==
    ASSUME Shape, OneHolder, NEW r \in Reqs, Others(r), UNCHANGED code,
           Hand(r)' => Hand(r) /\ req'[r].s = req[r].s,
           Marking(r)' => Marking(r) /\ req'[r].k = req[r].k,
           \A k \in Keys : Fresh(k)' => Fresh(k) /\ grant'[k].s = grant[k].s
    PROVE  OneHolder'
<1>1. Keys \subseteq Reqs /\ Refreshes \subseteq Keys
  BY DEF Reqs, Keys
<1>2. \A x \in Keys : Hand(x)' => Hand(x) /\ req'[x].s = req[x].s
  BY <1>1 DEF Others, Hand
<1>3. \A x \in Refreshes : Marking(x)' => Marking(x) /\ req'[x].k = req[x].k
  BY <1>1 DEF Others, Marking
<1>4. \A x \in Keys : \A s : HasTurn(x, s)' => HasTurn(x, s)
  BY <1>2 DEF HasTurn
<1>5. \A x \in Keys : Fresh(x)' => Fresh(x)
  OBVIOUS
<1>6. \A k : Fresh(k)' => Fresh(k)
  BY <1>5 DEF Fresh
<1> QED BY <1>3, <1>4, <1>6 DEF OneHolder

\* A grant that is removed is fresh no more, and the others are as they were.
LEMMA FreshRemoved ==
    ASSUME Shape, NEW k \in Keys, grant' = [grant EXCEPT ![k].st = "gone"]
    PROVE  /\ ~Fresh(k)'
           /\ \A x \in Keys : /\ grant'[x].s = grant[x].s
                              /\ x # k => (Fresh(x)' <=> Fresh(x)) /\ grant'[x] = grant[x]
<1>1. grant \in [Keys -> Grant]
  BY DEF Shape, TypeOK
<1> QED BY <1>1 DEF Fresh, Grant

\* A calm step.
LEMMA CalmTurns ==
    ASSUME Shape, Turns, NEW r \in Reqs, Calm(r)
    PROVE  Turns'
<1>1. \A k \in Keys : Fresh(k)' => Fresh(k) /\ grant'[k].s = grant[k].s
  BY DEF Calm, Fresh
<1> QED BY <1>1, OneChoiceFrame, OneHolderFrame DEF Turns, Calm

\* The first choice with the ticket goes on.
LEMMA TicketTakenTurns ==
    ASSUME Shape, Turns, NEW r \in Reqs, TicketTaken(r)
    PROVE  Turns'
<1>1. r \notin Keys /\ r \in Choices /\ Choices \subseteq Reqs /\ Refreshes \subseteq Keys
  BY SortsApart DEF TicketTaken, Reqs, Keys
<1>2. ~Hand(r)' /\ ~Marking(r)'
  BY <1>1 DEF Hand, Marking
<1>3. OneHolder'
  <2>1. \A k \in Keys : Fresh(k)' => Fresh(k) /\ grant'[k].s = grant[k].s
    BY DEF TicketTaken, Fresh
  <2> QED BY <1>2, <2>1, OneHolderFrame DEF Turns, TicketTaken
<1>4. ticket \in [Sessions -> {"none", "saved", "spent"}]
  BY DEF Shape, TypeOK
<1>5. \A c \in Choices \ {r} : req'[c] = req[c] /\ (Choosing(c)' <=> Choosing(c))
  BY <1>1 DEF TicketTaken, Others, Choosing
<1>6. \A c \in Choices : Choosing(c) => req[c].s # req[r].s
  BY DEF Turns, OneChoice, TicketTaken
<1>7. OneChoice'
  <2>0. ticket[req[r].s] = "saved" /\ req'[r].s = req[r].s /\ code' = code
        /\ ticket' = [ticket EXCEPT ![req[r].s] = "spent"]
    BY DEF TicketTaken
  <2>00. req[r].s \in Sessions
    BY DEF TicketTaken, Made
  <2>1. \A s \in Sessions : ticket'[s] # "spent" => code'[s] = "none"
    BY <1>4, <2>0 DEF Turns, OneChoice
  <2>2. ASSUME NEW c \in Choices, Choosing(c)'
        PROVE  ticket'[req'[c].s] = "spent" /\ code'[req'[c].s] = "none"
    BY <1>4, <1>5, <2>0, <2>2, <2>00 DEF Turns, OneChoice
  <2>3. ASSUME NEW c \in Choices, NEW d \in Choices, Choosing(c)', Choosing(d)',
               req'[c].s = req'[d].s
        PROVE  c = d
    BY <1>5, <1>6, <2>0, <2>3 DEF Turns, OneChoice
  <2> QED BY <2>1, <2>2, <2>3 DEF OneChoice
<1> QED BY <1>3, <1>7 DEF Turns

\* What a request of some sort and step has read, for those that move a turn.
LEMMA ChoosingMade ==
    ASSUME Shape, NEW r \in Reqs, Choosing(r)
    PROVE  r \in Choices /\ r \notin Keys /\ Made(req[r].s)
BY Sorts, SortsApart DEF Choosing, ChoiceOK

LEMMA HandMade ==
    ASSUME Shape, NEW r \in Reqs, Hand(r)
    PROVE  Made(req[r].s) /\ ~Drawn(r) /\ r \in Keys /\ r \notin Choices
<1>1. CASE r \in Connects
  BY <1>1, Sorts, SortsApart DEF Hand, ConnectOK
<1>2. CASE r \in Refreshes
  BY <1>2, Sorts, SortsApart DEF Hand, RefreshOK
<1> QED BY <1>1, <1>2 DEF Hand, Keys

LEMMA MarkingMade ==
    ASSUME Shape, NEW r \in Reqs, Marking(r)
    PROVE  /\ Made(req[r].s) /\ Drawn(req[r].k) /\ req[r].k # r /\ grant[req[r].k].s = req[r].s
           /\ r \in Keys /\ r \notin Choices
BY Sorts, SortsApart DEF Marking, RefreshOK

\* The choice saves the code.
LEMMA CodedTurns ==
    ASSUME Shape, Turns, NEW r \in Reqs, Coded(r)
    PROVE  Turns'
<1>1. /\ r \notin Keys /\ r \in Choices /\ Choices \subseteq Reqs /\ Refreshes \subseteq Reqs
      /\ Keys \subseteq Reqs /\ req[r].s \in Sessions /\ Refreshes \subseteq Keys
  BY ChoosingMade DEF Coded, Reqs, Keys, Made
<1>2. code \in [Sessions -> {"none", "saved", "spent"}]
  BY DEF Shape, TypeOK
<1>3. ticket[req[r].s] = "spent" /\ code[req[r].s] = "none"
  BY <1>1 DEF Turns, OneChoice, Coded
<1>4. \A c \in Choices \ {r} : /\ req'[c] = req[c] /\ (Choosing(c)' <=> Choosing(c))
                               /\ Choosing(c) => req[c].s # req[r].s
  BY <1>1 DEF Coded, Others, Choosing, Turns, OneChoice
<1>5. OneChoice'
  BY <1>1, <1>2, <1>3, <1>4 DEF Coded, Turns, OneChoice
<1>6. \A x \in Keys : req'[x] = req[x] /\ (Hand(x)' <=> Hand(x)) /\ (Fresh(x)' <=> Fresh(x))
  BY <1>1 DEF Coded, Others, Hand, Fresh
<1>7. \A x \in Keys, s \in Sessions : HasTurn(x, s)' => HasTurn(x, s) /\ s # req[r].s
  BY <1>3, <1>6 DEF HasTurn, Coded, Turns, OneHolder
<1>8. \A x \in Refreshes : Marking(x)' => Marking(x) /\ req'[x].k = req[x].k
  BY <1>1 DEF Coded, Others, Marking
<1>9. \A x : Fresh(x)' => Fresh(x)
  BY DEF Coded, Fresh
<1>10. OneHolder'
  BY <1>1, <1>2, <1>7, <1>8, <1>9 DEF Coded, Turns, OneHolder
<1> QED BY <1>5, <1>10 DEF Turns

\* An exchange takes the code.
LEMMA CodeTakenTurns ==
    ASSUME Shape, Turns, NEW r \in Reqs, CodeTaken(r)
    PROVE  Turns'
<1>1. /\ r \in Keys /\ r \notin Choices /\ Choices \subseteq Reqs /\ Refreshes \subseteq Reqs
      /\ Keys \subseteq Reqs /\ req[r].s \in Sessions /\ Refreshes \subseteq Keys
      /\ r \notin Refreshes
  BY SortsApart DEF CodeTaken, Reqs, Keys, Made
<1>2. code \in [Sessions -> {"none", "saved", "spent"}]
  BY DEF Shape, TypeOK
<1>3. \A c \in Choices : /\ req'[c] = req[c] /\ (Choosing(c)' <=> Choosing(c))
                         /\ Choosing(c) => req[c].s # req[r].s
  BY <1>1 DEF CodeTaken, Others, Choosing, Turns, OneChoice
<1>4. ticket[req[r].s] = "spent"
  BY <1>1 DEF CodeTaken, Turns, OneChoice
<1>5. OneChoice'
  BY <1>1, <1>2, <1>3, <1>4 DEF CodeTaken, Turns, OneChoice
<1>6. /\ \A x \in Keys \ {r} : req'[x] = req[x] /\ (Hand(x)' <=> Hand(x))
      /\ \A x \in Keys : Fresh(x)' <=> Fresh(x)
      /\ ~Fresh(r)
  BY <1>1 DEF CodeTaken, Others, Hand, Fresh, Drawn
<1>7. \A x \in Keys \ {r}, s \in Sessions : HasTurn(x, s)' => HasTurn(x, s) /\ s # req[r].s
  BY <1>1, <1>6 DEF HasTurn, CodeTaken, Turns, OneHolder
<1>8. \A s \in Sessions : HasTurn(r, s)' => s = req[r].s
  BY <1>1, <1>6 DEF HasTurn, CodeTaken
<1>9. \A x \in Refreshes : Marking(x)' => Marking(x) /\ req'[x].k = req[x].k
  BY <1>1 DEF CodeTaken, Others, Marking
<1>10. \A x : Fresh(x)' => Fresh(x)
  BY DEF CodeTaken, Fresh
<1>11. OneHolder'
  <2>1. ASSUME NEW s \in Sessions, NEW x \in Keys, HasTurn(x, s)' PROVE code'[s] = "spent"
    BY <1>1, <1>2, <1>7, <1>8, <2>1 DEF CodeTaken, Turns, OneHolder
  <2>2. ASSUME NEW s \in Sessions, NEW x \in Keys, NEW y \in Keys, HasTurn(x, s)', HasTurn(y, s)'
        PROVE  x = y
    BY <1>1, <1>7, <1>8, <2>2 DEF Turns, OneHolder
  <2>3. \A x \in Refreshes : Marking(x)' => ~Fresh(req[x].k)'
    BY <1>9, <1>10 DEF Turns, OneHolder
  <2> QED BY <2>1, <2>2, <2>3 DEF OneHolder
<1> QED BY <1>5, <1>11 DEF Turns

\* Moves of the turn among the requests and grants leave the choices alone.
LEMMA OneChoiceApart ==
    ASSUME Shape, OneChoice, NEW r \in Reqs \ Choices, Others(r), UNCHANGED <<ticket, code>>
    PROVE  OneChoice'
<1>1. ~Choosing(r)'
  BY DEF Choosing
<1> QED BY <1>1, OneChoiceFrame

\* The refresh that gets the token.
LEMMA TokenTakenTurns ==
    ASSUME Shape, Turns, NEW r \in Reqs, TokenTaken(r)
    PROVE  Turns'
<1>0. PICK k \in Keys : k = req[r].k
  BY DEF TokenTaken, Drawn
<1>1. /\ r \in Keys /\ r \notin Choices /\ Keys \subseteq Reqs /\ Refreshes \subseteq Keys
      /\ req[r].s \in Sessions /\ Drawn(k) /\ req'[r].k = k
  BY <1>0, SortsApart DEF TokenTaken, Reqs, Keys, Made
<1>2. OneChoice'
  BY <1>1, OneChoiceApart DEF Turns, TokenTaken
<1>3. /\ ~Fresh(k)' /\ Fresh(k) /\ k # r /\ ~Fresh(r)' /\ grant[k].s = req[r].s
      /\ \A x \in Keys : /\ grant'[x].s = grant[x].s
                         /\ x # k => (Fresh(x)' <=> Fresh(x))
  BY <1>0, <1>1, FreshRemoved DEF TokenTaken, Fresh, LiveGrant, Drawn
<1>4. \A x \in Keys \ {r} : req'[x] = req[x] /\ (Hand(x)' <=> Hand(x))
  BY <1>1 DEF TokenTaken, Others, Hand
<1>5. HasTurn(k, req[r].s)
  BY <1>3 DEF HasTurn
<1>6. ASSUME NEW x \in Keys \ {r}, NEW s \in Sessions, HasTurn(x, s)'
      PROVE  HasTurn(x, s) /\ s # req[r].s
  <2>1. HasTurn(x, s)
    BY <1>3, <1>4, <1>6 DEF HasTurn
  <2>2. CASE s = req[r].s
    <3>1. x = k
      BY <1>1, <1>5, <2>1, <2>2 DEF Turns, OneHolder
    <3>2. ~Hand(k)
      BY <1>1, HandMade DEF TokenTaken
    <3> QED BY <1>3, <1>4, <1>6, <3>1, <3>2 DEF HasTurn
  <2> QED BY <2>1, <2>2
<1>7. ASSUME NEW s \in Sessions, HasTurn(r, s)' PROVE s = req[r].s
  BY <1>3, <1>7 DEF HasTurn, TokenTaken
<1>8. ASSUME NEW x \in Refreshes, Marking(x)' PROVE ~Fresh(req[x].k)'
  <2>1. CASE x = r
    BY <1>0, <1>1, <1>3, <2>1
  <2>2. CASE x # r
    <3>1. Marking(x) /\ req'[x].k = req[x].k /\ ~Fresh(req[x].k)
      BY <1>1, <1>4, <1>8, <2>2 DEF Marking, Turns, OneHolder
    <3>2. req[x].k \in Keys
      BY <1>1, <3>1, MarkingMade DEF Drawn
    <3> QED BY <1>3, <3>1, <3>2
  <2> QED BY <2>1, <2>2
<1>9. OneHolder'
  <2>1. ASSUME NEW s \in Sessions, NEW x \in Keys, HasTurn(x, s)' PROVE code'[s] = "spent"
    BY <1>1, <1>5, <1>6, <1>7, <2>1 DEF TokenTaken, Turns, OneHolder
  <2>2. ASSUME NEW s \in Sessions, NEW x \in Keys, NEW y \in Keys, HasTurn(x, s)', HasTurn(y, s)'
        PROVE  x = y
    BY <1>1, <1>6, <1>7, <2>2 DEF Turns, OneHolder
  <2> QED BY <1>8, <2>1, <2>2 DEF OneHolder
<1> QED BY <1>2, <1>9 DEF Turns

\* Who has the turn draws the next token, and the turn lies in it.
LEMMA NextDrawnTurns ==
    ASSUME Shape, Turns, NEW r \in Reqs, NextDrawn(r)
    PROVE  Turns'
<1>1. /\ r \in Keys /\ r \notin Choices /\ Keys \subseteq Reqs /\ Refreshes \subseteq Keys
      /\ req[r].s \in Sessions /\ ~Drawn(r) /\ Hand(r)
  BY HandMade DEF NextDrawn, Reqs, Keys, Made
<1>2. OneChoice'
  BY <1>1, OneChoiceApart DEF Turns, NextDrawn
<1>3. /\ grant'[r].s = req[r].s /\ \A x \in Keys \ {r} : grant'[x] = grant[x] /\ (Fresh(x)' <=> Fresh(x))
  BY <1>1 DEF NextDrawn, Fresh, Shape, TypeOK
<1>4. \A x \in Keys \ {r} : req'[x] = req[x] /\ (Hand(x)' <=> Hand(x))
  BY <1>1 DEF NextDrawn, Others, Hand
<1>5. \A x \in Keys \ {r}, s \in Sessions : HasTurn(x, s)' => HasTurn(x, s)
  BY <1>3, <1>4 DEF HasTurn
<1>6. ASSUME NEW s \in Sessions, HasTurn(r, s)' PROVE HasTurn(r, s)
  BY <1>1, <1>3, <1>6 DEF HasTurn, NextDrawn
<1>7. ASSUME NEW x \in Refreshes, Marking(x)' PROVE ~Fresh(req[x].k)'
  <2>1. Marking(x) /\ req'[x].k = req[x].k /\ ~Fresh(req[x].k)
    <3>1. CASE x = r
      BY <1>1, <1>7, <3>1 DEF NextDrawn, Turns, OneHolder
    <3>2. CASE x # r
      BY <1>1, <1>4, <1>7, <3>2 DEF Marking, Turns, OneHolder
    <3> QED BY <3>1, <3>2
  <2>2. Drawn(req[x].k) /\ req[x].k # r /\ req[x].k \in Keys
    BY <1>1, <2>1, MarkingMade DEF Drawn
  <2> QED BY <1>3, <2>1, <2>2
<1>8. OneHolder'
  <2>1. \A x \in Keys, s \in Sessions : HasTurn(x, s)' => HasTurn(x, s)
    BY <1>5, <1>6
  <2> QED BY <1>7, <2>1 DEF OneHolder, Turns, NextDrawn
<1> QED BY <1>2, <1>8 DEF Turns

\* The mark on the used token.
LEMMA TokenMarkedTurns ==
    ASSUME Shape, Turns, NEW r \in Reqs, TokenMarked(r)
    PROVE  Turns'
<1>1. /\ r \in Keys /\ r \notin Choices /\ Drawn(req[r].k) /\ req[r].k \in Keys
      /\ grant[req[r].k].s = req[r].s
  BY MarkingMade DEF TokenMarked, Drawn
<1>2. OneChoice'
  BY <1>1, OneChoiceApart DEF Turns, TokenMarked
<1>3. \A x \in Keys : Fresh(x)' => Fresh(x) /\ grant'[x].s = grant[x].s
  BY <1>1 DEF TokenMarked, Fresh, Shape, TypeOK
<1>4. OneHolder'
  BY <1>3, OneHolderFrame DEF Turns, TokenMarked
<1> QED BY <1>2, <1>4 DEF Turns

\* A grant is removed.
LEMMA GrantLostTurns ==
    ASSUME Shape, Turns, NEW r \in Reqs, NEW k \in Keys, GrantLost(r, k)
    PROVE  Turns'
<1>1. OneChoice'
  BY OneChoiceApart DEF Turns, GrantLost
<1>2. \A x \in Keys : Fresh(x)' => Fresh(x) /\ grant'[x].s = grant[x].s
  BY FreshRemoved DEF GrantLost
<1>3. OneHolder'
  BY <1>2, OneHolderFrame DEF Turns, GrantLost
<1> QED BY <1>1, <1>3 DEF Turns

\* A session ends.
LEMMA SessionEndedTurns ==
    ASSUME Shape, Turns, NEW r \in Reqs, SessionEnded(r)
    PROVE  Turns'
<1>1. OneChoice'
  BY OneChoiceApart DEF Turns, SessionEnded
<1>2. \A x \in Keys : Fresh(x)' => Fresh(x) /\ grant'[x].s = grant[x].s
  BY DEF SessionEnded, Fresh
<1>3. OneHolder'
  BY <1>2, OneHolderFrame DEF Turns, SessionEnded
<1> QED BY <1>1, <1>3 DEF Turns

\* A sign-in makes its session and the page's ticket.
LEMMA AskTurns ==
    ASSUME Shape, Turns, NEW s \in Sessions, AskAssistant(s)
    PROVE  Turns'
<1>1. /\ UNCHANGED <<code, grant, req>> /\ ~Made(s) /\ ticket' = [ticket EXCEPT ![s] = "saved"]
      /\ ticket \in [Sessions -> {"none", "saved", "spent"}]
  BY DEF AskAssistant, Made, Shape, TypeOK
<1>2. \A x : /\ Hand(x)' <=> Hand(x)
             /\ Fresh(x)' <=> Fresh(x)
             /\ Choosing(x)' <=> Choosing(x)
             /\ Marking(x)' <=> Marking(x)
  BY <1>1 DEF Hand, Fresh, Choosing, Marking
<1>3. OneHolder'
  BY <1>1, <1>2 DEF Turns, OneHolder, HasTurn
<1>4. ticket[s] # "spent" /\ code[s] = "none"
  BY <1>1 DEF Shape, StoreOK
<1>5. \A c \in Choices : Choosing(c) => req[c].s # s
  BY <1>4 DEF Turns, OneChoice
<1>6. OneChoice'
  BY <1>1, <1>2, <1>4, <1>5 DEF Turns, OneChoice
<1> QED BY <1>3, <1>6 DEF Turns

\* The clock, and the register, move no turn.
LEMMA OutsideTurns ==
    ASSUME Turns, UNCHANGED <<ticket, code, grant, req>>
    PROVE  Turns'
<1>1. \A x : /\ Hand(x)' <=> Hand(x)
             /\ Fresh(x)' <=> Fresh(x)
             /\ Choosing(x)' <=> Choosing(x)
             /\ Marking(x)' <=> Marking(x)
  BY DEF Hand, Fresh, Choosing, Marking
<1> QED BY <1>1 DEF Turns, OneChoice, OneHolder, HasTurn

LEMMA TurnsInit == Init => Turns
BY DEF Init, Blank, Turns, OneChoice, OneHolder, HasTurn, Hand, Fresh, Choosing, Marking, Reqs, Keys

LEMMA TurnsStep == Shape /\ Turns /\ [Next]_vars => Turns'
<1> SUFFICES ASSUME Shape, Turns, [Next]_vars PROVE Turns'
  OBVIOUS
<1>1. CASE UNCHANGED vars
  BY <1>1, OutsideTurns DEF vars
<1>2. ASSUME NEW r \in Reqs, Step(r) PROVE Turns'
  BY <1>2, StepKinds, CalmTurns, TicketTakenTurns, CodedTurns, CodeTakenTurns, TokenTakenTurns,
     NextDrawnTurns, TokenMarkedTurns, GrantLostTurns, SessionEndedTurns
<1>3. ASSUME NEW r \in Reqs, Arrive(r) PROVE Turns'
  BY <1>3, ArriveCalm, CalmTurns
<1>4. ASSUME NEW s \in Sessions, Expire(s) PROVE Turns'
  BY <1>4, OutsideTurns DEF Expire
<1>5. CASE RemoveAssistant
  BY <1>5, OutsideTurns DEF RemoveAssistant, storeVars
<1> QED BY <1>1, <1>2, <1>3, <1>4, <1>5, AskTurns DEF Next

\* Two grants that can be renewed would both have the turn.
LEMMA TurnsNoFork == Turns => NoFork
<1> SUFFICES ASSUME Turns, NEW s \in Sessions
             PROVE  Cardinality({k \in Keys : grant[k].s = s /\ grant[k].st = "live"
                                                 /\ ~grant[k].rotated}) <= 1
  BY DEF NoFork
<1> DEFINE F == {k \in Keys : grant[k].s = s /\ grant[k].st = "live" /\ ~grant[k].rotated}
<1>1. \A x, y \in F : x = y
  BY DEF Turns, OneHolder, HasTurn, Fresh
<1>2. CASE F = {}
  BY <1>2, FS_EmptySet
<1>3. CASE F # {}
  <2>1. PICK x : x \in F
    BY <1>3
  <2>2. F = {x}
    BY <1>1, <2>1
  <2> HIDE DEF F
  <2>3. Cardinality(F) = 1
    BY <2>2, FS_Singleton
  <2> QED BY <2>3 DEF F
<1> QED BY <1>2, <1>3

\* "A token raced by its thief never forks the connection into two live chains"
\* (appRefresh), for any number of apps, thieves and revocations racing with the
\* same tokens, and whatever store calls fail.
THEOREM NeverForks == Spec => []NoFork
<1>1. Spec => [](Shape /\ Turns)
  BY ShapeInit, ShapeStep, TurnsInit, TurnsStep, PTL DEF Spec
<1> QED BY <1>1, TurnsNoFork, PTL

-----------------------------------------------------------------------------
(* AppConnection implements TokenChain.                                     *)

Held(r, s) == Hand(r) /\ req[r].s = s
Kept(k, s) == Fresh(k) /\ grant[k].s = s /\ Lasts(s)

\* Where the turn of s lies, told from the code, the requests and the grants.
TurnFacts(s) ==
    /\ code[s] = "none" => TurnOf(s) = [at |-> "none", by |-> None]
    /\ code[s] = "saved" => TurnOf(s) = [at |-> "code", by |-> None]
    /\ \A r \in Keys : Held(r, s) => code[s] = "spent" /\ TurnOf(s) = [at |-> "hand", by |-> r]
    /\ \A k \in Keys : Kept(k, s) => code[s] = "spent" /\ TurnOf(s) = [at |-> "token", by |-> k]
    /\ (/\ code[s] = "spent"
        /\ \A r \in Keys : ~Held(r, s)
        /\ \A k \in Keys : ~Kept(k, s)) => TurnOf(s) = [at |-> "lost", by |-> None]

TurnsTold == \A s \in Sessions : TurnFacts(s)

LEMMA TurnWhere == Shape /\ Turns => TurnsTold
<1> SUFFICES ASSUME Shape, Turns, NEW s \in Sessions PROVE TurnFacts(s)
  BY DEF TurnsTold
<1>1. \A r \in Keys : r \in InHand(s) <=> Held(r, s)
  BY DEF InHand, Held, Hand
<1>2. \A k \in Keys : k \in Renewable(s) <=> Kept(k, s)
  BY DEF Renewable, Kept, Fresh, LiveGrant
<1>3. InHand(s) \subseteq Keys /\ Renewable(s) \subseteq Keys
  BY DEF InHand, Renewable
<1>4. \A r \in Keys : Held(r, s) \/ Kept(r, s) => code[s] = "spent"
  BY DEF Held, Kept, HasTurn, Turns, OneHolder
<1>5. ASSUME NEW r \in Keys, Held(r, s)
      PROVE  TurnOf(s) = [at |-> "hand", by |-> r]
  <2>1. \A k \in Keys : ~Kept(k, s)
    <3> SUFFICES ASSUME NEW k \in Keys, Kept(k, s) PROVE FALSE
      OBVIOUS
    <3>1. k = r
      BY <1>5 DEF Held, Kept, HasTurn, Turns, OneHolder
    <3>2. ~Drawn(r)
      BY <1>5, HandMade DEF Held, Reqs
    <3> QED BY <3>1, <3>2 DEF Kept, Fresh, Drawn
  <2>2. Renewable(s) = {}
    BY <1>2, <1>3, <2>1
  <2>3. InHand(s) = {r}
    BY <1>1, <1>3, <1>5 DEF Held, HasTurn, Turns, OneHolder
  <2>4. (CHOOSE x \in {r} : TRUE) = r
    OBVIOUS
  <2> QED BY <1>4, <1>5, <2>2, <2>3, <2>4 DEF TurnOf
<1>6. ASSUME NEW k \in Keys, Kept(k, s)
      PROVE  TurnOf(s) = [at |-> "token", by |-> k]
  <2>1. Renewable(s) = {k}
    BY <1>2, <1>3, <1>6 DEF Kept, HasTurn, Turns, OneHolder
  <2>2. (CHOOSE x \in {k} : TRUE) = k
    OBVIOUS
  <2> QED BY <1>4, <1>6, <2>1, <2>2 DEF TurnOf
<1>7. ASSUME \A r \in Keys : ~Held(r, s), \A k \in Keys : ~Kept(k, s)
      PROVE  InHand(s) = {} /\ Renewable(s) = {}
  BY <1>1, <1>2, <1>3, <1>7
<1>8. code[s] = "none" => TurnOf(s) = [at |-> "none", by |-> None]
  BY <1>4, <1>7 DEF TurnOf
<1>9. code[s] = "saved" => TurnOf(s) = [at |-> "code", by |-> None]
  BY DEF TurnOf
<1>10. (/\ code[s] = "spent"
        /\ \A r \in Keys : ~Held(r, s)
        /\ \A k \in Keys : ~Kept(k, s)) => TurnOf(s) = [at |-> "lost", by |-> None]
  BY <1>7 DEF TurnOf
<1> QED BY <1>4, <1>5, <1>6, <1>8, <1>9, <1>10 DEF TurnFacts

LEMMA TurnWhereNext == Shape' /\ Turns' => TurnsTold'
BY TurnWhere, PTL

\* A turn that nothing touches stays where it is.
LEMMA TurnSame ==
    ASSUME Shape, NEW s \in Sessions, TurnFacts(s), TurnFacts(s)', code'[s] = code[s],
           \A r \in Keys : Held(r, s)' <=> Held(r, s),
           \A k \in Keys : Kept(k, s)' <=> Kept(k, s)
    PROVE  TurnOf(s)' = TurnOf(s)
<1>1. code[s] \in {"none", "saved", "spent"}
  BY DEF Shape, TypeOK
<1> QED BY <1>1 DEF TurnFacts

\* The states of TokenChain.
StatusOf(s) == IF sess[s].st \in {"gone", "over"} THEN "ended" ELSE sess[s].st

SameDrawn == \A k \in Keys : Drawn(k)' <=> Drawn(k)

LEMMA ChainLoses ==
    ASSUME NEW s \in Sessions, TurnOf(s).at \in {"code", "hand", "token"},
           TurnOf(s)' = [at |-> "lost", by |-> None],
           \A x \in Sessions \ {s} : TurnOf(x)' = TurnOf(x),
           \A x \in Sessions : StatusOf(x)' = StatusOf(x), SameDrawn
    PROVE  [Chain!Next]_(Chain!vars)
<1>1. Chain!Lose(s)
  BY DEF Chain!Lose, Chain!Lies, StatusOf, SameDrawn, Drawn
<1> QED BY <1>1 DEF Chain!Next

LEMMA ChainStutters ==
    ASSUME \A x \in Sessions : TurnOf(x)' = TurnOf(x),
           \A x \in Sessions : StatusOf(x)' = StatusOf(x), SameDrawn
    PROVE  [Chain!Next]_(Chain!vars)
BY DEF Chain!vars, StatusOf, SameDrawn, Drawn

LEMMA ChainOffers ==
    ASSUME NEW s \in Sessions, TurnOf(s).at = "none",
           TurnOf(s)' = [at |-> "code", by |-> None],
           \A x \in Sessions \ {s} : TurnOf(x)' = TurnOf(x),
           \A x \in Sessions : StatusOf(x)' = StatusOf(x), SameDrawn
    PROVE  [Chain!Next]_(Chain!vars)
<1>1. Chain!Offer(s)
  BY DEF Chain!Offer, Chain!Lies, StatusOf, SameDrawn, Drawn
<1> QED BY <1>1 DEF Chain!Next

LEMMA ChainTakes ==
    ASSUME NEW s \in Sessions, NEW r \in Keys, TurnOf(s).at \in {"code", "token"}, ~Drawn(r),
           TurnOf(s)' = [at |-> "hand", by |-> r],
           \A x \in Sessions \ {s} : TurnOf(x)' = TurnOf(x),
           \A x \in Sessions : StatusOf(x)' = StatusOf(x), SameDrawn
    PROVE  [Chain!Next]_(Chain!vars)
<1>1. Chain!Take(s, r)
  BY DEF Chain!Take, Chain!Lies, StatusOf, SameDrawn, Drawn
<1> QED BY <1>1 DEF Chain!Next

LEMMA ChainDraws ==
    ASSUME NEW s \in Sessions, NEW r \in Keys, TurnOf(s) = [at |-> "hand", by |-> r], ~Drawn(r),
           TurnOf(s)' = [at |-> "token", by |-> r],
           \A x \in Sessions \ {s} : TurnOf(x)' = TurnOf(x),
           \A x \in Sessions : StatusOf(x)' = StatusOf(x),
           \A k \in Keys : Drawn(k)' <=> Drawn(k) \/ k = r
    PROVE  [Chain!Next]_(Chain!vars)
<1>1. Chain!Draw(s, r)
  BY DEF Chain!Draw, Chain!Lies, StatusOf, Drawn
<1> QED BY <1>1 DEF Chain!Next

LEMMA ChainBegins ==
    ASSUME NEW s \in Sessions, StatusOf(s) = "none", StatusOf(s)' = "live",
           \A x \in Sessions : TurnOf(x)' = TurnOf(x),
           \A x \in Sessions \ {s} : StatusOf(x)' = StatusOf(x), SameDrawn
    PROVE  [Chain!Next]_(Chain!vars)
<1>1. Chain!Begin(s)
  BY DEF Chain!Begin, StatusOf, SameDrawn, Drawn
<1> QED BY <1>1 DEF Chain!Next

LEMMA ChainEnds ==
    ASSUME NEW s \in Sessions, StatusOf(s) = "live", StatusOf(s)' = "ended",
           \/ TurnOf(s)' = TurnOf(s)
           \/ TurnOf(s).at = "token" /\ TurnOf(s)' = [at |-> "lost", by |-> None],
           \A x \in Sessions \ {s} : TurnOf(x)' = TurnOf(x),
           \A x \in Sessions \ {s} : StatusOf(x)' = StatusOf(x), SameDrawn
    PROVE  [Chain!Next]_(Chain!vars)
<1>1. Chain!End(s)
  BY DEF Chain!End, Chain!Lies, StatusOf, SameDrawn, Drawn
<1> QED BY <1>1 DEF Chain!Next

\* The turns of the connections a step does not touch.
LEMMA RestSame ==
    ASSUME Shape, TurnsTold, TurnsTold', NEW T \in SUBSET Sessions,
           \A s \in T : code'[s] = code[s],
           \A s \in T : \A k \in Keys : (Held(k, s)' <=> Held(k, s)) /\ (Kept(k, s)' <=> Kept(k, s))
    PROVE  \A s \in T : TurnOf(s)' = TurnOf(s)
<1> SUFFICES ASSUME NEW s \in T PROVE TurnOf(s)' = TurnOf(s)
  OBVIOUS
<1>1. s \in Sessions /\ TurnFacts(s) /\ TurnFacts(s)'
  BY DEF TurnsTold
<1> QED BY <1>1, TurnSame

\* A step by which the holder z of the turn of t loses it.
LEMMA LossAt ==
    ASSUME Shape, TurnsTold, TurnsTold', NEW t \in Sessions, NEW z \in Keys, UNCHANGED code,
           Held(z, t) \/ Kept(z, t), ~Held(z, t)', ~Kept(z, t)',
           \A k \in Keys : (Held(k, t)' => Held(k, t)) /\ (Kept(k, t)' => Kept(k, t))
    PROVE  TurnOf(t).at \in {"hand", "token"} /\ TurnOf(t)' = [at |-> "lost", by |-> None]
<1>1. TurnFacts(t) /\ TurnFacts(t)'
  BY DEF TurnsTold
<1>2. code[t] = "spent" /\ TurnOf(t).at \in {"hand", "token"} /\ TurnOf(t).by = z
  BY <1>1 DEF TurnFacts
<1>3. ASSUME NEW k \in Keys PROVE ~Held(k, t)' /\ ~Kept(k, t)'
  <2>1. Held(k, t) \/ Kept(k, t) => TurnOf(t).by = k
    BY <1>1 DEF TurnFacts
  <2> QED BY <1>2, <2>1
<1> QED BY <1>1, <1>2, <1>3 DEF TurnFacts

\* The status TokenChain sees, and what it has seen drawn.
LEMMA StatusSame ==
    ASSUME SameStatus
    PROVE  \A s \in Sessions : StatusOf(s)' = StatusOf(s) /\ (Lasts(s)' <=> Lasts(s))
BY DEF SameStatus, StatusOf, Lasts

LEMMA CalmImplements ==
    ASSUME Shape, Turns, TurnsTold, TurnsTold', NEW r \in Reqs, Calm(r)
    PROVE  [Chain!Next]_(Chain!vars)
<1>1. \A s \in Sessions : StatusOf(s)' = StatusOf(s) /\ (Lasts(s)' <=> Lasts(s))
  BY StatusSame DEF Calm
<1>2. SameDrawn /\ \A s \in Sessions, k \in Keys : Kept(k, s)' <=> Kept(k, s)
  BY <1>1 DEF Calm, SameDrawn, Drawn, Kept, Fresh
<1>3. \A x \in Keys \ {r} : \A s \in Sessions : Held(x, s)' <=> Held(x, s)
  BY DEF Calm, Others, Held, Hand, Reqs
<1>4. CASE Hand(r) /\ ~Hand(r)'
  <2>1. PICK t \in Sessions : t = req[r].s
    BY <1>4, HandMade DEF Made
  <2>2. r \in Keys /\ Held(r, t) /\ \A s \in Sessions : ~Held(r, s)' /\ (Held(r, s) => s = t)
    BY <1>4, <2>1 DEF Held, Hand
  <2>3. TurnOf(t).at \in {"hand", "token"} /\ TurnOf(t)' = [at |-> "lost", by |-> None]
    <3>1. ~Kept(r, t)'
      BY <1>2, <2>1, <1>4, HandMade DEF Kept, Fresh, Drawn
    <3> QED BY <1>2, <1>3, <2>2, <3>1, LossAt DEF Calm
  <2>4. \A s \in Sessions \ {t} : TurnOf(s)' = TurnOf(s)
    BY <1>2, <1>3, <2>2, RestSame DEF Calm
  <2> QED BY <1>1, <1>2, <2>3, <2>4, ChainLoses
<1>5. CASE Hand(r)' \/ ~Hand(r)
  <2>1. \A x \in Keys : \A s \in Sessions : Held(x, s)' <=> Held(x, s)
    BY <1>3, <1>5 DEF Calm, Held
  <2>2. \A s \in Sessions : TurnOf(s)' = TurnOf(s)
    BY <1>2, <2>1, RestSame DEF Calm
  <2> QED BY <1>1, <1>2, <2>2, ChainStutters
<1> QED BY <1>4, <1>5

LEMMA TicketTakenImplements ==
    ASSUME Shape, Turns, TurnsTold, TurnsTold', NEW r \in Reqs, TicketTaken(r)
    PROVE  [Chain!Next]_(Chain!vars)
<1>1. \A s \in Sessions : StatusOf(s)' = StatusOf(s) /\ (Lasts(s)' <=> Lasts(s))
  BY StatusSame DEF TicketTaken
<1>2. SameDrawn /\ \A s \in Sessions, k \in Keys : Kept(k, s)' <=> Kept(k, s)
  BY <1>1 DEF TicketTaken, SameDrawn, Drawn, Kept, Fresh
<1>3. \A x \in Keys : \A s \in Sessions : Held(x, s)' <=> Held(x, s)
  BY SortsApart DEF TicketTaken, Others, Held, Hand, Reqs
<1>4. \A s \in Sessions : TurnOf(s)' = TurnOf(s)
  BY <1>2, <1>3, RestSame DEF TicketTaken
<1> QED BY <1>1, <1>2, <1>4, ChainStutters

LEMMA CodedImplements ==
    ASSUME Shape, Turns, TurnsTold, TurnsTold', NEW r \in Reqs, Coded(r)
    PROVE  [Chain!Next]_(Chain!vars)
<1>0. PICK t \in Sessions : t = req[r].s
  BY ChoosingMade DEF Coded, Made
<1>1. \A s \in Sessions : StatusOf(s)' = StatusOf(s) /\ (Lasts(s)' <=> Lasts(s))
  BY StatusSame DEF Coded
<1>2. SameDrawn /\ \A s \in Sessions, k \in Keys : Kept(k, s)' <=> Kept(k, s)
  BY <1>1 DEF Coded, SameDrawn, Drawn, Kept, Fresh
<1>3. \A x \in Keys : \A s \in Sessions : Held(x, s)' <=> Held(x, s)
  BY ChoosingMade DEF Coded, Others, Held, Hand, Reqs
<1>4. /\ code[t] = "none" /\ code'[t] = "saved"
      /\ \A s \in Sessions \ {t} : code'[s] = code[s]
  BY <1>0, ChoosingMade DEF Coded, Turns, OneChoice, Shape, TypeOK
<1>5. \A s \in Sessions \ {t} : TurnOf(s)' = TurnOf(s)
  BY <1>2, <1>3, <1>4, RestSame
<1>6. TurnOf(t).at = "none" /\ TurnOf(t)' = [at |-> "code", by |-> None]
  BY <1>4 DEF TurnsTold, TurnFacts
<1> QED BY <1>1, <1>2, <1>5, <1>6, ChainOffers

LEMMA CodeTakenImplements ==
    ASSUME Shape, Turns, TurnsTold, TurnsTold', NEW r \in Reqs, CodeTaken(r)
    PROVE  [Chain!Next]_(Chain!vars)
<1>0. PICK t \in Sessions : t = req[r].s
  BY DEF CodeTaken, Made
<1>1. \A s \in Sessions : StatusOf(s)' = StatusOf(s) /\ (Lasts(s)' <=> Lasts(s))
  BY StatusSame DEF CodeTaken
<1>2. SameDrawn /\ \A s \in Sessions, k \in Keys : Kept(k, s)' <=> Kept(k, s)
  BY <1>1 DEF CodeTaken, SameDrawn, Drawn, Kept, Fresh
<1>3. \A x \in Keys \ {r} : \A s \in Sessions : Held(x, s)' <=> Held(x, s)
  BY DEF CodeTaken, Others, Held, Hand, Reqs
<1>4. /\ code[t] = "saved" /\ code'[t] = "spent" /\ r \in Keys
      /\ \A s \in Sessions \ {t} : code'[s] = code[s]
      /\ \A s \in Sessions : ~Held(r, s) /\ (Held(r, s)' => s = t)
  BY <1>0, SortsApart DEF CodeTaken, Shape, TypeOK, Held
<1>5. \A s \in Sessions \ {t} : TurnOf(s)' = TurnOf(s)
  BY <1>2, <1>3, <1>4, RestSame
<1>6. TurnFacts(t) /\ TurnFacts(t)' /\ TurnOf(t).at = "code"
  BY <1>4 DEF TurnsTold, TurnFacts
<1>7. CASE Held(r, t)'
  <2>1. TurnOf(t)' = [at |-> "hand", by |-> r] /\ ~Drawn(r)
    BY <1>4, <1>6, <1>7 DEF TurnFacts, CodeTaken
  <2> QED BY <1>1, <1>2, <1>4, <1>5, <1>6, <2>1, ChainTakes
<1>8. CASE ~Held(r, t)'
  <2>1. \A k \in Keys : ~Held(k, t)' /\ ~Kept(k, t)'
    BY <1>2, <1>3, <1>4, <1>6, <1>8 DEF TurnFacts
  <2>2. TurnOf(t)' = [at |-> "lost", by |-> None]
    BY <1>4, <1>6, <2>1 DEF TurnFacts
  <2> QED BY <1>1, <1>2, <1>5, <1>6, <2>2, ChainLoses
<1> QED BY <1>7, <1>8

LEMMA TokenTakenImplements ==
    ASSUME Shape, Turns, TurnsTold, TurnsTold', NEW r \in Reqs, TokenTaken(r)
    PROVE  [Chain!Next]_(Chain!vars)
<1>0. PICK t \in Sessions, k \in Keys : t = req[r].s /\ k = req[r].k
  BY DEF TokenTaken, Made, Drawn
<1>1. \A s \in Sessions : StatusOf(s)' = StatusOf(s) /\ (Lasts(s)' <=> Lasts(s))
  BY StatusSame DEF TokenTaken
<1>2. \A x \in Keys \ {r} : \A s \in Sessions : Held(x, s)' <=> Held(x, s)
  BY DEF TokenTaken, Others, Held, Hand, Reqs
<1>3. /\ r \in Keys /\ Held(r, t)' /\ ~Drawn(r) /\ Kept(k, t)
      /\ \A s \in Sessions : ~Held(r, s) /\ (Held(r, s)' => s = t)
  BY <1>0, SortsApart DEF TokenTaken, Held, Kept, Fresh, LiveGrant
<1>4. ~Fresh(k)' /\ \A x \in Keys : /\ grant'[x].s = grant[x].s
                                    /\ x # k => (Fresh(x)' <=> Fresh(x))
  BY <1>0, FreshRemoved DEF TokenTaken
<1>5. /\ \A s \in Sessions : ~Kept(k, s)' /\ (Kept(k, s) => s = t)
      /\ \A x \in Keys \ {k} : \A s \in Sessions : Kept(x, s)' <=> Kept(x, s)
  BY <1>1, <1>3, <1>4 DEF Kept
<1>6. SameDrawn
  BY <1>0 DEF TokenTaken, SameDrawn, Drawn, Shape, TypeOK, Grant
<1>7. \A s \in Sessions \ {t} : TurnOf(s)' = TurnOf(s)
  <2>1. \A s \in Sessions \ {t}, x \in Keys :
            (Held(x, s)' <=> Held(x, s)) /\ (Kept(x, s)' <=> Kept(x, s))
    BY <1>2, <1>3, <1>5
  <2> QED BY <2>1, RestSame DEF TokenTaken
<1>8. TurnOf(t).at = "token" /\ TurnOf(t)' = [at |-> "hand", by |-> r]
  BY <1>3 DEF TurnsTold, TurnFacts
<1> QED BY <1>1, <1>3, <1>6, <1>7, <1>8, ChainTakes

LEMMA NextDrawnImplements ==
    ASSUME Shape, Turns, TurnsTold, TurnsTold', NEW r \in Reqs, NextDrawn(r)
    PROVE  [Chain!Next]_(Chain!vars)
<1>0. PICK t \in Sessions : t = req[r].s
  BY HandMade DEF NextDrawn, Made
<1>1. \A s \in Sessions : StatusOf(s)' = StatusOf(s) /\ (Lasts(s)' <=> Lasts(s))
  BY StatusSame DEF NextDrawn
<1>2. \A x \in Keys \ {r} : \A s \in Sessions : Held(x, s)' <=> Held(x, s)
  BY DEF NextDrawn, Others, Held, Hand, Reqs
<1>3. /\ r \in Keys /\ Held(r, t) /\ ~Drawn(r) /\ Lasts(t)
      /\ \A s \in Sessions : ~Held(r, s)' /\ (Held(r, s) => s = t)
  BY <1>0, HandMade DEF NextDrawn, Held, Hand
<1>4. /\ grant'[r] = [st |-> "live", s |-> t, rotated |-> FALSE]
      /\ \A x \in Keys \ {r} : grant'[x] = grant[x]
  BY <1>0, <1>3 DEF NextDrawn, Shape, TypeOK
<1>5. /\ Kept(r, t)' /\ \A s \in Sessions : ~Kept(r, s) /\ (Kept(r, s)' => s = t)
      /\ \A x \in Keys \ {r} : \A s \in Sessions : Kept(x, s)' <=> Kept(x, s)
  BY <1>1, <1>3, <1>4 DEF Kept, Fresh, Drawn
<1>6. \A x \in Keys : Drawn(x)' <=> Drawn(x) \/ x = r
  BY <1>4 DEF Drawn
<1>7. \A s \in Sessions \ {t} : TurnOf(s)' = TurnOf(s)
  <2>1. \A s \in Sessions \ {t}, x \in Keys :
            (Held(x, s)' <=> Held(x, s)) /\ (Kept(x, s)' <=> Kept(x, s))
    BY <1>2, <1>3, <1>5
  <2> QED BY <2>1, RestSame DEF NextDrawn
<1>8. TurnOf(t) = [at |-> "hand", by |-> r] /\ TurnOf(t)' = [at |-> "token", by |-> r]
  BY <1>3, <1>5 DEF TurnsTold, TurnFacts
<1> QED BY <1>1, <1>3, <1>6, <1>7, <1>8, ChainDraws

\* The token marked used was taken: its turn has gone on.
LEMMA TokenMarkedImplements ==
    ASSUME Shape, Turns, TurnsTold, TurnsTold', NEW r \in Reqs, TokenMarked(r)
    PROVE  [Chain!Next]_(Chain!vars)
<1>0. PICK k \in Keys : k = req[r].k
  BY MarkingMade DEF TokenMarked, Drawn
<1>1. \A s \in Sessions : StatusOf(s)' = StatusOf(s) /\ (Lasts(s)' <=> Lasts(s))
  BY StatusSame DEF TokenMarked
<1>2. \A x \in Keys, s \in Sessions : Held(x, s)' <=> Held(x, s)
  BY DEF TokenMarked, Others, Held, Hand, Reqs
<1>3. /\ Drawn(k) /\ ~Fresh(k) /\ grant'[k] = [st |-> "live", s |-> req[r].s, rotated |-> TRUE]
      /\ \A x \in Keys \ {k} : grant'[x] = grant[x]
  BY <1>0, MarkingMade DEF TokenMarked, Turns, OneHolder, Marking, Shape, TypeOK
<1>4. SameDrawn /\ \A x \in Keys, s \in Sessions : Kept(x, s)' <=> Kept(x, s)
  BY <1>1, <1>3 DEF SameDrawn, Drawn, Kept, Fresh
<1>5. \A s \in Sessions : TurnOf(s)' = TurnOf(s)
  BY <1>2, <1>4, RestSame DEF TokenMarked
<1> QED BY <1>1, <1>4, <1>5, ChainStutters

LEMMA GrantLostImplements ==
    ASSUME Shape, Turns, TurnsTold, TurnsTold', NEW r \in Reqs, NEW k \in Keys, GrantLost(r, k)
    PROVE  [Chain!Next]_(Chain!vars)
<1>1. \A s \in Sessions : StatusOf(s)' = StatusOf(s) /\ (Lasts(s)' <=> Lasts(s))
  BY StatusSame DEF GrantLost
<1>2. \A x \in Keys, s \in Sessions : Held(x, s)' <=> Held(x, s)
  BY DEF GrantLost, Others, Held, Hand, Reqs
<1>3. ~Fresh(k)' /\ \A x \in Keys : /\ grant'[x].s = grant[x].s
                                    /\ x # k => (Fresh(x)' <=> Fresh(x))
  BY FreshRemoved DEF GrantLost
<1>4. /\ \A s \in Sessions : ~Kept(k, s)'
      /\ \A x \in Keys \ {k} : \A s \in Sessions : Kept(x, s)' <=> Kept(x, s)
  BY <1>1, <1>3 DEF Kept
<1>5. SameDrawn
  BY DEF GrantLost, SameDrawn, Drawn, Shape, TypeOK, Grant
<1>6. CASE \E t \in Sessions : Kept(k, t)
  <2>1. PICK t \in Sessions : Kept(k, t)
    BY <1>6
  <2>2. ~Held(k, t) /\ \A s \in Sessions \ {t} : ~Kept(k, s)
    BY <2>1, HandMade DEF Kept, Fresh, Held, Drawn, Reqs
  <2>3. TurnOf(t).at \in {"hand", "token"} /\ TurnOf(t)' = [at |-> "lost", by |-> None]
    BY <1>2, <1>4, <2>1, <2>2, LossAt DEF GrantLost
  <2>4. \A s \in Sessions \ {t} : TurnOf(s)' = TurnOf(s)
    <3>1. \A s \in Sessions \ {t}, x \in Keys : Kept(x, s)' <=> Kept(x, s)
      BY <1>4, <2>2
    <3> QED BY <1>2, <3>1, RestSame DEF GrantLost
  <2> QED BY <1>1, <1>5, <2>3, <2>4, ChainLoses
<1>7. CASE \A t \in Sessions : ~Kept(k, t)
  <2>1. \A x \in Keys, s \in Sessions : Kept(x, s)' <=> Kept(x, s)
    BY <1>4, <1>7
  <2>2. \A s \in Sessions : TurnOf(s)' = TurnOf(s)
    BY <1>2, <2>1, RestSame DEF GrantLost
  <2> QED BY <1>1, <1>5, <2>2, ChainStutters
<1> QED BY <1>6, <1>7

\* The session ends, and its token outlives it until its lifetime is over.
LEMMA SessionEndedImplements ==
    ASSUME Shape, Turns, TurnsTold, TurnsTold', NEW r \in Reqs, SessionEnded(r)
    PROVE  [Chain!Next]_(Chain!vars)
<1>0. PICK t \in Sessions : t = req[r].s
  BY DEF SessionEnded, Made
<1>1. /\ sess'[t].st = IF Lasts(t) THEN "gone" ELSE "over"
      /\ sess[t].st \in {"live", "gone", "over"}
      /\ \A s \in Sessions \ {t} : sess'[s] = sess[s]
  BY <1>0 DEF SessionEnded, Made, Shape, TypeOK, Session, Status
<1>2. \A s \in Sessions : Lasts(s)' <=> Lasts(s)
  BY <1>1 DEF Lasts
<1>3. SameDrawn /\ \A x \in Keys, s \in Sessions : Kept(x, s)' <=> Kept(x, s)
  BY <1>2 DEF SessionEnded, SameDrawn, Drawn, Kept, Fresh
<1>4. \A x \in Keys, s \in Sessions : Held(x, s)' <=> Held(x, s)
  BY DEF SessionEnded, Others, Held, Hand, Reqs
<1>5. \A s \in Sessions : TurnOf(s)' = TurnOf(s)
  BY <1>3, <1>4, RestSame DEF SessionEnded
<1>6. \A s \in Sessions \ {t} : StatusOf(s)' = StatusOf(s)
  BY <1>1 DEF StatusOf
<1>7. CASE sess[t].st = "live"
  <2>1. StatusOf(t) = "live" /\ StatusOf(t)' = "ended"
    BY <1>1, <1>7 DEF StatusOf
  <2> QED BY <1>3, <1>5, <1>6, <2>1, ChainEnds
<1>8. CASE sess[t].st # "live"
  <2>1. StatusOf(t)' = StatusOf(t)
    BY <1>1, <1>8 DEF StatusOf, Lasts
  <2> QED BY <1>3, <1>5, <1>6, <2>1, ChainStutters
<1> QED BY <1>7, <1>8

\* A step of no request: it keeps the code, the grants and the requests.
LEMMA OutsideSame ==
    ASSUME UNCHANGED <<code, grant, req>>
    PROVE  /\ SameDrawn
           /\ \A x \in Keys, s \in Sessions : Held(x, s)' <=> Held(x, s)
           /\ \A x \in Keys, s \in Sessions :
                  (Lasts(s)' <=> Lasts(s)) => (Kept(x, s)' <=> Kept(x, s))
BY DEF SameDrawn, Drawn, Held, Hand, Kept, Fresh

LEMMA AskImplements ==
    ASSUME Shape, Turns, TurnsTold, TurnsTold', NEW s \in Sessions, AskAssistant(s)
    PROVE  [Chain!Next]_(Chain!vars)
<1>1. /\ UNCHANGED <<code, grant, req>> /\ sess[s].st = "none" /\ sess'[s].st = "live"
      /\ \A x \in Sessions \ {s} : sess'[x] = sess[x]
  BY DEF AskAssistant, Shape, TypeOK, Session
<1>2. \A x \in Sessions : Lasts(x)' <=> Lasts(x)
  BY <1>1 DEF Lasts
<1>3. \A x \in Sessions : TurnOf(x)' = TurnOf(x)
  BY <1>1, <1>2, OutsideSame, RestSame
<1>4. /\ StatusOf(s) = "none" /\ StatusOf(s)' = "live"
      /\ \A x \in Sessions \ {s} : StatusOf(x)' = StatusOf(x)
  BY <1>1 DEF StatusOf
<1> QED BY <1>1, <1>3, <1>4, OutsideSame, ChainBegins

\* The lifetime ends: of a live connection, which ends and loses its token; or
\* of one that ended, whose token goes now.
LEMMA ExpireImplements ==
    ASSUME Shape, Turns, TurnsTold, TurnsTold', NEW t \in Sessions, Expire(t)
    PROVE  [Chain!Next]_(Chain!vars)
<1>1. /\ UNCHANGED <<code, grant, req>> /\ sess[t].st \in {"live", "gone"} /\ sess'[t].st = "over"
      /\ \A x \in Sessions \ {t} : sess'[x] = sess[x]
  BY DEF Expire, Shape, TypeOK, Session
<1>2. ~Lasts(t)' /\ \A x \in Sessions \ {t} : Lasts(x)' <=> Lasts(x)
  BY <1>1 DEF Lasts
<1>3. \A s \in Sessions \ {t} : TurnOf(s)' = TurnOf(s)
  BY <1>1, <1>2, OutsideSame, RestSame
<1>4. StatusOf(t)' = "ended" /\ \A x \in Sessions \ {t} : StatusOf(x)' = StatusOf(x)
  BY <1>1 DEF StatusOf
<1>5. SameDrawn /\ \A x \in Keys : ~Kept(x, t)' /\ (Held(x, t)' <=> Held(x, t))
  BY <1>1, <1>2, OutsideSame DEF Kept
<1>6. CASE \E k \in Keys : Kept(k, t)
  <2>1. PICK k \in Keys : Kept(k, t)
    BY <1>6
  <2>2. TurnOf(t) = [at |-> "token", by |-> k] /\ ~Held(k, t)
    BY <2>1, HandMade DEF TurnsTold, TurnFacts, Kept, Fresh, Held, Drawn, Reqs
  <2>3. TurnOf(t)' = [at |-> "lost", by |-> None]
    BY <1>1, <1>5, <2>1, <2>2, LossAt
  <2>4. CASE sess[t].st = "live"
    <3>1. StatusOf(t) = "live"
      BY <2>4 DEF StatusOf
    <3> QED BY <1>3, <1>4, <1>5, <2>2, <2>3, <3>1, ChainEnds
  <2>5. CASE sess[t].st = "gone"
    <3>1. StatusOf(t) = "ended"
      BY <2>5 DEF StatusOf
    <3> QED BY <1>3, <1>4, <1>5, <2>2, <2>3, <3>1, ChainLoses
  <2> QED BY <1>1, <2>4, <2>5
<1>7. CASE \A k \in Keys : ~Kept(k, t)
  <2>1. TurnOf(t)' = TurnOf(t)
    BY <1>1, <1>5, <1>7, TurnSame DEF TurnsTold
  <2>2. \A s \in Sessions : TurnOf(s)' = TurnOf(s)
    BY <1>3, <2>1
  <2>3. CASE sess[t].st = "live"
    <3>1. StatusOf(t) = "live"
      BY <2>3 DEF StatusOf
    <3> QED BY <1>3, <1>4, <1>5, <2>1, <3>1, ChainEnds
  <2>4. CASE sess[t].st = "gone"
    <3>1. \A s \in Sessions : StatusOf(s)' = StatusOf(s)
      BY <1>4, <2>4 DEF StatusOf
    <3> QED BY <1>5, <2>2, <3>1, ChainStutters
  <2> QED BY <1>1, <2>3, <2>4
<1> QED BY <1>6, <1>7

LEMMA NothingImplements ==
    ASSUME Shape, TurnsTold, TurnsTold', UNCHANGED <<sess, code, grant, req>>
    PROVE  [Chain!Next]_(Chain!vars)
<1>1. \A s \in Sessions : StatusOf(s)' = StatusOf(s) /\ (Lasts(s)' <=> Lasts(s))
  BY DEF StatusOf, Lasts
<1>2. \A s \in Sessions : TurnOf(s)' = TurnOf(s)
  BY <1>1, OutsideSame, RestSame
<1> QED BY <1>1, <1>2, OutsideSame, ChainStutters

LEMMA StepImplements ==
    ASSUME Shape, Turns, TurnsTold, TurnsTold', [Next]_vars
    PROVE  [Chain!Next]_(Chain!vars)
<1>1. CASE UNCHANGED vars
  BY <1>1, NothingImplements DEF vars
<1>2. ASSUME NEW r \in Reqs, Step(r) PROVE [Chain!Next]_(Chain!vars)
  BY <1>2, StepKinds, CalmImplements, TicketTakenImplements, CodedImplements,
     CodeTakenImplements, TokenTakenImplements, NextDrawnImplements, TokenMarkedImplements,
     GrantLostImplements, SessionEndedImplements
<1>3. ASSUME NEW r \in Reqs, Arrive(r) PROVE [Chain!Next]_(Chain!vars)
  BY <1>3, ArriveCalm, CalmImplements
<1>4. CASE RemoveAssistant
  BY <1>4, NothingImplements DEF RemoveAssistant, storeVars
<1> QED BY <1>1, <1>2, <1>3, <1>4, AskImplements, ExpireImplements DEF Next

LEMMA InitImplements == Init => Chain!Init
<1> SUFFICES ASSUME Init PROVE Chain!Init
  OBVIOUS
<1>1. \A s \in Sessions : TurnOf(s) = [at |-> "none", by |-> None]
  <2>1. Shape /\ Turns
    BY ShapeInit, TurnsInit
  <2> QED BY <2>1, TurnWhere DEF TurnsTold, TurnFacts, Init
<1> QED BY <1>1 DEF Init, Chain!Init, Chain!Lies

\* The handlers of the AI apps' connections, raced and failing as they may,
\* implement TokenChain: ConsumeAppCode, TakeRefresh and SaveRefresh pass the
\* right to draw the next token on whole, and nothing else draws one.
THEOREM Implements == Spec => OneTurn
<1>1. Spec => [](Shape /\ Turns)
  BY ShapeInit, ShapeStep, TurnsInit, TurnsStep, PTL DEF Spec
<1>2. Shape /\ Turns /\ Shape' /\ Turns' /\ [Next]_vars => [Chain!Next]_(Chain!vars)
  BY TurnWhere, TurnWhereNext, StepImplements
<1> QED BY <1>1, <1>2, InitImplements, PTL DEF Spec, OneTurn, Chain!Spec

-----------------------------------------------------------------------------
(* What has ended.                                                          *)

Ended(s) == s \in Sessions /\ sess[s].st \in {"gone", "over"}

LEMMA EndedStays ==
    ASSUME Shape, [Next]_vars, NEW s, Ended(s)
    PROVE  Ended(s)'
<1>1. CASE \A x \in Sessions : sess'[x].st = sess[x].st
  BY <1>1 DEF Ended
<1>2. ASSUME NEW r \in Reqs, SessionEnded(r) PROVE Ended(s)'
  BY <1>2 DEF SessionEnded, Ended, Made, Shape, TypeOK, Session
<1>3. ASSUME NEW x \in Sessions, AskAssistant(x) \/ Expire(x) PROVE Ended(s)'
  BY <1>3 DEF AskAssistant, Expire, Ended, Shape, TypeOK, Session
<1>4. ASSUME NEW r \in Reqs, Step(r) PROVE Ended(s)'
  BY <1>1, <1>2, <1>4, StepKinds
     DEF SameStatus, Calm, TicketTaken, Coded, CodeTaken, TokenTaken, NextDrawn, TokenMarked,
         GrantLost
<1>5. ASSUME NEW r \in Reqs, Arrive(r) PROVE Ended(s)'
  BY <1>1, <1>5, ArriveCalm DEF SameStatus, Calm
<1>6. CASE UNCHANGED sess
  BY <1>1, <1>6
<1> QED BY <1>3, <1>4, <1>5, <1>6 DEF Next, RemoveAssistant, storeVars, vars

\* A refresh, a choice or a use that read the session before it ended writes it
\* back only while it is there (ReplaceSession), so that no schedule of them
\* brings a connection back.
THEOREM NeverRevived == Spec => StaysEnded
<1>1. Spec => []Shape
  BY ShapeInit, ShapeStep, PTL DEF Spec
<1>2. Shape /\ [Next]_vars
         => [\A s \in Sessions : sess[s].st \in {"gone", "over"} => ~Live(s)']_vars
  <2> SUFFICES ASSUME Shape, [Next]_vars, NEW s \in Sessions, sess[s].st \in {"gone", "over"}
               PROVE  ~Live(s)'
    OBVIOUS
  <2>1. Ended(s)'
    BY EndedStays DEF Ended
  <2> QED BY <2>1 DEF Ended, Live
<1> QED BY <1>1, <1>2, PTL DEF Spec, StaysEnded

-----------------------------------------------------------------------------
(* What the requests know of the connections that ended, and of the index.  *)

\* The index lists s, or s has ended.
Listing(s) == s \in index \/ Ended(s)

\* The connections a sweep has still to end; of those it found the others have.
Left(q) == IF q.pc \in {"findSess", "endSess"} THEN q.todo \cup {q.s} ELSE q.todo

Swept(r) ==
    LET q == req[r] IN
    /\ q.todo \subseteq q.seen
    /\ q.pc \in {"findSess", "endSess"} => q.s \in q.seen
    /\ \A s \in q.seen : Listing(s)
    /\ q.pc # "unavailable" => \A s \in q.seen \ Left(q) : Ended(s)
    /\ q.pc = "ended" => q.todo = {}

Told(r) ==
    LET q == req[r] IN
    /\ q.pc \in {"endKey", "endToken", "unindex", "dropIndex"} => Ended(q.s)
    /\ r \in Connects /\ q.pc = "issued" => Listing(q.s)
    /\ r \in Refreshes /\ q.pc \in {"dropGrant", "reused"} => Ended(q.s)
    /\ r \in Revokes /\ q.pc \in {"dropGrant", "ended"} /\ q.s # None
           => outages > 0 \/ Ended(q.s)
    /\ r \in SignOuts /\ q.pc = "ended" => Ended(q.s)
    /\ r \in EndAlls => Swept(r)

AllTold == \A r \in Reqs : Told(r)

\* n has the turn of s and, unless a call fails, answers its app with a token.
Going(n, s) ==
    \/ n \in Refreshes /\ Held(n, s)
    \/ Fresh(n) /\ grant[n].s = s /\ req[n].pc \in {"markUsed", "bind", "addIndex", "issued"}

Chance ==
    outages = 0 =>
        \A k \in Connects :
            req[k].pc \in {"bind", "addIndex", "issued"} /\ Live(req[k].s)
                => \E n \in Keys : Going(n, req[k].s)

\* Nothing that was told is untold by a step of another request.
Later ==
    /\ \A s : Ended(s) => Ended(s)'
    /\ \A s \in index : Listing(s)'
    /\ outages > 0 => outages' > 0

LEMMA LaterStep ==
    ASSUME Shape, AllTold, [Next]_vars
    PROVE  Later
<1>1. \A s : Ended(s) => Ended(s)'
  BY EndedStays
<1>2. UNCHANGED outages \/ Fails
  <2>1. ASSUME NEW r \in Reqs, Arrive(r) PROVE UNCHANGED outages \/ Fails
    BY <2>1 DEF Arrive, ChoicePosted, CodePresented, TokenPresented, SignOutAsked, TokenUsed,
       Snapshot, Unavailable
  <2>2. ASSUME NEW r \in Reqs,
               \/ ConsumeTicket(r) \/ ChooseLoad(r) \/ ChooseSave(r) \/ ChooseCode(r)
               \/ ConsumeAppCode(r) \/ ConnectLoad(r) \/ AskRegister(r) \/ SaveNext(r)
               \/ Bind(r) \/ AddConnection(r)
        PROVE  UNCHANGED outages \/ Fails
    BY <2>2 DEF ConsumeTicket, ChooseLoad, ChooseSave, ChooseCode, ConsumeAppCode, ConnectLoad,
       AskRegister, SaveNext, Bind, AddConnection, Unavailable
  <2>3. ASSUME NEW r \in Reqs,
               \/ LoadRefresh(r) \/ LoadGranted(r) \/ DropGrant(r) \/ TakeRefresh(r)
               \/ MarkUsed(r) \/ EndSession(r) \/ EndGrant(r) \/ Unindex(r)
        PROVE  UNCHANGED outages \/ Fails
    BY <2>3 DEF LoadRefresh, LoadGranted, DropGrant, TakeRefresh, MarkUsed, EndSession, EndGrant,
       Unindex, Unavailable
  <2>4. ASSUME NEW r \in Reqs,
               \/ RevokeGrant(r) \/ RevokeLoad(r) \/ FindConnection(r) \/ FindSession(r)
               \/ DropIndex(r) \/ Touch(r)
        PROVE  UNCHANGED outages \/ Fails
    BY <2>4 DEF RevokeGrant, RevokeLoad, FindConnection, FindSession, DropIndex, Touch, Unavailable
  <2> QED BY <2>1, <2>2, <2>3, <2>4 DEF Next, Step, AskAssistant, Expire, RemoveAssistant, vars
<1>3. \A s \in index : Listing(s)'
  <2>1. CASE index \subseteq index'
    BY <2>1 DEF Listing
  <2>2. ASSUME NEW r \in Reqs, index' = index \ {req[r].s}, req[r].pc \in {"unindex", "dropIndex"}
        PROVE  \A s \in index : Listing(s)'
    BY <1>1, <2>2 DEF Listing, AllTold, Told
  <2>3. ASSUME NEW r \in Reqs, Unindex(r) \/ DropIndex(r)
        PROVE  \A s \in index : Listing(s)'
    BY <2>1, <2>2, <2>3 DEF Unindex, DropIndex
  <2>4. ASSUME NEW r \in Reqs, AddConnection(r)
        PROVE  \A s \in index : Listing(s)'
    BY <2>1, <2>4 DEF AddConnection
  <2>5. ASSUME NEW r \in Reqs, Arrive(r) \/ Step(r)
        PROVE  UNCHANGED index \/ Unindex(r) \/ DropIndex(r) \/ AddConnection(r)
    BY <2>5 DEF Arrive, Step, ChoicePosted, ConsumeTicket, ChooseLoad, ChooseSave,
       ChooseCode, CodePresented, ConsumeAppCode, ConnectLoad, AskRegister, SaveNext, Bind,
       TokenPresented, LoadRefresh, LoadGranted, DropGrant, TakeRefresh, MarkUsed, EndSession,
       EndGrant, RevokeGrant, RevokeLoad, SignOutAsked, TokenUsed, Snapshot, FindConnection,
       FindSession, Touch, Unavailable, storeVars
  <2> QED BY <2>1, <2>3, <2>4, <2>5 DEF Next, AskAssistant, Expire, RemoveAssistant, storeVars, vars
<1> QED BY <1>1, <1>2, <1>3 DEF Later, Fails, Shape, TypeOK

LEMMA ToldStays ==
    ASSUME Later, NEW x, Told(x), req'[x] = req[x]
    PROVE  Told(x)'
<1>1. \A s : Listing(s) => Listing(s)'
  BY DEF Later, Listing
<1> QED BY <1>1 DEF Told, Swept, Left, Later

\* A connection that is not live, and was made, has ended.
LEMMA NotLiveEnded == ASSUME Shape, NEW s, Made(s), ~Live(s) PROVE Ended(s)
BY DEF Shape, TypeOK, Session, Status, Made, Live, Ended

\* A request that is only on its way, or was refused, says nothing.
LEMMA QuietTold ==
    ASSUME NEW r, r \notin EndAlls, req'[r].pc = "issued" => r \notin Connects,
           req'[r].pc \notin {"endKey", "endToken", "unindex", "dropIndex", "dropGrant", "reused",
                              "ended"}
    PROVE  Told(r)'
BY DEF Told

\* The steps of a choice, an exchange and a refresh but for those that end it.
LEMMA OnWayTold ==
    ASSUME Shape, NEW r \in Reqs,
           \/ ConsumeTicket(r) \/ ChooseLoad(r) \/ ChooseSave(r) \/ ChooseCode(r)
           \/ ConsumeAppCode(r) \/ ConnectLoad(r) \/ AskRegister(r) \/ SaveNext(r)
           \/ Bind(r) \/ LoadRefresh(r) \/ TakeRefresh(r) \/ MarkUsed(r) \/ Touch(r)
    PROVE  Told(r)'
<1>1. req[r] \in Request /\ req \in [Reqs -> Request] /\ ReqOK(r)
  BY Shaped
<1>2. req[r].pc \in {"ticket", "chooseSess", "chooseSave", "chooseCode", "consume", "load",
                     "register", "saveNext", "bind", "grant", "take", "markUsed", "touch"}
  BY DEF ConsumeTicket, ChooseLoad, ChooseSave, ChooseCode, ConsumeAppCode, ConnectLoad,
     AskRegister, SaveNext, Bind, LoadRefresh, TakeRefresh, MarkUsed, Touch
<1>3. r \notin EndAlls
  <2>1. ~EndAllOK(r)
    BY <1>2 DEF EndAllOK, Ends
  <2> QED BY <2>1, <1>1, Sorts
<1>4. /\ req'[r].pc \in {"refused", "unavailable", "chooseSess", "chooseSave", "chooseCode",
                          "coded", "load", "register", "saveNext", "take", "endSess", "bind",
                          "markUsed", "addIndex", "issued", "loadGranted"}
      /\ req'[r].pc = "issued" => r \notin Connects
  <2>1. \A l : Go(r, l) => req'[r].pc = l
    BY GoesOn
  <2>2. CASE ConsumeTicket(r) \/ ChooseLoad(r) \/ ChooseSave(r) \/ ChooseCode(r)
    BY <2>1, <2>2 DEF ConsumeTicket, ChooseLoad, ChooseSave, ChooseCode, Unavailable
  <2>3. CASE ConsumeAppCode(r) \/ SaveNext(r) \/ Bind(r)
    BY <2>1, <2>3 DEF ConsumeAppCode, SaveNext, Bind, Unavailable
  <2>4. \A q : req' = [req EXCEPT ![r] = q] => req'[r] = q
    BY <1>1
  <2>5. CASE ConnectLoad(r) \/ AskRegister(r)
    <3>1. /\ [req[r] EXCEPT !.pc = "register", !.key = sess[req[r].s].key,
                            !.named = sess[req[r].s].named].pc = "register"
          /\ [req[r] EXCEPT !.pc = "endSess", !.ret = "refused"].pc = "endSess"
      BY <1>1 DEF Request
    <3> QED BY <2>1, <2>4, <2>5, <3>1 DEF ConnectLoad, AskRegister
  <2>6. CASE LoadRefresh(r)
    <3>1. [req[r] EXCEPT !.pc = "loadGranted", !.s = grant[req[r].k].s,
                         !.rotated = grant[req[r].k].rotated].pc = "loadGranted"
      BY <1>1 DEF Request
    <3> QED BY <2>1, <2>4, <2>6, <3>1 DEF LoadRefresh, Unavailable
  <2>7. CASE TakeRefresh(r) \/ MarkUsed(r)
    <3>1. /\ [req[r] EXCEPT !.pc = "endSess", !.ret = "reused"].pc = "endSess"
          /\ [req[r] EXCEPT !.pc = "saveNext"].pc = "saveNext"
      BY <1>1 DEF Request
    <3> QED BY <2>1, <2>4, <2>7, <3>1 DEF TakeRefresh, MarkUsed, Unavailable
  <2>8. CASE Touch(r)
    <3>1. r \notin Connects
      BY <2>8, AtFind, SortsApart DEF Touch
    <3> QED BY <2>1, <2>8, <3>1 DEF Touch, Unavailable
  <2> QED BY <2>2, <2>3, <2>5, <2>6, <2>7, <2>8
<1> QED BY <1>3, <1>4, QuietTold

LEMMA AddConnectionTold ==
    ASSUME Shape, NEW r \in Reqs, AddConnection(r)
    PROVE  Told(r)'
<1>1. r \in Connects /\ r \notin EndAlls
  <2>1. ConnectOK(r)
    BY Shaped DEF AddConnection, ReqOK, ChoiceOK, RefreshOK, RevokeOK, UseOK, SignOutOK, EndAllOK,
       ListOK, Ends
  <2> QED BY <2>1, RequestsAssumption DEF ConnectOK, Keys, Sweeps
<1>2. \A l : Go(r, l) => req'[r].pc = l /\ req'[r].s = req[r].s
  BY GoesOn
<1>3. CASE index' = index \cup {req[r].s} /\ Go(r, "issued")
  <2>1. req'[r].pc = "issued" /\ req'[r].s \in index'
    BY <1>2, <1>3
  <2> QED BY <1>1, <2>1, RequestsAssumption DEF Told, Listing, Keys
<1>4. CASE Go(r, "refused") \/ Unavailable(r)
  <2>1. req'[r].pc \in {"refused", "unavailable"}
    BY <1>2, <1>4 DEF Unavailable
  <2> QED BY <1>1, <2>1, QuietTold
<1> QED BY <1>3, <1>4 DEF AddConnection

LEMMA LoadGrantedTold ==
    ASSUME Shape, NEW r \in Reqs, LoadGranted(r)
    PROVE  Told(r)'
<1>1. RefreshOK(r) /\ req[r] \in Request /\ Made(req[r].s)
  <2>1. RefreshOK(r) /\ req[r] \in Request
    BY Shaped, Sorts DEF LoadGranted
  <2> QED BY <2>1 DEF LoadGranted, RefreshOK
<1>2. r \in Refreshes /\ r \notin EndAlls /\ r \notin Connects
  BY <1>1, RequestsAssumption DEF RefreshOK, Keys, Sweeps
<1>3. \A q : req' = [req EXCEPT ![r] = q] => req'[r] = q
  BY Shaped
<1>4. CASE /\ ~Live(req[r].s)
           /\ req' = [req EXCEPT ![r] = [@ EXCEPT !.pc = "dropGrant", !.ret = "refused"]]
  <2>1. Ended(req[r].s)'
    BY <1>1, <1>4, NotLiveEnded DEF LoadGranted, Ended, storeVars
  <2> DEFINE d == [req[r] EXCEPT !.pc = "dropGrant", !.ret = "refused"]
  <2>2. d.pc = "dropGrant" /\ d.s = req[r].s
    BY <1>1 DEF Request
  <2>3. req'[r] = d
    BY <1>3, <1>4
  <2> HIDE DEF d
  <2>4. req'[r].pc = "dropGrant" /\ req'[r].s = req[r].s
    BY <2>2, <2>3
  <2>5. r \notin Revokes /\ r \notin SignOuts
    BY <1>2, RequestsAssumption DEF Keys
  <2> QED BY <1>2, <2>1, <2>4, <2>5 DEF Told, Ended
<1>5. CASE ~(/\ ~Live(req[r].s)
             /\ req' = [req EXCEPT ![r] = [@ EXCEPT !.pc = "dropGrant", !.ret = "refused"]])
  <2>1. /\ Ending(req[r], "reused").pc = "endSess"
        /\ [req[r] EXCEPT !.pc = "register", !.key = sess[req[r].s].key,
                          !.named = sess[req[r].s].named].pc = "register"
    BY <1>1 DEF Ending, Request
  <2>2. CASE Unavailable(r)
    <3>1. req'[r].pc = "unavailable"
      BY <2>2, GoesOn DEF Unavailable
    <3> QED BY <1>2, <3>1, QuietTold
  <2>3. CASE ~Unavailable(r)
    <3>1. \/ req' = [req EXCEPT ![r] = Ending(req[r], "reused")]
          \/ req' = [req EXCEPT ![r] = [@ EXCEPT !.pc = "register", !.key = sess[req[r].s].key,
                                                 !.named = sess[req[r].s].named]]
      BY <1>5, <2>3 DEF LoadGranted
    <3>2. req'[r].pc \in {"endSess", "register"}
      BY <1>3, <2>1, <3>1
    <3> QED BY <1>2, <3>2, QuietTold
  <2> QED BY <2>2, <2>3
<1> QED BY <1>4, <1>5

LEMMA DropGrantTold ==
    ASSUME Shape, Later, NEW r \in Reqs, Told(r), DropGrant(r)
    PROVE  Told(r)'
<1>1. req'[r].pc = req[r].ret /\ req'[r].s = req[r].s /\ req[r].pc = "dropGrant"
  BY GoesOn DEF DropGrant
<1>2. RefreshOK(r) \/ RevokeOK(r)
  BY <1>1, Shaped DEF ReqOK, ChoiceOK, ConnectOK, UseOK, SignOutOK, EndAllOK, ListOK, Ends
<1>3. CASE RefreshOK(r)
  BY <1>1, <1>3, QuietTold, RequestsAssumption DEF RefreshOK, Keys, Sweeps
<1>4. CASE RevokeOK(r)
  <2>1. /\ r \in Revokes /\ r \notin EndAlls /\ r \notin SignOuts /\ r \notin Keys
        /\ req'[r].pc = "ended"
    BY <1>1, <1>4, RequestsAssumption DEF RevokeOK, Sweeps
  <2>2. req[r].s # None => outages' > 0 \/ Ended(req[r].s)'
    BY <1>1, <2>1 DEF Told, Later
  <2> QED BY <1>1, <2>1, <2>2 DEF Told, Keys, Ended
<1> QED BY <1>2, <1>3, <1>4

\* A revocation is answered without an end only when there was none to make, or
\* a call failed.
LEMMA RevokeTold ==
    ASSUME Shape, NEW r \in Reqs, RevokeGrant(r) \/ RevokeLoad(r)
    PROVE  Told(r)'
<1>1. RevokeOK(r) /\ req[r] \in Request /\ r \in Revokes /\ r \notin EndAlls /\ r \notin SignOuts
      /\ r \notin Keys
  BY Shaped, Sorts, RequestsAssumption DEF RevokeGrant, RevokeLoad, Sweeps
<1>2. \A q : req' = [req EXCEPT ![r] = q] => req'[r] = q
  BY Shaped
<1>3. \A l : Go(r, l) => req'[r].pc = l /\ req'[r].s = req[r].s
  BY GoesOn
<1>4. CASE RevokeGrant(r)
  <2>1. req[r].s = None
    BY <1>1, <1>4 DEF RevokeOK, RevokeGrant
  <2>2. [req[r] EXCEPT !.pc = "loadGranted", !.s = grant[req[r].k].s].pc = "loadGranted"
    BY <1>1 DEF Request
  <2>3. \/ req'[r].pc \in {"loadGranted", "refused", "unavailable"}
        \/ (req'[r].pc = "ended" /\ req'[r].s = None)
    BY <1>2, <1>3, <1>4, <2>1, <2>2 DEF RevokeGrant, Unavailable
  <2> QED BY <1>1, <2>3 DEF Told, Keys
<1>5. CASE RevokeLoad(r)
  <2>1. Made(req[r].s) /\ UNCHANGED sess
    BY <1>1, <1>5 DEF RevokeOK, RevokeLoad, storeVars
  <2>2. CASE req' = [req EXCEPT ![r] = Ending(req[r], "ended")]
    <3>1. req'[r].pc = "endSess"
      BY <1>1, <1>2, <2>2 DEF Ending, Request
    <3> QED BY <1>1, <3>1, QuietTold
  <2>3. CASE /\ ~Live(req[r].s) \/ Fails
             /\ req' = [req EXCEPT ![r] = [@ EXCEPT !.pc = "dropGrant", !.ret = "ended"]]
    <3>1. req'[r].pc = "dropGrant" /\ req'[r].s = req[r].s
      BY <1>1, <1>2, <2>3 DEF Request
    <3>2. outages' > 0 \/ Ended(req[r].s)'
      BY <2>1, <2>3, NotLiveEnded DEF Fails, Ended, Shape, TypeOK
    <3> QED BY <1>1, <3>1, <3>2 DEF Told, Keys, Ended
  <2> QED BY <1>5, <2>2, <2>3 DEF RevokeLoad
<1> QED BY <1>4, <1>5

\* endConnection has ended the session when it goes on, and the request when it
\* goes where it was called from.
LEMMA EndTold ==
    ASSUME Shape, Later, NEW r \in Reqs, Told(r), req[r].pc \in Ends,
           NEW t, t = req[r].s, Ended(t)',
           NEW l, Go(r, l), l \in {"endKey", "endToken", "unindex", Done(req[r])}
    PROVE  Told(r)'
<1>1. /\ req'[r].pc = l /\ req'[r].s = req[r].s /\ req'[r].todo = req[r].todo
      /\ req'[r].seen = req[r].seen
  BY GoesOn
<1>2. l \in Ends \/ (req[r].todo = {} /\ l = req[r].ret) \/ (req[r].todo # {} /\ l = "find")
  BY DEF Done, Ends
<1>3. CASE r \notin EndAlls
  <2>1. req[r].todo = {}
    BY <1>3, AtEnds
  <2>2. r \in Connects => l # "issued"
    <3>1. r \in Connects => ConnectOK(r)
      BY Shaped, Sorts
    <3> QED BY <1>2, <2>1, <3>1 DEF ConnectOK, Ends
  <2> QED BY <1>1, <1>3, <2>2 DEF Told, Ended
<1>4. CASE r \in EndAlls
  <2>1. EndAllOK(r) /\ r \notin Keys /\ r \notin Revokes /\ r \notin SignOuts
    BY <1>4, Shaped, Sorts, RequestsAssumption DEF Sweeps
  <2>2. l \in {"endKey", "endToken", "unindex", "find", "ended"} /\ (l = "ended" => req[r].todo = {})
    BY <1>2, <2>1 DEF EndAllOK, Ends, Done
  <2>3. /\ req[r].todo \subseteq req[r].seen
        /\ \A s \in req[r].seen : Listing(s)
        /\ \A s \in req[r].seen \ Left(req[r]) : Ended(s)
    BY <1>4 DEF Told, Swept, Ends
  <2>4. \A s \in req[r].seen : Listing(s)'
    BY <2>3 DEF Later, Listing
  <2>5. \A s \in req[r].seen \ req[r].todo : Ended(s)'
    BY <2>3 DEF Left, Later
  <2>6. Left(req[r])' = req[r].todo
    BY <1>1, <2>2 DEF Left
  <2>7. Swept(r)'
    BY <1>1, <2>2, <2>3, <2>4, <2>5, <2>6 DEF Swept
  <2> QED BY <2>1, <2>7, <1>1 DEF Told, Keys, Ended
<1> QED BY <1>3, <1>4

\* A sweep that stops because a call failed says nothing but what is listed.
LEMMA StoppedTold ==
    ASSUME Shape, Later, NEW r \in Reqs, Told(r), Go(r, "unavailable")
    PROVE  Told(r)'
<1>1. /\ req'[r].pc = "unavailable" /\ req'[r].todo = req[r].todo /\ req'[r].seen = req[r].seen
  BY GoesOn
<1>2. r \in EndAlls => Swept(r)'
  BY <1>1 DEF Told, Swept, Later, Listing
<1> QED BY <1>1, <1>2 DEF Told

LEMMA EndStepTold ==
    ASSUME Shape, Later, NEW r \in Reqs, Told(r), EndSession(r) \/ EndGrant(r) \/ Unindex(r)
    PROVE  Told(r)'
<1>1. req[r].pc \in Ends /\ Made(req[r].s) /\ req[r].s \in Sessions
  BY AtEnds DEF EndSession, EndGrant, Unindex, Ends, Made
<1>0. PICK t \in Sessions : t = req[r].s
  BY <1>1
<1>2. CASE Unavailable(r)
  BY <1>2, StoppedTold DEF Unavailable
<1>3. /\ AfterGrants(req[r]) \in {"endKey", "endToken", "unindex", Done(req[r])}
      /\ AfterKey(req[r]) \in {"endKey", "endToken", "unindex", Done(req[r])}
      /\ AfterSession(req[r]) \in {"endKey", "endToken", "unindex", Done(req[r])}
  BY AfterSteps
<1>4. CASE EndSession(r) /\ ~Unavailable(r)
  <2>1. Ended(t)' /\ Go(r, AfterSession(req[r]))
    BY <1>0, <1>1, <1>4 DEF EndSession, Ended, Shape, TypeOK, Session
  <2> QED BY <1>0, <1>1, <1>3, <2>1, EndTold
<1>5. CASE EndGrant(r) /\ ~Unavailable(r)
  <2>1. Ended(t)'
    BY <1>0, <1>5 DEF EndGrant, Told, Later
  <2>2. Go(r, IF req[r].pc = "endKey" THEN AfterKey(req[r]) ELSE AfterGrants(req[r]))
    BY <1>5 DEF EndGrant
  <2> QED BY <1>0, <1>1, <1>3, <2>1, <2>2, EndTold
<1>6. CASE Unindex(r)
  <2>1. Ended(t)' /\ Go(r, Done(req[r]))
    BY <1>0, <1>6 DEF Unindex, Told, Later
  <2> QED BY <1>0, <1>1, <2>1, EndTold
<1> QED BY <1>2, <1>4, <1>5, <1>6

\* What a lookup of one connection, or a list, has to say for itself.
LEMMA LookTold ==
    ASSUME NEW r, r \in Uses \cup SignOuts \cup Lists,
           req'[r].pc \notin {"endKey", "endToken", "unindex"},
           req'[r].pc = "ended" => r \notin SignOuts,
           NEW t, req'[r].s = t, req'[r].pc = "dropIndex" => Ended(t)'
    PROVE  Told(r)'
BY RequestsAssumption DEF Told, Keys, Sweeps, Ended

\* What a sweep that goes on with t has to say.
LEMMA SweepTold ==
    ASSUME Later, NEW r \in EndAlls, Told(r), req'[r].seen = req[r].seen,
           req'[r].todo \subseteq req[r].todo,
           req'[r].pc \in {"find", "findSess", "dropIndex", "endSess", "ended"},
           req'[r].pc = "ended" => req'[r].todo = {},
           NEW t, req'[r].s = t, req'[r].pc \in {"findSess", "endSess"} => t \in req[r].seen,
           req'[r].pc = "dropIndex" => Ended(t)',
           \A s \in req[r].seen : s \in Left(req[r])' \/ Ended(s)'
    PROVE  Told(r)'
<1>1. req[r].todo \subseteq req[r].seen /\ \A s \in req[r].seen : Listing(s)'
  BY DEF Told, Swept, Later, Listing
<1>2. Swept(r)'
  BY <1>1 DEF Swept, Listing, Ended
<1> QED BY <1>2, RequestsAssumption DEF Told, Keys, Sweeps, Ended

LEMMA FindConnectionTold ==
    ASSUME Shape, Later, NEW r \in Reqs, Told(r), FindConnection(r)
    PROVE  Told(r)'
<1>1. req[r].pc = "find" /\ req[r] \in Request /\ UNCHANGED <<sess, index>>
  BY AtFind DEF FindConnection, storeVars
<1>2. CASE Unavailable(r)
  BY <1>2, StoppedTold DEF Unavailable
<1>3. ASSUME NEW s \in IF r \in EndAlls THEN req[r].todo ELSE {req[r].s},
             LET at == [req[r] EXCEPT !.s = s, !.todo = @ \ {s}] IN
             req' = [req EXCEPT ![r] = [at EXCEPT !.pc =
                        IF s \in Listed THEN "findSess" ELSE NotLive(r, at)]]
      PROVE  Told(r)'
  <2> DEFINE at == [req[r] EXCEPT !.s = s, !.todo = @ \ {s}]
             l == IF s \in Listed THEN "findSess" ELSE NotLive(r, at)
             q == [at EXCEPT !.pc = l]
  <2>1. at.todo = req[r].todo \ {s} /\ at.ret = req[r].ret
    BY <1>1 DEF Request
  <2>2. q.pc = l /\ q.s = s /\ q.todo = req[r].todo \ {s} /\ q.seen = req[r].seen
    BY <1>1 DEF Request
  <2>3. req'[r] = q
    BY <1>3, Shaped
  <2> HIDE DEF q
  <2>4. CASE r \in EndAlls
    <3>1. EndAllOK(r) /\ r \notin Uses \cup SignOuts \cup Lists
      BY <2>4, Shaped, Sorts, RequestsAssumption DEF Sweeps
    <3>2. l = "findSess" \/ (s \notin Listed /\ l = IF req[r].todo \ {s} = {} THEN "ended" ELSE "find")
      BY <1>1, <2>1, <3>1 DEF NotLive, Done, EndAllOK
    <3>3. s \in req[r].seen /\ Listing(s)
      BY <1>3, <2>4 DEF Told, Swept
    <3>4. s \notin Listed => Ended(s)
      BY <3>3 DEF Listing, Listed, Lasts, Ended, Shape, TypeOK
    <3>5. \A x \in req[r].seen : x \in req[r].todo \/ Ended(x)'
      BY <1>1, <2>4 DEF Told, Swept, Left, Later
    <3>6. Left(req[r])' = IF l = "findSess" THEN (req[r].todo \ {s}) \cup {s} ELSE req[r].todo \ {s}
      BY <2>2, <2>3, <3>2 DEF Left
    <3>7. \A x \in req[r].seen : x \in Left(req[r])' \/ Ended(x)'
      BY <3>2, <3>4, <3>5, <3>6 DEF Later
    <3>8. req'[r].pc \in {"find", "findSess", "ended"} /\ (req'[r].pc = "ended" => req'[r].todo = {})
      BY <2>2, <2>3, <3>2
    <3> HIDE DEF l
    <3> QED BY <2>2, <2>3, <2>4, <3>3, <3>7, <3>8, SweepTold
  <2>5. CASE r \notin EndAlls
    <3>1. r \in Uses \cup SignOuts
      BY <1>1, <2>5, AtFind
    <3>2. l \in {"findSess", "refused", "missing"}
      BY <3>1 DEF NotLive
    <3> HIDE DEF l
    <3> QED BY <2>2, <2>3, <3>1, <3>2, LookTold
  <2> QED BY <2>4, <2>5
<1> QED BY <1>2, <1>3 DEF FindConnection

LEMMA DropIndexTold ==
    ASSUME Shape, Later, NEW r \in Reqs, Told(r), DropIndex(r)
    PROVE  Told(r)'
<1> DEFINE l == NotLive(r, req[r])
<1>1. req[r].pc = "dropIndex" /\ req[r] \in Request /\ Go(r, l)
  BY AtFind DEF DropIndex
<1>2. /\ req'[r].pc = l /\ req'[r].s = req[r].s /\ req'[r].todo = req[r].todo
      /\ req'[r].seen = req[r].seen /\ req'[r].s = req[r].s
  BY <1>1, GoesOn
<1>3. CASE r \in EndAlls
  <2>1. EndAllOK(r) /\ r \notin Uses \cup SignOuts \cup Lists
    BY <1>3, Shaped, Sorts, RequestsAssumption DEF Sweeps
  <2>2. l = IF req[r].todo = {} THEN "ended" ELSE "find"
    BY <1>1, <2>1 DEF NotLive, Done, EndAllOK
  <2> HIDE DEF l
  <2>3. \A x \in req[r].seen : x \in req[r].todo \/ Ended(x)'
    BY <1>1, <1>3 DEF Told, Swept, Left, Later
  <2>4. Left(req[r])' = req[r].todo
    BY <1>2, <2>2 DEF Left
  <2> QED BY <1>2, <1>3, <2>2, <2>3, <2>4, SweepTold
<1>4. CASE r \notin EndAlls
  <2>1. /\ r \in Uses \cup SignOuts \cup Lists
        /\ r \in Lists => ListOK(r)
    BY <1>1, <1>4, AtFind, SortsApart, Shaped, Sorts
  <2>2. l \notin {"endKey", "endToken", "unindex", "dropIndex"} /\ (l = "ended" => r \notin SignOuts)
    BY <1>1, <2>1, RequestsAssumption DEF NotLive, Done, ListOK, Sweeps
  <2> HIDE DEF l
  <2> QED BY <1>2, <2>1, <2>2, LookTold
<1> QED BY <1>3, <1>4

LEMMA FindSessionTold ==
    ASSUME Shape, Later, NEW r \in Reqs, Told(r), FindSession(r)
    PROVE  Told(r)'
<1>1. req[r].pc = "findSess" /\ req[r] \in Request /\ UNCHANGED sess
  BY AtFind DEF FindSession, storeVars
<1>2. CASE Unavailable(r)
  BY <1>2, StoppedTold DEF Unavailable
<1>3. ASSUME NEW s \in IF r \in Lists THEN req[r].todo ELSE {req[r].s},
             LET at == [req[r] EXCEPT !.s = s, !.todo = @ \ {s}] IN
                 \/ /\ ~Live(s)
                    /\ req' = [req EXCEPT ![r] = [at EXCEPT !.pc = "dropIndex"]]
                 \/ /\ Live(s) /\ r \in SignOuts \cup EndAlls
                    /\ req' = [req EXCEPT ![r] = Ending(at, "ended")]
                 \/ /\ Live(s) /\ r \in Lists
                    /\ req' = [req EXCEPT ![r] = [at EXCEPT !.pc = NotLive(r, at)]]
                 \/ /\ Live(s) /\ r \in Uses
                    /\ \E next \in {"issued", "touch"} :
                           req' = [req EXCEPT ![r] = [at EXCEPT !.pc = next,
                                                                !.key = sess[s].key]]
      PROVE  Told(r)'
  <2> DEFINE at == [req[r] EXCEPT !.s = s, !.todo = @ \ {s}]
  <2>1. at \in [pc : Labels, s : {s}, k : Keys \cup {None}, good : BOOLEAN, rotated : BOOLEAN,
                key : Keys \cup {None}, named : BOOLEAN, todo : {req[r].todo \ {s}},
                seen : {req[r].seen}, ret : Labels]
        /\ at.ret = req[r].ret
    BY <1>1 DEF Request
  <2>2. Made(s) /\ (r \in EndAlls => s = req[r].s)
    <3>1. r \notin Lists => Made(req[r].s)
      BY <1>1, AtFind DEF UseOK, SignOutOK, EndAllOK
    <3>2. r \in EndAlls => r \notin Lists
      BY RequestsAssumption
    <3> QED BY <1>1, <1>3, <3>1, <3>2, AtFind
  <2>3. \A q : req' = [req EXCEPT ![r] = q] => req'[r] = q
    BY Shaped
  <2>4. ~Live(s) => Ended(s)'
    BY <2>2, NotLiveEnded DEF Later
  <2>5. CASE r \in EndAlls
    <3>1. /\ r \notin Uses \cup Lists /\ s \in req[r].seen
          /\ \A x \in req[r].seen : x \in req[r].todo \/ x = s \/ Ended(x)'
      BY <1>1, <2>2, <2>5, RequestsAssumption DEF Told, Swept, Left, Later, Sweeps
    <3>2. CASE ~Live(s) /\ req' = [req EXCEPT ![r] = [at EXCEPT !.pc = "dropIndex"]]
      <4> DEFINE q == [at EXCEPT !.pc = "dropIndex"]
      <4>1. q.pc = "dropIndex" /\ q.s = s /\ q.todo = req[r].todo \ {s} /\ q.seen = req[r].seen
        BY <2>1
      <4>2. req'[r] = q
        BY <2>3, <3>2
      <4> HIDE DEF at, q
      <4>3. Left(req[r])' = req[r].todo \ {s}
        BY <4>1, <4>2 DEF Left
      <4> QED BY <2>4, <2>5, <3>1, <3>2, <4>1, <4>2, <4>3, SweepTold
    <3>3. CASE req' = [req EXCEPT ![r] = Ending(at, "ended")]
      <4> DEFINE q == Ending(at, "ended")
      <4>1. q.pc = "endSess" /\ q.s = s /\ q.todo = req[r].todo \ {s} /\ q.seen = req[r].seen
        BY <2>1 DEF Ending
      <4>2. req'[r] = q
        BY <2>3, <3>3
      <4> HIDE DEF at, q
      <4>3. Left(req[r])' = (req[r].todo \ {s}) \cup {s}
        BY <4>1, <4>2 DEF Left
      <4> QED BY <2>5, <3>1, <4>1, <4>2, <4>3, SweepTold
    <3> QED BY <1>3, <3>1, <3>2, <3>3
  <2>6. CASE r \notin EndAlls
    <3>1. r \in Uses \cup SignOuts \cup Lists /\ (r \in Uses => r \notin SignOuts)
      BY <1>1, <2>6, AtFind, RequestsAssumption
    <3>2. CASE ~Live(s) /\ req' = [req EXCEPT ![r] = [at EXCEPT !.pc = "dropIndex"]]
      <4> DEFINE q == [at EXCEPT !.pc = "dropIndex"]
      <4>1. q.pc = "dropIndex" /\ q.s = s
        BY <2>1
      <4>2. req'[r] = q
        BY <2>3, <3>2
      <4> HIDE DEF at, q
      <4> QED BY <2>4, <3>1, <3>2, <4>1, <4>2, LookTold
    <3>3. CASE req' = [req EXCEPT ![r] = Ending(at, "ended")]
      <4> DEFINE q == Ending(at, "ended")
      <4>1. q.pc = "endSess" /\ q.s = s
        BY <2>1 DEF Ending
      <4>2. req'[r] = q
        BY <2>3, <3>3
      <4> HIDE DEF at, q
      <4> QED BY <3>1, <4>1, <4>2, LookTold
    <3>4. CASE r \in Lists /\ req' = [req EXCEPT ![r] = [at EXCEPT !.pc = NotLive(r, at)]]
      <4> DEFINE l == NotLive(r, at)
                 q == [at EXCEPT !.pc = l]
      <4>1. q.pc = l /\ q.s = s
        BY <2>1
      <4>2. req'[r] = q
        BY <2>3, <3>4
      <4>3. ListOK(r) /\ r \notin Uses \cup SignOuts
        BY <3>4, Shaped, Sorts, RequestsAssumption DEF Sweeps
      <4>4. l \in {"findSess", "ended", "find"}
        BY <1>1, <2>1, <4>3 DEF NotLive, Done, ListOK
      <4> HIDE DEF at, l, q
      <4> QED BY <3>1, <4>1, <4>2, <4>3, <4>4, LookTold
    <3>5. ASSUME r \in Uses, NEW l \in {"issued", "touch"},
                 req' = [req EXCEPT ![r] = [at EXCEPT !.pc = l, !.key = sess[s].key]]
          PROVE  Told(r)'
      <4> DEFINE q == [at EXCEPT !.pc = l, !.key = sess[s].key]
      <4>1. q.pc = l /\ q.s = s
        BY <2>1
      <4>2. req'[r] = q
        BY <2>3, <3>5
      <4> HIDE DEF at, q
      <4> QED BY <3>1, <3>5, <4>1, <4>2, LookTold
    <3> QED BY <1>3, <3>2, <3>3, <3>4, <3>5
  <2> QED BY <2>5, <2>6
<1> QED BY <1>2, <1>3 DEF FindSession

\* A request begins; a sweep with what the index lists.
LEMMA ArriveTold ==
    ASSUME Shape, Later, NEW r \in Reqs, Told(r), Arrive(r)
    PROVE  Told(r)'
<1>1. req[r] \in Request /\ \A q : req' = [req EXCEPT ![r] = q] => req'[r] = q
  BY Shaped
<1>2. CASE Snapshot(r) /\ Unavailable(r)
  BY <1>2, StoppedTold DEF Unavailable
<1>3. CASE Snapshot(r) /\ ~Unavailable(r)
  <2> DEFINE l == IF Listed = {} THEN "ended" ELSE IF r \in Lists THEN "findSess" ELSE "find"
             q == [req[r] EXCEPT !.todo = Listed, !.seen = Listed, !.ret = "ended", !.pc = l]
  <2>1. r \in Sweeps /\ r \notin Keys \cup Revokes \cup SignOuts \cup Uses
    BY <1>3, RequestsAssumption DEF Snapshot
  <2>2. q.pc = l /\ q.todo = Listed /\ q.seen = Listed
    BY <1>1 DEF Request
  <2>3. req'[r] = q
    BY <1>1, <1>3 DEF Snapshot
  <2>4. \A s \in Listed : Listing(s)'
    BY DEF Listed, Later
  <2> HIDE DEF q
  <2>5. CASE r \in EndAlls
    <3>1. r \notin Lists
      BY <2>5, RequestsAssumption
    <3>2. /\ Left(req[r])' = Listed
          /\ req'[r].pc = "ended" => req'[r].todo = {}
          /\ req'[r].pc \in {"find", "ended"}
      BY <2>2, <2>3, <3>1 DEF Left
    <3>3. Swept(r)'
      BY <2>2, <2>3, <2>4, <3>2 DEF Swept
    <3> QED BY <2>1, <3>2, <3>3 DEF Told, Keys
  <2>6. CASE r \notin EndAlls
    <3>1. r \in Lists /\ req'[r].pc \in {"ended", "findSess", "find"}
      BY <2>1, <2>2, <2>3, <2>6 DEF Sweeps
    <3> HIDE DEF l
    <3> QED BY <2>1, <2>6, <3>1 DEF Told, Keys
  <2> QED BY <2>5, <2>6
<1>4. CASE ~Snapshot(r)
  <2>1. r \in Choices \cup Connects \cup Refreshes \cup Revokes \cup SignOuts \cup Uses
    BY <1>4 DEF Arrive
  <2>2. r \notin EndAlls
    BY <2>1, RequestsAssumption DEF Keys, Sweeps
  <2>3. req'[r].pc \in {"ticket", "consume", "grant", "find", "missing", "unavailable"}
    <3>1. ASSUME NEW s \in Sessions, NEW g \in BOOLEAN, ChoicePosted(r, s, g)
          PROVE  req'[r].pc = "ticket"
      <4> DEFINE d == [req[r] EXCEPT !.pc = "ticket", !.s = s, !.good = g]
      <4>1. d.pc = "ticket"
        BY <1>1 DEF Request
      <4>2. req'[r] = d
        BY <1>1, <3>1 DEF ChoicePosted
      <4> QED BY <4>1, <4>2
    <3>2. ASSUME NEW s \in Sessions, NEW g \in BOOLEAN, CodePresented(r, s, g)
          PROVE  req'[r].pc = "consume"
      <4> DEFINE d == [req[r] EXCEPT !.pc = "consume", !.s = s, !.good = g]
      <4>1. d.pc = "consume"
        BY <1>1 DEF Request
      <4>2. req'[r] = d
        BY <1>1, <3>2 DEF CodePresented
      <4> QED BY <4>1, <4>2
    <3>3. ASSUME NEW k \in Keys, NEW g \in BOOLEAN, TokenPresented(r, k, g)
          PROVE  req'[r].pc = "grant"
      <4> DEFINE d == [req[r] EXCEPT !.pc = "grant", !.k = k, !.good = g]
      <4>1. d.pc = "grant"
        BY <1>1 DEF Request
      <4>2. req'[r] = d
        BY <1>1, <3>3 DEF TokenPresented
      <4> QED BY <4>1, <4>2
    <3>4. ASSUME NEW k \in Keys, TokenUsed(r, k)
          PROVE  req'[r].pc = "find"
      <4> DEFINE d == [req[r] EXCEPT !.pc = "find", !.s = req[k].s]
      <4>1. d.pc = "find"
        BY <1>1 DEF Request
      <4>2. req'[r] = d
        BY <1>1, <3>4 DEF TokenUsed
      <4> QED BY <4>1, <4>2
    <3>5. ASSUME NEW s \in Sessions, NEW a \in BOOLEAN, SignOutAsked(r, s, a)
          PROVE  req'[r].pc \in {"find", "missing", "unavailable"}
      <4>1. PICK l \in {"find", "missing", "unavailable"} :
                req' = [req EXCEPT ![r] = [@ EXCEPT !.pc = l, !.s = s, !.ret = "ended"]]
        BY <3>5 DEF SignOutAsked
      <4> DEFINE d == [req[r] EXCEPT !.pc = l, !.s = s, !.ret = "ended"]
      <4>2. d.pc = l
        BY <1>1 DEF Request
      <4>3. req'[r] = d
        BY <1>1, <4>1
      <4> QED BY <4>2, <4>3
    <3> QED BY <1>4, <3>1, <3>2, <3>3, <3>4, <3>5 DEF Arrive
  <2> QED BY <2>2, <2>3, QuietTold
<1> QED BY <1>2, <1>3, <1>4

LEMMA ToldStep == Shape /\ AllTold /\ [Next]_vars => AllTold'
<1> SUFFICES ASSUME Shape, AllTold, [Next]_vars PROVE AllTold'
  OBVIOUS
<1>1. Later
  BY LaterStep
<1>2. ASSUME NEW r \in Reqs, Others(r), Told(r)' PROVE AllTold'
  <2>1. ASSUME NEW x \in Reqs, x # r PROVE Told(x)'
    <3>1. Told(x) /\ req'[x] = req[x]
      BY <1>2, <2>1 DEF AllTold, Others
    <3> QED BY <1>1, <3>1, ToldStays
  <2> QED BY <1>2, <2>1 DEF AllTold
<1>3. ASSUME NEW r \in Reqs, Step(r) PROVE AllTold'
  <2>1. Told(r)
    BY DEF AllTold
  <2>2. Told(r)'
    BY <1>1, <1>3, <2>1, OnWayTold, AddConnectionTold, LoadGrantedTold, DropGrantTold, RevokeTold,
       EndStepTold, FindConnectionTold, FindSessionTold, DropIndexTold DEF Step
  <2>3. Others(r)
    BY <1>3, StepKinds DEF Calm, TicketTaken, Coded, CodeTaken, TokenTaken, NextDrawn, TokenMarked,
       SessionEnded, GrantLost
  <2> QED BY <1>2, <2>2, <2>3
<1>4. ASSUME NEW r \in Reqs, Arrive(r) PROVE AllTold'
  <2>1. Told(r)'
    BY <1>1, <1>4, ArriveTold DEF AllTold
  <2> QED BY <1>2, <1>4, <2>1, ArriveCalm DEF Calm
<1>5. CASE UNCHANGED req
  BY <1>1, <1>5, ToldStays DEF AllTold
<1> QED BY <1>3, <1>4, <1>5 DEF Next, AskAssistant, Expire, RemoveAssistant, vars

LEMMA ToldInit == Init => AllTold
BY DEF Init, Blank, AllTold, Told, Swept, Left

\* A live connection whose app was answered with tokens is in its assistant's
\* index (appCodeExchange lists it before it answers; a sign-out, a use and a
\* list unlist only what has ended), whatever calls failed.
THEOREM LiveIsListed == Spec => []ConnectedIsListed
<1>1. Spec => [](Shape /\ AllTold)
  BY ShapeInit, ShapeStep, ToldInit, ToldStep, PTL DEF Spec
<1>2. AllTold => ConnectedIsListed
  BY DEF AllTold, Told, Listing, Ended, ConnectedIsListed, Live, Reqs, Keys
<1> QED BY <1>1, <1>2, PTL

\* "Rather than said ended while it goes on" (endConnection): who was told that a
\* connection is signed out, in a sweep too, was told the truth, for any number
\* of requests and failing calls.
THEOREM EndedWhenSaid == Spec => []SaidEndedIsEnded
<1>1. Spec => [](Shape /\ AllTold)
  BY ShapeInit, ShapeStep, ToldInit, ToldStep, PTL DEF Spec
<1>2. AllTold => SaidEndedIsEnded
  <2> SUFFICES ASSUME AllTold PROVE SaidEndedIsEnded
    OBVIOUS
  <2>1. \A s : Ended(s) => ~Live(s)
    BY DEF Ended, Live
  <2>2. \A r \in EndAlls : req[r].pc = "ended" => \A s \in req[r].seen : Ended(s)
    BY DEF AllTold, Told, Swept, Left, Reqs, Sweeps
  <2>3. /\ \A r \in SignOuts : req[r].pc = "ended" => Ended(req[r].s)
        /\ \A r \in Refreshes : req[r].pc = "reused" => Ended(req[r].s)
        /\ \A r \in Revokes :
               outages = 0 /\ req[r].pc = "ended" /\ req[r].s # None => Ended(req[r].s)
    BY DEF AllTold, Told, Reqs, Keys
  <2> QED BY <2>1, <2>2, <2>3 DEF SaidEndedIsEnded
<1> QED BY <1>1, <1>2, PTL

-----------------------------------------------------------------------------
(* A live connection can go on being refreshed.                             *)

\* Which step a request that draws a token is at.
LEMMA StepAt ==
    ASSUME Shape, NEW r \in Reqs, Step(r)
    PROVE  /\ req[r].pc \notin {"idle", "issued", "refused", "unavailable"}
           /\ req[r].pc = "consume" => ConsumeAppCode(r)
           /\ req[r].pc = "load" => ConnectLoad(r)
           /\ req[r].pc = "register" => AskRegister(r)
           /\ req[r].pc = "saveNext" => SaveNext(r)
           /\ req[r].pc = "markUsed" => MarkUsed(r)
           /\ req[r].pc = "bind" => Bind(r)
           /\ req[r].pc = "addIndex" => AddConnection(r)
           /\ req[r].pc \in Ends => EndSession(r) \/ EndGrant(r) \/ Unindex(r)
<1>1. /\ ConsumeTicket(r) => req[r].pc = "ticket"
      /\ ChooseLoad(r) => req[r].pc = "chooseSess"
      /\ ChooseSave(r) => req[r].pc = "chooseSave"
      /\ ChooseCode(r) => req[r].pc = "chooseCode"
      /\ ConsumeAppCode(r) => req[r].pc = "consume"
      /\ ConnectLoad(r) => req[r].pc = "load"
      /\ AskRegister(r) => req[r].pc = "register"
      /\ SaveNext(r) => req[r].pc = "saveNext"
      /\ Bind(r) => req[r].pc = "bind"
      /\ AddConnection(r) => req[r].pc = "addIndex"
  BY DEF ConsumeTicket, ChooseLoad, ChooseSave, ChooseCode, ConsumeAppCode, ConnectLoad,
     AskRegister, SaveNext, Bind, AddConnection
<1>2. /\ LoadRefresh(r) => req[r].pc = "grant"
      /\ LoadGranted(r) => req[r].pc = "loadGranted"
      /\ DropGrant(r) => req[r].pc = "dropGrant"
      /\ TakeRefresh(r) => req[r].pc = "take"
      /\ MarkUsed(r) => req[r].pc = "markUsed"
      /\ EndSession(r) => req[r].pc = "endSess"
      /\ EndGrant(r) => req[r].pc \in {"endKey", "endToken"}
      /\ Unindex(r) => req[r].pc = "unindex"
  BY DEF LoadRefresh, LoadGranted, DropGrant, TakeRefresh, MarkUsed, EndSession, EndGrant, Unindex
<1>3. /\ RevokeGrant(r) => req[r].pc = "grant"
      /\ RevokeLoad(r) => req[r].pc = "loadGranted"
      /\ FindConnection(r) => req[r].pc = "find"
      /\ FindSession(r) => req[r].pc = "findSess"
      /\ DropIndex(r) => req[r].pc = "dropIndex"
      /\ Touch(r) => req[r].pc = "touch"
  BY DEF RevokeGrant, RevokeLoad, FindConnection, FindSession, DropIndex, Touch
<1> QED BY <1>1, <1>2, <1>3 DEF Step, Ends

\* A grant that can be renewed is taken by a refresh, or stays, while its session
\* is live: what removes one ended its session first.
LEMMA FreshStays ==
    ASSUME Shape, Turns, AllTold, outages = 0, NEW r \in Reqs, Step(r),
           NEW n \in Keys, Fresh(n), ~Ended(grant[n].s)
    PROVE  \/ Fresh(n)' /\ grant'[n] = grant[n]
           \/ TokenTaken(r) /\ req[r].k = n
<1>1. CASE UNCHANGED grant
  BY <1>1 DEF Fresh
<1>2. ASSUME NEW k \in Keys, k # n, grant' = [grant EXCEPT ![k].st = "gone"]
      PROVE  Fresh(n)' /\ grant'[n] = grant[n]
  BY <1>2, FreshRemoved
<1>3. CASE SaveNext(r)
  <2>1. n # r
    BY <1>3, AtSharedStep DEF SaveNext, Drawn, Fresh
  <2> QED BY <1>1, <1>3, <2>1 DEF SaveNext, Fresh, Shape, TypeOK
<1>4. CASE MarkUsed(r)
  <2>1. Marking(r) /\ req[r].k # n
    <3>1. RefreshOK(r)
      BY <1>4, Shaped DEF MarkUsed, ReqOK, ChoiceOK, ConnectOK, RevokeOK, UseOK, SignOutOK,
         EndAllOK, ListOK, Ends
    <3> QED BY <1>4, <3>1 DEF MarkUsed, RefreshOK, Marking, Turns, OneHolder
  <2> QED BY <1>1, <1>4, <2>1 DEF MarkUsed, Fresh, Shape, TypeOK
<1>5. CASE DropGrant(r)
  <2>1. /\ req[r].pc = "dropGrant" /\ Drawn(req[r].k) /\ grant[req[r].k].s = req[r].s
        /\ Ended(req[r].s)
    <3>1. RefreshOK(r) \/ RevokeOK(r)
      BY <1>5, Shaped DEF DropGrant, ReqOK, ChoiceOK, ConnectOK, UseOK, SignOutOK, EndAllOK, ListOK,
         Ends
    <3> QED BY <1>5, <3>1 DEF DropGrant, RefreshOK, RevokeOK, AllTold, Told
  <2>2. PICK k \in Keys : k = req[r].k
    BY <2>1 DEF Drawn
  <2> QED BY <1>1, <1>2, <1>5, <2>1, <2>2 DEF DropGrant
<1>6. CASE EndGrant(r)
  <2> DEFINE x == IF req[r].pc = "endKey" THEN req[r].key ELSE req[r].k
  <2>1. Ended(req[r].s) /\ Drawn(x) /\ grant[x].s = req[r].s
    BY <1>6, AtEnds DEF EndGrant, Ends, Names, AllTold, Told
  <2>2. PICK k \in Keys : k = x
    BY <2>1 DEF Drawn
  <2>3. UNCHANGED grant \/ grant' = [grant EXCEPT ![x].st = "gone"]
    BY <1>6 DEF EndGrant
  <2> HIDE DEF x
  <2> QED BY <1>1, <1>2, <2>1, <2>2, <2>3
<1>7. CASE TakeRefresh(r)
  <2>1. PICK k \in Keys : k = req[r].k
    <3>1. RefreshOK(r)
      BY <1>7, Shaped DEF TakeRefresh, ReqOK, ChoiceOK, ConnectOK, RevokeOK, UseOK, SignOutOK,
         EndAllOK, ListOK, Ends
    <3> QED BY <1>7, <3>1 DEF TakeRefresh, RefreshOK, Drawn
  <2>2. CASE n # k
    BY <1>1, <1>2, <1>7, <2>1, <2>2 DEF TakeRefresh
  <2>3. CASE n = k
    <3>2. CASE Calm(r)
      BY <1>1, <3>2 DEF Calm
    <3>3. CASE TokenTaken(r)
      BY <2>1, <2>3, <3>3
    <3>4. CASE TokenMarked(r)
      BY <1>7, <3>4 DEF TakeRefresh, TokenMarked, Marking
    <3>5. CASE GrantLost(r, req[r].k) /\ ~UNCHANGED grant
      <4>1. Go(r, "saveNext")
        BY <1>7, <2>1, <2>3, <3>5, Shaped DEF TakeRefresh, Fresh, Go
      <4>2. Hand(r)'
        <5>1. r \in Keys
          BY <1>7, Shaped DEF TakeRefresh, ReqOK, ChoiceOK, ConnectOK, RefreshOK, RevokeOK, UseOK,
             SignOutOK, EndAllOK, ListOK, Ends, Keys
        <5> QED BY <4>1, <5>1, GoesOn DEF Hand
      <4> QED BY <3>5, <4>2 DEF GrantLost
    <3> QED BY <1>1, <1>7, <3>2, <3>3, <3>4, <3>5, RefreshKind
  <2> QED BY <2>2, <2>3
<1>8. CASE ~SaveNext(r) /\ ~MarkUsed(r) /\ ~DropGrant(r) /\ ~EndGrant(r) /\ ~TakeRefresh(r)
  <2>1. UNCHANGED grant
    BY <1>8 DEF Step, ConsumeTicket, ChooseLoad, ChooseSave, ChooseCode, ConsumeAppCode, ConnectLoad,
       AskRegister, Bind, AddConnection, LoadRefresh, LoadGranted, EndSession, Unindex, RevokeGrant,
       RevokeLoad, FindConnection, FindSession, DropIndex, Touch, Unavailable, storeVars
  <2> QED BY <1>1, <2>1
<1> QED BY <1>3, <1>4, <1>5, <1>6, <1>7, <1>8

Answering == {"bind", "addIndex", "issued"}

\* An exchange comes to these steps by drawing its token.
LEMMA ConnectEnters ==
    ASSUME Shape, NEW r \in Connects, Step(r), req'[r].pc \in Answering
    PROVE  req'[r].s = req[r].s /\ (req[r].pc \in Answering \/ SaveNext(r))
<1>1. r \in Reqs /\ ConnectOK(r) /\ req[r] \in Request /\ r \notin EndAlls
  BY Shaped, Sorts, RequestsAssumption DEF Reqs, Keys, Sweeps
<1>2. \A l : Go(r, l) => req'[r].pc = l /\ req'[r].s = req[r].s
  BY <1>1, GoesOn
<1>3. \A q : req' = [req EXCEPT ![r] = q] => req'[r] = q
  BY <1>1, Shaped
<1>4. CASE req[r].pc = "consume"
  <2>1. ConsumeAppCode(r)
    BY <1>1, <1>4, StepAt
  <2>2. req'[r].pc \in {"load", "refused", "unavailable"}
    BY <1>2, <2>1 DEF ConsumeAppCode, Unavailable
  <2> QED BY <2>2 DEF Answering
<1>5. CASE req[r].pc = "load"
  <2>1. ConnectLoad(r)
    BY <1>1, <1>5, StepAt
  <2> DEFINE d == [req[r] EXCEPT !.pc = "register", !.key = sess[req[r].s].key,
                                 !.named = sess[req[r].s].named]
  <2>2. d.pc = "register"
    BY <1>1 DEF Request
  <2>3. req'[r] = d \/ req'[r].pc = "refused"
    BY <1>2, <1>3, <2>1 DEF ConnectLoad
  <2> QED BY <2>2, <2>3 DEF Answering
<1>6. CASE req[r].pc = "register"
  <2>1. AskRegister(r)
    BY <1>1, <1>6, StepAt
  <2> DEFINE d == [req[r] EXCEPT !.pc = "endSess", !.ret = "refused"]
  <2>2. d.pc = "endSess"
    BY <1>1 DEF Request
  <2>3. req'[r] = d \/ req'[r].pc \in {"saveNext", "unavailable"}
    BY <1>2, <1>3, <2>1 DEF AskRegister
  <2> QED BY <2>2, <2>3 DEF Answering
<1>7. CASE req[r].pc \in {"saveNext", "bind", "addIndex"}
  <2>1. SaveNext(r) \/ Bind(r) \/ AddConnection(r)
    BY <1>1, <1>7, StepAt
  <2>2. req'[r].s = req[r].s
    BY <1>2, <2>1 DEF SaveNext, Bind, AddConnection, Unavailable
  <2> QED BY <1>1, <1>7, <2>2, StepAt DEF Answering
<1>8. CASE req[r].pc \in Ends
  <2>1. \E l \in {"endKey", "endToken", "unindex", "refused", "unavailable"} : Go(r, l)
    <3>1. Done(req[r]) = "refused"
      BY <1>1, <1>8 DEF ConnectOK, Done
    <3>2. EndSession(r) \/ EndGrant(r) \/ Unindex(r)
      BY <1>1, <1>8, StepAt
    <3> QED BY <3>1, <3>2, AfterSteps DEF EndSession, EndGrant, Unindex, Unavailable
  <2> QED BY <1>2, <2>1 DEF Answering
<1> QED BY <1>1, <1>4, <1>5, <1>6, <1>7, <1>8, StepAt DEF ConnectOK

\* Who has the turn of a live connection goes on with it while no call fails.
LEMMA GoingMoves ==
    ASSUME Shape, Turns, AllTold, outages = 0, UNCHANGED outages,
           NEW s \in Sessions, Live(s), NEW r \in Keys, Going(r, s), Step(r)
    PROVE  Going(r, s)'
<1>1. r \in Reqs /\ req[r] \in Request
  BY Shaped DEF Reqs
<1>2. Lasts(s) /\ ~Fails /\ ~Ended(s)
  BY DEF Live, Lasts, Fails, Shape, TypeOK, Ended
<1>3. \A l : Go(r, l) => req'[r].pc = l /\ req'[r].s = req[r].s
  BY <1>1, GoesOn
<1>4. CASE r \in Refreshes /\ Held(r, s)
  <2>1. SaveNext(r) /\ req[r].s = s /\ r \notin Connects
    BY <1>1, <1>4, StepAt, SortsApart DEF Held, Hand
  <2>2. /\ grant' = [grant EXCEPT ![r] = [st |-> "live", s |-> s, rotated |-> FALSE]]
        /\ req'[r].pc = "markUsed"
    BY <1>2, <1>3, <2>1 DEF SaveNext, Unavailable
  <2>3. grant'[r] = [st |-> "live", s |-> s, rotated |-> FALSE]
    BY <2>2 DEF Shape, TypeOK
  <2> QED BY <2>2, <2>3 DEF Going, Fresh
<1>5. CASE Fresh(r) /\ grant[r].s = s /\ req[r].pc \in {"markUsed", "bind", "addIndex", "issued"}
  <2>1. Fresh(r)' /\ grant'[r] = grant[r]
    <3>1. TokenTaken(r) => Drawn(req[r].k) /\ ~Drawn(r)
      BY DEF TokenTaken
    <3> QED BY <1>1, <1>2, <1>5, <3>1, FreshStays
  <2>2. req[r].s = s
    <3>1. ConnectOK(r) \/ RefreshOK(r)
      BY <1>1, Shaped, Sorts DEF Keys
    <3> QED BY <1>5, <3>1 DEF ConnectOK, RefreshOK, Ends
  <2>3. MarkUsed(r) \/ Bind(r) \/ AddConnection(r)
    BY <1>1, <1>5, StepAt
  <2>4. req'[r].pc \in {"bind", "addIndex", "issued"}
    BY <1>2, <1>3, <2>2, <2>3 DEF MarkUsed, Bind, AddConnection, Unavailable, Live
  <2> QED BY <1>5, <2>1, <2>4 DEF Going
<1> QED BY <1>4, <1>5 DEF Going

LEMMA GoingStays ==
    ASSUME Shape, Turns, AllTold, outages = 0, UNCHANGED outages, NEW r \in Reqs, Step(r),
           NEW s \in Sessions, Live(s), NEW n \in Keys, Going(n, s)
    PROVE  \E x \in Keys : Going(x, s)'
<1>1. CASE n = r
  BY <1>1, GoingMoves
<1>2. CASE n # r
  <2>1. req'[n] = req[n]
    BY <1>2, StepKinds DEF Reqs, Others, Calm, TicketTaken, Coded, CodeTaken, TokenTaken, NextDrawn,
       TokenMarked, SessionEnded, GrantLost
  <2>2. CASE n \in Refreshes /\ Held(n, s)
    BY <2>1, <2>2 DEF Going, Held, Hand
  <2>3. CASE Fresh(n) /\ grant[n].s = s /\ req[n].pc \in {"markUsed", "bind", "addIndex", "issued"}
    <3>1. ~Ended(s)
      BY DEF Ended, Live
    <3>2. CASE Fresh(n)' /\ grant'[n] = grant[n]
      BY <2>1, <2>3, <3>2 DEF Going
    <3>3. CASE TokenTaken(r) /\ req[r].k = n
      <4>1. r \in Keys /\ r \in Refreshes /\ Held(r, s)'
        BY <2>3, <3>3 DEF TokenTaken, Held, Hand, Keys
      <4> QED BY <4>1 DEF Going
    <3> QED BY <2>3, <3>1, <3>2, <3>3, FreshStays
  <2> QED BY <2>2, <2>3 DEF Going
<1> QED BY <1>1, <1>2

\* A request that arrives was idle, and an exchange has its code to present.
LEMMA ArriveIdle ==
    ASSUME Shape, NEW r \in Reqs, Arrive(r)
    PROVE  req[r].pc = "idle" /\ (r \in Connects => req'[r].pc = "consume")
<1>1. req[r].pc = "idle"
  BY DEF Arrive, ChoicePosted, CodePresented, TokenPresented, SignOutAsked, TokenUsed, Snapshot
<1>2. ASSUME r \in Connects PROVE req'[r].pc = "consume"
  <2>1. r \notin Choices \cup Refreshes \cup Revokes \cup SignOuts \cup Uses \cup Sweeps
    BY <1>2, RequestsAssumption DEF Keys
  <2>2. PICK s \in Sessions, g \in BOOLEAN : CodePresented(r, s, g)
    BY <2>1 DEF Arrive, Snapshot
  <2> DEFINE d == [req[r] EXCEPT !.pc = "consume", !.s = s, !.good = g]
  <2>3. d.pc = "consume"
    BY Shaped DEF Request
  <2>4. req'[r] = d
    BY <2>2, Shaped DEF CodePresented
  <2> QED BY <2>3, <2>4
<1> QED BY <1>1, <1>2

LEMMA ChanceStep == Shape /\ Turns /\ AllTold /\ Chance /\ [Next]_vars => Chance'
<1> SUFFICES ASSUME Shape, Turns, AllTold, Chance, [Next]_vars, outages' = 0,
                    NEW k \in Connects, req'[k].pc \in Answering, Live(req[k].s)'
             PROVE  \E n \in Keys : Going(n, req[k].s)'
  BY DEF Chance, Answering
<1>1. k \in Reqs /\ k \in Keys /\ Later
  BY LaterStep DEF Reqs, Keys
<1>2. outages = 0 /\ UNCHANGED outages
  BY <1>1 DEF Later, Shape, TypeOK
<1>3. PICK s \in Sessions : s = req'[k].s
  <2>1. Shape'
    BY ShapeStep
  <2>2. ReqOK(k)'
    BY <1>1, <2>1 DEF Shape
  <2>3. ConnectOK(k)'
    BY <2>2, RequestsAssumption
       DEF ReqOK, ChoiceOK, RefreshOK, RevokeOK, UseOK, SignOutOK, EndAllOK, ListOK, Keys, Sweeps
  <2> QED BY <2>3 DEF ConnectOK, Made, Answering
<1> SUFFICES \E n \in Keys : Going(n, s)'
  BY <1>3 DEF Going, Held
<1>4. Live(s)'
  BY <1>3 DEF Live
<1>5. ASSUME req[k].pc \in Answering, req[k].s = s PROVE Live(s) /\ \E n \in Keys : Going(n, s)
  <2>1. ConnectOK(k)
    BY <1>1, Shaped, Sorts
  <2>2. Made(s)
    BY <1>5, <2>1 DEF ConnectOK, Answering
  <2>3. Live(s)
    <3>1. ~Ended(s)'
      BY <1>4 DEF Ended, Live
    <3> QED BY <1>1, <2>2, <3>1, NotLiveEnded DEF Later
  <2> QED BY <1>2, <1>5, <2>3 DEF Chance, Answering
<1>6. ASSUME NEW r \in Reqs, Step(r) PROVE \E n \in Keys : Going(n, s)'
  <2>1. CASE req[k].pc \in Answering /\ req[k].s = s
    BY <1>2, <1>5, <1>6, <2>1, GoingStays
  <2>2. CASE r = k /\ SaveNext(k)
    <3>1. \A l : Go(k, l) => req'[k].pc = l /\ req'[k].s = req[k].s
      BY <1>1, GoesOn
    <3>2. /\ grant' = [grant EXCEPT ![k] = [st |-> "live", s |-> s, rotated |-> FALSE]]
          /\ req'[k].pc = "bind"
      BY <1>3, <2>2, <3>1 DEF SaveNext, Answering, Unavailable
    <3>3. grant'[k] = [st |-> "live", s |-> s, rotated |-> FALSE]
      BY <1>1, <3>2 DEF Shape, TypeOK
    <3> QED BY <1>1, <3>2, <3>3 DEF Going, Fresh
  <2>3. CASE r # k
    <3>1. req'[k] = req[k]
      BY <1>1, <1>6, <2>3, StepKinds DEF Others, Calm, TicketTaken, Coded, CodeTaken, TokenTaken,
         NextDrawn, TokenMarked, SessionEnded, GrantLost
    <3> QED BY <1>3, <2>1, <3>1
  <2> QED BY <1>3, <1>6, <2>1, <2>2, <2>3, ConnectEnters
<1>7. ASSUME NEW r \in Reqs, Arrive(r) PROVE \E n \in Keys : Going(n, s)'
  <2>1. r # k
    BY <1>1, <1>7, ArriveIdle DEF Answering
  <2>2. UNCHANGED grant /\ Others(r)
    BY <1>7, ArriveCalm DEF Calm
  <2>3. PICK n \in Keys : Going(n, s)
    BY <1>1, <1>3, <1>5, <2>1, <2>2 DEF Others
  <2>4. n # r /\ n \in Reqs
    BY <1>7, <2>3, ArriveIdle DEF Going, Held, Hand, Reqs
  <2> QED BY <2>2, <2>3, <2>4 DEF Others, Going, Held, Hand, Fresh
<1>8. CASE UNCHANGED <<req, grant>>
  BY <1>3, <1>5, <1>8 DEF Going, Held, Hand, Fresh
<1> QED BY <1>6, <1>7, <1>8 DEF Next, AskAssistant, Expire, RemoveAssistant, storeVars, vars

LEMMA ChanceInit == Init => Chance
BY DEF Init, Blank, Chance, Reqs, Keys

\* No race of refreshes, revocations and uses strands a connection that is live:
\* unless a call to the store failed, its app can always be answered with a token
\* that can be renewed (TakeRefresh lets one refresh on, which draws the next; a
\* grant is removed only after its session ended).
THEOREM NeverStranded == Spec => []CanStillRefresh
<1>1. Spec => [](Shape /\ Turns /\ AllTold /\ Chance)
  BY ShapeInit, ShapeStep, TurnsInit, TurnsStep, ToldInit, ToldStep, ChanceInit, ChanceStep, PTL
     DEF Spec
<1>2. Shape /\ Chance => CanStillRefresh
  <2> SUFFICES ASSUME Shape, Chance, AtRest, outages = 0,
                      NEW k \in Connects, req[k].pc = "issued", Live(req[k].s)
               PROVE  \E n \in Keys : /\ req[n].pc = "issued"
                                      /\ grant[n].s = req[k].s
                                      /\ LiveGrant(n) /\ ~grant[n].rotated
    BY DEF CanStillRefresh
  <2>1. PICK n \in Keys : Going(n, req[k].s)
    BY DEF Chance
  <2>2. req[n].pc \in Final \cup {"idle"}
    BY DEF AtRest, Reqs
  <2>3. Fresh(n) /\ grant[n].s = req[k].s /\ req[n].pc = "issued"
    BY <2>1, <2>2, SortsApart DEF Going, Held, Hand, Final
  <2> QED BY <2>3 DEF Fresh, LiveGrant, Lasts, Live
<1> QED BY <1>1, <1>2, PTL

=============================================================================
