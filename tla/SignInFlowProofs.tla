--------------------------- MODULE SignInFlowProofs ---------------------------
(* Proofs about SignInFlow, for any number of browsers, tabs, returns, ways  *)
(* and providers: its types, that a sign-in completes in the browser and     *)
(* with the ways it was asked for, once for each stored flow, and that the   *)
(* binding of a sign-in is taken away by no later request.                   *)
EXTENDS SignInFlow, TLAPS

-----------------------------------------------------------------------------
(* The inductive invariant.                                                 *)

\* The binding i was drawn for the browser b.
Bound(i, b) == i \in DOMAIN bindings /\ bindings[i] = b

Begun(a) == tab[a].pc # "idle"

Asked(n) == tab[flow[n].tab]

\* A request once made has its browser, client and ways; the answer on its way to
\* it carries a binding of that browser and the state of its own flow.
TabOK(a) ==
    LET t == tab[a] IN
    /\ Begun(a) => t.b \in Browsers /\ t.c \in Clients /\ t.named \subseteq Offered[t.c]
    /\ ~Begun(a) => t.bind = 0
    /\ t.bind # 0 => Bound(t.bind, t.b)
    /\ t.pc = "loading" => t.bind # 0
    /\ t.pc = "loading" /\ t.sent # 0 => t.sent \in DOMAIN flow /\ flow[t.sent].tab = a

\* While the flow n lives, its browser's bindings are those drawn before the state
\* of the flow reached it.
NoneLater(n) ==
    \A i \in DOMAIN bindings :
        bindings[i] = Asked(n).b /\ now < flow[n].ends => i <= flow[n].drawn

\* A flow is bound to the browser of its request, and asks for ways of it; one
\* whose state the browser has ends no later than that browser's cookie, so no
\* binding is drawn for the browser until it ends.
FlowOK(n) ==
    LET f == flow[n] IN
    /\ Begun(f.tab)
    /\ Bound(f.bind, Asked(n).b)
    /\ f.methods # {} /\ f.methods \subseteq Ways(Asked(n))
    /\ f.up = None => f.methods = {Card}
    /\ f.ends <= now + FlowTTL
    /\ f.drawn = 0 \/ f.drawn \in DOMAIN bindings
    /\ f.out => cookie[Asked(n).b].bind # 0 /\ f.ends <= cookie[Asked(n).b].ends
    /\ f.out => NoneLater(n)

CookieOK(b) ==
    /\ cookie[b].bind # 0 => Bound(cookie[b].bind, b)
    /\ cookie[b].ends <= now + FlowTTL

RetOK(r) ==
    LET q == ret[r] IN
    q.pc = "elsewhere" =>
        /\ q.n \in DOMAIN flow /\ q.b \in Browsers
        /\ q.b = Asked(q.n).b => q.held # 0 /\ q.held <= flow[q.n].drawn

\* A sign-in completed used its flow up, in its browser and with a way it asked for.
SignedOK(x) ==
    /\ x.n \in DOMAIN flow /\ flow[x.n].st = "spent"
    /\ x.b = Asked(x.n).b /\ x.m \in flow[x.n].methods
    /\ x.m # Card => flow[x.n].up = ProviderOf[x.m]

Shape ==
    /\ TypeOK
    /\ flow \in Seq(Flow)
    /\ \A a \in Tabs : TabOK(a)
    /\ \A n \in DOMAIN flow : FlowOK(n)
    /\ \A b \in Browsers : CookieOK(b)
    /\ \A r \in Returns : RetOK(r)
    /\ \A x \in signed : SignedOK(x)
    /\ OncePerFlow

-----------------------------------------------------------------------------
(* What every step does: requests, bindings and flows stay what they are,   *)
(* a flow used up stays used up, and a binding is drawn for a browser that  *)
(* holds none.                                                              *)

DrawnStay ==
    /\ \A i \in DOMAIN bindings : i \in DOMAIN bindings' /\ bindings'[i] = bindings[i]
    /\ \A i \in DOMAIN bindings' : i \in DOMAIN bindings \/ Held(bindings'[i]) = 0

AskedStay ==
    \A a \in Tabs : Begun(a) => /\ Begun(a)'
                                /\ tab'[a].b = tab[a].b
                                /\ tab'[a].c = tab[a].c
                                /\ tab'[a].named = tab[a].named

\* fl has the flows of before, some of them used up.
Same(fl) ==
    \A n \in DOMAIN flow :
        /\ n \in DOMAIN fl
        /\ fl[n].tab = flow[n].tab /\ fl[n].bind = flow[n].bind
        /\ fl[n].methods = flow[n].methods /\ fl[n].up = flow[n].up
        /\ fl[n].ends = flow[n].ends
        /\ fl[n].drawn \in Nat /\ fl[n].drawn >= flow[n].drawn
        /\ flow[n].st = "spent" => fl[n].st = "spent"

Onward == now' \in Nat /\ now' >= now /\ DrawnStay /\ AskedStay /\ Same(flow')

LEMMA BoundStays ==
    ASSUME Onward, NEW i, NEW b
    PROVE  Bound(i, b) => Bound(i, b)'
BY DEF Onward, DrawnStay, AskedStay, Same, Bound

\* The request of a flow, with its browser and its ways, is the same for ever.
LEMMA AskStays ==
    ASSUME Shape, Onward, NEW n \in DOMAIN flow
    PROVE  /\ Asked(n)'.b = Asked(n).b /\ Asked(n)'.c = Asked(n).c
           /\ Ways(Asked(n))' = Ways(Asked(n))
           /\ flow[n].tab \in Tabs /\ Begun(flow[n].tab) /\ Begun(flow[n].tab)'
<1>1. flow[n] \in Flow /\ flow[n].tab \in Tabs
  BY DEF Shape, TypeOK, Flow
<1>2. Begun(flow[n].tab)
  BY DEF Shape, FlowOK
<1> QED BY <1>1, <1>2 DEF Onward, DrawnStay, AskedStay, Same, Asked, Ways, Begun

LEMMA TabStays ==
    ASSUME Shape, Onward, NEW a \in Tabs, tab'[a] = tab[a]
    PROVE  TabOK(a)'
<1>1. TabOK(a) /\ (Begun(a)' <=> Begun(a))
  BY DEF Shape, Begun
<1>2. tab[a].bind # 0 => Bound(tab[a].bind, tab[a].b)'
  BY <1>1, BoundStays DEF TabOK
<1> QED BY <1>1, <1>2 DEF TabOK, Onward, DrawnStay, AskedStay, Same, Bound

LEMMA FlowStays ==
    ASSUME Shape, Onward, NEW n \in DOMAIN flow,
           flow'[n].drawn = flow[n].drawn \/ flow'[n].drawn = 0 \/ flow'[n].drawn \in DOMAIN bindings',
           flow'[n].out => \/ flow[n].out /\ flow'[n].drawn = flow[n].drawn
                           \/ \A i \in DOMAIN bindings' : i <= flow'[n].drawn,
           flow'[n].out => \/ flow[n].out /\ cookie'[Asked(n).b] = cookie[Asked(n).b]
                           \/ /\ cookie'[Asked(n).b].bind # 0
                              /\ flow[n].ends <= cookie'[Asked(n).b].ends
    PROVE  FlowOK(n)'
<1>1. /\ FlowOK(n) /\ flow[n].ends \in Nat /\ now \in Nat /\ now' \in Nat /\ now' >= now
  BY DEF Shape, TypeOK, Onward, Flow
<1>2. Bound(flow[n].bind, Asked(n).b)'
  BY <1>1, BoundStays, AskStays DEF FlowOK, Onward, Same, Bound
<1>3. flow'[n].ends <= now' + FlowTTL
  BY <1>1, FlowAssumption DEF FlowOK, Onward, Same
<1>4. flow'[n].out =>
        cookie'[Asked(n).b].bind # 0 /\ flow'[n].ends <= cookie'[Asked(n).b].ends
  BY <1>1 DEF FlowOK, Onward, Same
<1>5. (flow'[n].methods # {} /\ flow'[n].methods \subseteq Ways(Asked(n))')
      /\ (flow'[n].up = None => flow'[n].methods = {Card})
  BY <1>1, AskStays DEF FlowOK, Onward, Same
<1>6. flow'[n].drawn = 0 \/ flow'[n].drawn \in DOMAIN bindings'
  BY <1>1 DEF FlowOK, Onward, DrawnStay
<1>7. ASSUME flow[n].out, flow'[n].drawn = flow[n].drawn PROVE NoneLater(n)'
  <2> SUFFICES ASSUME NEW i \in DOMAIN bindings', bindings'[i] = Asked(n)'.b,
                      now' < flow'[n].ends
               PROVE  i <= flow'[n].drawn
    BY DEF NoneLater, Asked
  <2>1. Asked(n)'.b = Asked(n).b /\ now < flow[n].ends
    BY <1>1, AskStays DEF Onward, Same
  <2>2. Asked(n).b \in Browsers
    BY <1>1 DEF FlowOK, Bound, Shape, TypeOK
  <2>3. Held(Asked(n).b) # 0
    <3>1. cookie[Asked(n).b].ends \in Nat
      BY <2>2 DEF Shape, TypeOK
    <3> QED BY <1>1, <1>7, <2>1, <3>1 DEF FlowOK, Held
  <2>4. i \in DOMAIN bindings /\ bindings'[i] = bindings[i]
    BY <2>1, <2>3 DEF Onward, DrawnStay
  <2>5. NoneLater(n)
    BY <1>1, <1>7 DEF FlowOK
  <2> QED BY <1>7, <2>1, <2>4, <2>5 DEF NoneLater
<1>8. ASSUME \A i \in DOMAIN bindings' : i <= flow'[n].drawn PROVE NoneLater(n)'
  BY <1>8 DEF NoneLater
<1> QED BY <1>2, <1>3, <1>4, <1>5, <1>6, <1>7, <1>8, AskStays
        DEF FlowOK, Onward, Same, Asked, Bound, Begun

LEMMA CookieStays ==
    ASSUME Shape, Onward, NEW b \in Browsers, cookie'[b] = cookie[b]
    PROVE  CookieOK(b)'
<1>1. CookieOK(b) /\ cookie[b].ends \in Nat /\ now \in Nat /\ now' \in Nat /\ now' >= now
  BY DEF Shape, TypeOK, Onward, DrawnStay, AskedStay, Same
<1> QED BY <1>1, BoundStays, FlowAssumption DEF CookieOK, Bound

LEMMA RetStays ==
    ASSUME Shape, Onward, NEW r \in Returns, ret'[r] = ret[r]
    PROVE  RetOK(r)'
<1>1. CASE ret[r].pc # "elsewhere"
  BY <1>1 DEF RetOK
<1>2. CASE ret[r].pc = "elsewhere"
  <2>1. /\ ret[r].n \in DOMAIN flow /\ ret[r].b \in Browsers /\ ret[r].held \in Nat
        /\ ret[r].b = Asked(ret[r].n).b =>
              ret[r].held # 0 /\ ret[r].held <= flow[ret[r].n].drawn
    BY <1>2 DEF Shape, RetOK, TypeOK, Return
  <2>2. PICK n \in DOMAIN flow, b \in Browsers : n = ret[r].n /\ b = ret[r].b
    BY <2>1
  <2>3. /\ n \in DOMAIN flow' /\ Asked(n)'.b = Asked(n).b /\ flow[n].drawn \in Nat
        /\ flow'[n].drawn \in Nat /\ flow'[n].drawn >= flow[n].drawn
    BY AskStays DEF Onward, Same, Shape, TypeOK, Flow
  <2> QED BY <2>1, <2>2, <2>3 DEF RetOK, Asked
<1> QED BY <1>1, <1>2

LEMMA SignedStays ==
    ASSUME Shape, Onward, NEW x \in signed
    PROVE  SignedOK(x)'
<1>1. SignedOK(x)
  BY DEF Shape
<1>2. PICK n \in DOMAIN flow : n = x.n
  BY <1>1 DEF SignedOK
<1> QED BY <1>1, <1>2, AskStays DEF SignedOK, Onward, DrawnStay, AskedStay, Same, Asked

-----------------------------------------------------------------------------
(* The parts the handlers are made of.                                      *)

LEMMA Typed ==
    ASSUME Shape
    PROVE  /\ now \in Nat /\ FlowTTL \in Nat /\ FlowTTL > 0
           /\ bindings \in Seq(Browsers) /\ flow \in Seq(Flow)
           /\ tab \in [Tabs -> Tab] /\ ret \in [Returns -> Return]
           /\ cookie \in [Browsers -> [bind : Nat, ends : Nat]]
BY FlowAssumption DEF Shape, TypeOK

\* What a browser sends is a binding of its own.
LEMMA HeldIsBound ==
    ASSUME Shape, NEW b \in Browsers, Held(b) # 0
    PROVE  Bound(Held(b), b) /\ now < cookie[b].ends /\ Held(b) = cookie[b].bind
BY DEF Shape, CookieOK, Held

\* bindBrowser answers a binding of the browser, and no other binding changes.
LEMMA Drawn ==
    ASSUME Shape, NEW b \in Browsers,
           bindings' = IF Held(b) # 0 THEN bindings ELSE Append(bindings, b)
    PROVE  /\ BindBrowser(b) \in Nat \ {0}
           /\ BindBrowser(b) \in DOMAIN bindings' /\ bindings'[BindBrowser(b)] = b
           /\ bindings' \in Seq(Browsers)
           /\ DrawnStay
<1>1. bindings \in Seq(Browsers) /\ DOMAIN bindings = 1..Len(bindings) /\ Len(bindings) \in Nat
  BY Typed
<1>2. CASE Held(b) # 0
  BY <1>1, <1>2, HeldIsBound DEF BindBrowser, Bound, DrawnStay
<1>3. CASE Held(b) = 0
  <2>1. bindings' = Append(bindings, b) /\ BindBrowser(b) = Len(bindings) + 1
    BY <1>3 DEF BindBrowser
  <2>2. /\ bindings' \in Seq(Browsers) /\ DOMAIN bindings' = 1..(Len(bindings) + 1)
        /\ bindings'[Len(bindings) + 1] = b
        /\ \A i \in 1..Len(bindings) : bindings'[i] = bindings[i]
    BY <1>1, <2>1
  <2> QED BY <1>1, <2>1, <2>2 DEF DrawnStay
<1> QED BY <1>2, <1>3

\* The flows with one of them used up.
LEMMA Spent ==
    ASSUME Shape, NEW n \in DOMAIN flow
    PROVE  /\ Consumed(n) \in Seq(Flow) /\ Len(Consumed(n)) = Len(flow) /\ Same(Consumed(n))
           /\ Consumed(n)[n].st = "spent"
           /\ \A k \in DOMAIN flow : /\ Consumed(n)[k].out = flow[k].out
                                    /\ Consumed(n)[k].drawn = flow[k].drawn
           /\ \A k \in DOMAIN flow : k # n => Consumed(n)[k] = flow[k]
<1> DEFINE c == [flow EXCEPT ![n].st = "spent"]
<1>1. flow \in Seq(Flow) /\ DOMAIN flow = 1..Len(flow) /\ Len(flow) \in Nat
  BY Typed
<1>2. flow[n] \in Flow
  BY <1>1
<1>3. [flow[n] EXCEPT !.st = "spent"] \in Flow
  BY <1>2 DEF Flow
<1>4. c = [k \in 1..Len(flow) |-> IF k = n THEN [flow[n] EXCEPT !.st = "spent"] ELSE flow[k]]
  BY <1>1
<1>5. c \in Seq(Flow) /\ Len(c) = Len(flow) /\ DOMAIN c = DOMAIN flow
  BY <1>1, <1>3, <1>4
<1>6. c[n] = [flow[n] EXCEPT !.st = "spent"] /\ \A k \in DOMAIN flow : k # n => c[k] = flow[k]
  BY <1>1, <1>4
<1>7. /\ c[n].st = "spent" /\ c[n].tab = flow[n].tab /\ c[n].bind = flow[n].bind
      /\ c[n].methods = flow[n].methods /\ c[n].up = flow[n].up
      /\ c[n].ends = flow[n].ends /\ c[n].out = flow[n].out
      /\ c[n].drawn = flow[n].drawn
  BY <1>2, <1>6 DEF Flow
<1>8. Same(c)
  <2>1. \A k \in DOMAIN flow : flow[k].drawn \in Nat
    <3>1. \A k \in DOMAIN flow : flow[k] \in Flow
      BY <1>1
    <3> QED BY <3>1 DEF Flow
  <2> HIDE DEF c
  <2>2. \A k \in DOMAIN flow : c[k].drawn \in Nat /\ c[k].drawn >= flow[k].drawn
    <3> TAKE k \in DOMAIN flow
    <3>1. c[k].drawn = flow[k].drawn
      BY <1>6, <1>7, Zenon
    <3> QED BY <2>1, <3>1
  <2>3. \A k \in DOMAIN flow : k # n => c[k] = flow[k]
    BY <1>6
  <2> QED BY <1>5, <1>7, <2>2, <2>3 DEF Same
<1> QED BY <1>5, <1>6, <1>7, <1>8 DEF Consumed

LEMMA Unspent ==
    ASSUME Shape
    PROVE  Same(flow) /\ flow \in Seq(Flow)
BY DEF Same, Shape, TypeOK, Flow

\* A flow put after the others.
LEMMA Added ==
    ASSUME Shape, NEW fl \in Seq(Flow), Len(fl) = Len(flow), Same(fl), NEW f \in Flow
    PROVE  /\ Append(fl, f) \in Seq(Flow) /\ Same(Append(fl, f))
           /\ DOMAIN Append(fl, f) = DOMAIN flow \cup {Len(fl) + 1}
           /\ Append(fl, f)[Len(fl) + 1] = f
           /\ \A n \in DOMAIN flow : Append(fl, f)[n] = fl[n]
<1>1. /\ flow \in Seq(Flow) /\ DOMAIN flow = 1..Len(flow) /\ Len(flow) \in Nat
      /\ DOMAIN fl = 1..Len(flow)
  BY Typed
<1>2. /\ Append(fl, f) \in Seq(Flow) /\ DOMAIN Append(fl, f) = 1..(Len(fl) + 1)
      /\ Append(fl, f)[Len(fl) + 1] = f
      /\ \A n \in 1..Len(flow) : Append(fl, f)[n] = fl[n]
  BY <1>1
<1>3. Same(Append(fl, f))
  BY <1>1, <1>2 DEF Same
<1> QED BY <1>1, <1>2, <1>3

\* The requests of a step that sets the request a to t.
LEMMA TabSet ==
    ASSUME Shape, NEW a \in Tabs, NEW t \in Tab, tab' = [tab EXCEPT ![a] = t],
           t.pc # "idle",
           Begun(a) => t.b = tab[a].b /\ t.c = tab[a].c /\ t.named = tab[a].named
    PROVE  /\ tab' \in [Tabs -> Tab] /\ tab'[a] = t
           /\ \A x \in Tabs : x # a => tab'[x] = tab[x]
           /\ AskedStay
<1>1. tab \in [Tabs -> Tab]
  BY Typed
<1>2. /\ tab' \in [Tabs -> Tab] /\ tab'[a] = t
      /\ \A x \in Tabs : x # a => tab'[x] = tab[x]
  BY <1>1
<1>3. AskedStay
  BY <1>2 DEF AskedStay, Begun
<1> QED BY <1>2, <1>3

\* What a step that changes no cookie, return and completed sign-in leaves right.
LEMMA Quiet ==
    ASSUME Shape, Onward
    PROVE  /\ UNCHANGED cookie => \A b \in Browsers : CookieOK(b)'
           /\ UNCHANGED ret => \A r \in Returns : RetOK(r)'
           /\ UNCHANGED signed => (\A x \in signed : SignedOK(x))' /\ OncePerFlow'
<1>1. UNCHANGED cookie => \A b \in Browsers : CookieOK(b)'
  BY CookieStays
<1>2. UNCHANGED ret => \A r \in Returns : RetOK(r)'
  BY RetStays
<1>3. UNCHANGED signed => (\A x \in signed : SignedOK(x))'
  BY SignedStays
<1>4. UNCHANGED signed => OncePerFlow'
  BY DEF Shape, OncePerFlow
<1> QED BY <1>1, <1>2, <1>3, <1>4

\* An answer is made for the request a: the browser's binding, and a flow when the
\* answer needs one (newFlow).
Made(a, fl, add, methods, up, picker, to) ==
    /\ bindings' = IF Held(tab[a].b) # 0 THEN bindings ELSE Append(bindings, tab[a].b)
    /\ flow' = IF add
               THEN Append(fl, NewFlow(a, BindBrowser(tab[a].b), methods, up, picker))
               ELSE fl
    /\ tab' = [tab EXCEPT ![a] =
                  [@ EXCEPT !.pc = "loading", !.to = to,
                            !.bind = BindBrowser(tab[a].b),
                            !.sent = IF add THEN Len(fl) + 1 ELSE 0]]

LEMMA AnswerMade ==
    ASSUME Shape, NEW a \in Tabs, Begun(a),
           NEW fl \in Seq(Flow), Len(fl) = Len(flow), Same(fl),
           \A n \in DOMAIN flow : fl[n].out = flow[n].out /\ fl[n].drawn = flow[n].drawn,
           NEW add \in BOOLEAN, NEW methods, NEW up \in Upstreams \cup {None},
           NEW picker \in BOOLEAN, NEW to \in {"page", "away", "closed"},
           add => methods # {} /\ methods \subseteq Ways(tab[a]),
           add /\ up = None => methods = {Card},
           Made(a, fl, add, methods, up, picker, to),
           UNCHANGED <<now, cookie, ret, signed>>
    PROVE  Shape'
<1> DEFINE t == tab[a]
           bind == BindBrowser(tab[a].b)
           f == NewFlow(a, bind, methods, up, picker)
           last == Len(fl) + 1
           s == IF add THEN last ELSE 0
           u == [t EXCEPT !.pc = "loading", !.to = to, !.bind = bind, !.sent = s]
<1>1. /\ t \in Tab /\ t.b \in Browsers /\ t.c \in Clients /\ t.named \subseteq Offered[t.c]
      /\ t.named \subseteq Methods /\ Offered[t.c] \subseteq Methods
  BY Typed, FlowAssumption DEF Shape, TabOK, Tab, Begun
<1>2. /\ bind \in Nat \ {0} /\ bind \in DOMAIN bindings' /\ bindings'[bind] = t.b
      /\ bindings' \in Seq(Browsers) /\ DrawnStay
  BY <1>1, Drawn DEF Made
<1>3. /\ add => f \in Flow
      /\ f.tab = a /\ f.bind = bind /\ f.methods = methods /\ f.up = up
      /\ f.ends = now + FlowTTL /\ f.out = FALSE /\ f.drawn = 0
  <2>0. now + FlowTTL \in Nat
    BY Typed
  <2>1. add => methods \subseteq Methods
    BY <1>1 DEF Ways
  <2>2. a \in Tabs /\ bind \in Nat /\ up \in Upstreams \cup {None}
    BY <1>2
  <2> HIDE DEF bind
  <2>3. /\ f.tab = a /\ f.bind = bind /\ f.methods = methods /\ f.up = up
        /\ f.ends = now + FlowTTL /\ f.out = FALSE /\ f.drawn = 0
    BY DEF NewFlow
  <2>4. add => f \in Flow
    BY <2>0, <2>1, <2>2 DEF NewFlow, Flow
  <2> QED BY <2>3, <2>4
<1>4. last \in Nat \ {0} /\ last \notin DOMAIN flow /\ s \in Nat
  BY Typed
<1>5. /\ u \in Tab /\ u.pc = "loading" /\ u.bind = bind /\ u.sent = s
      /\ u.b = t.b /\ u.c = t.c /\ u.named = t.named
  <2> HIDE DEF bind, s, last
  <2> QED BY <1>1, <1>2, <1>4 DEF Tab
<1>6. tab' = [tab EXCEPT ![a] = u] /\ flow' = IF add THEN Append(fl, f) ELSE fl
  BY DEF Made
<1>7. /\ tab' \in [Tabs -> Tab] /\ tab'[a] = u
      /\ \A x \in Tabs : x # a => tab'[x] = tab[x]
      /\ AskedStay
  <2> HIDE DEF u
  <2> QED BY <1>5, <1>6, TabSet
<1>8. /\ flow' \in Seq(Flow) /\ Same(flow') /\ \A n \in DOMAIN flow : flow'[n] = fl[n]
      /\ add => DOMAIN flow' = DOMAIN flow \cup {last} /\ flow'[last] = f
      /\ ~add => DOMAIN flow' = DOMAIN flow
  <2>1. CASE add
    <3> HIDE DEF f
    <3> QED BY <2>1, <1>3, <1>6, Added
  <2>2. CASE ~add
    BY <2>2, <1>6, Typed
  <2> QED BY <2>1, <2>2
<1> HIDE DEF u, f, bind, s, last
<1>9. Onward
  BY <1>2, <1>7, <1>8, Typed DEF Onward
<1>10. TabOK(a)'
  <2>1. s # 0 => s \in DOMAIN flow' /\ flow'[s].tab = a
    BY <1>3, <1>4, <1>8 DEF s
  <2> QED BY <1>1, <1>2, <1>5, <1>7, <2>1 DEF TabOK, Begun, Bound
<1>11. \A x \in Tabs : TabOK(x)'
  BY <1>7, <1>9, <1>10, TabStays
<1>12. \A n \in DOMAIN flow : FlowOK(n)'
  BY <1>8, <1>9, FlowStays
<1>13. add => FlowOK(last)'
  <2> SUFFICES ASSUME add PROVE FlowOK(last)'
    OBVIOUS
  <2>1. flow'[last] = f /\ last \in DOMAIN flow' /\ Asked(last)' = u
    BY <1>3, <1>7, <1>8 DEF Asked
  <2>2. Ways(u) = Ways(t)
    BY <1>5 DEF Ways
  <2>3. Begun(a)'
    BY <1>5, <1>7 DEF Begun
  <2>4. f.methods # {} /\ f.methods \subseteq Ways(u) /\ (f.up = None => f.methods = {Card})
    BY <1>3, <2>2
  <2>5. now' = now /\ f.ends <= now + FlowTTL
    BY <1>3, Typed
  <2> QED BY <1>2, <1>3, <1>5, <2>1, <2>3, <2>4, <2>5 DEF FlowOK, Bound, Asked, Begun, Ways
<1>14. \A n \in DOMAIN flow' : FlowOK(n)'
  BY <1>8, <1>12, <1>13
<1>15. TypeOK'
  <2>1. DOMAIN flow' \subseteq Nat \ {0} /\ \A n \in DOMAIN flow' : flow'[n] \in Flow
    BY <1>8
  <2>2. TypeOK
    BY DEF Shape
  <2> QED BY <1>2, <1>7, <2>1, <2>2 DEF TypeOK
<1> QED BY <1>8, <1>9, <1>11, <1>14, <1>15, Quiet DEF Shape

LEMMA ShowPageKeeps ==
    ASSUME Shape, NEW a \in Tabs, Begun(a),
           NEW fl \in Seq(Flow), Len(fl) = Len(flow), Same(fl),
           \A n \in DOMAIN flow : fl[n].out = flow[n].out /\ fl[n].drawn = flow[n].drawn,
           ShowPage(a, fl), UNCHANGED <<now, cookie, ret, signed>>
    PROVE  Shape'
<1> DEFINE card == Card \in Ways(tab[a])
<1>1. card \in BOOLEAN /\ (card => {Card} # {} /\ {Card} \subseteq Ways(tab[a]))
  OBVIOUS
<1>2. Made(a, fl, card, {Card}, None, TRUE, "page")
  BY DEF ShowPage, Made
<1> HIDE DEF card
<1> QED BY <1>1, <1>2, AnswerMade

LEMMA StartProviderKeeps ==
    ASSUME Shape, NEW a \in Tabs, Begun(a), NEW methods, NEW picker \in BOOLEAN,
           methods # {}, methods \subseteq Ways(tab[a]), Card \notin methods,
           StartProvider(a, methods, picker), UNCHANGED <<now, cookie, ret, signed>>
    PROVE  Shape'
<1> DEFINE up == ProviderOf[CHOOSE m \in methods : TRUE]
<1>1. /\ tab[a].c \in Clients /\ tab[a].named \subseteq Offered[tab[a].c]
      /\ Offered[tab[a].c] \subseteq Methods
  BY FlowAssumption DEF Shape, TabOK
<1>2. methods \subseteq Methods \ {Card}
  BY <1>1 DEF Ways
<1>3. up \in Upstreams /\ up # None
  BY <1>2, FlowAssumption
<1>4. Made(a, flow, TRUE, methods, up, picker, "away")
  BY DEF StartProvider, Made
<1> HIDE DEF up
<1> QED BY <1>3, <1>4, Unspent, AnswerMade

-----------------------------------------------------------------------------
(* The steps.                                                               *)

\* A request moves on, with no answer on its way to it.
LEMMA Moved ==
    ASSUME Shape, NEW a \in Tabs, Begun(a), NEW p \in {"page", "away", "closed", "asking"},
           tab' = [tab EXCEPT ![a].pc = p]
    PROVE  /\ tab' \in [Tabs -> Tab] /\ AskedStay
           /\ \A x \in Tabs : x # a => tab'[x] = tab[x]
           /\ Onward => TabOK(a)'
<1> DEFINE u == [tab[a] EXCEPT !.pc = p]
<1>1. tab[a] \in Tab /\ TabOK(a)
  BY Typed DEF Shape
<1>2. /\ u \in Tab /\ u.pc = p /\ u.b = tab[a].b /\ u.c = tab[a].c
      /\ u.named = tab[a].named /\ u.bind = tab[a].bind /\ u.sent = tab[a].sent
  BY <1>1 DEF Tab
<1>3. tab' = [tab EXCEPT ![a] = u]
  OBVIOUS
<1> HIDE DEF u
<1>4. /\ tab' \in [Tabs -> Tab] /\ tab'[a] = u /\ AskedStay
      /\ \A x \in Tabs : x # a => tab'[x] = tab[x]
  BY <1>2, <1>3, TabSet
<1>5. Onward => TabOK(a)'
  BY <1>1, <1>2, <1>4, BoundStays DEF TabOK, Begun, Bound
<1> QED BY <1>4, <1>5

\* The flow n is used up, the request a moves on, or neither, and no cookie changes.
LEMMA UsedUp ==
    ASSUME Shape, NEW n \in DOMAIN flow, flow' = Consumed(n),
           \/ UNCHANGED tab
           \/ \E a \in Tabs, p \in {"page", "away", "closed", "asking"} :
                 Begun(a) /\ tab' = [tab EXCEPT ![a].pc = p],
           UNCHANGED <<now, cookie, bindings>>
    PROVE  /\ Onward /\ flow' \in Seq(Flow) /\ flow'[n].st = "spent"
           /\ tab' \in [Tabs -> Tab]
           /\ \A x \in Tabs : TabOK(x)'
           /\ \A k \in DOMAIN flow' : FlowOK(k)'
<1>1. tab' \in [Tabs -> Tab] /\ AskedStay
  BY Moved, Typed DEF AskedStay, Begun
<1>2. /\ flow' \in Seq(Flow) /\ Same(flow') /\ flow'[n].st = "spent"
      /\ Len(flow') = Len(flow)
      /\ \A k \in DOMAIN flow : flow'[k].out = flow[k].out /\ flow'[k].drawn = flow[k].drawn
  BY Spent
<1>3. Onward
  BY <1>1, <1>2, Typed DEF Onward, DrawnStay
<1>4. \A x \in Tabs : TabOK(x)'
  <2>1. CASE UNCHANGED tab
    BY <2>1, <1>3, TabStays
  <2>2. ASSUME NEW a \in Tabs, NEW p \in {"page", "away", "closed", "asking"},
               Begun(a), tab' = [tab EXCEPT ![a].pc = p]
        PROVE  \A x \in Tabs : TabOK(x)'
    BY <2>2, <1>3, Moved, TabStays
  <2> QED BY <2>1, <2>2
<1>5. \A k \in DOMAIN flow : FlowOK(k)'
  BY <1>2, <1>3, FlowStays
<1>6. DOMAIN flow' = DOMAIN flow
  BY <1>2, Typed
<1> QED BY <1>1, <1>2, <1>3, <1>4, <1>5, <1>6

\* The flows are what they were, and the request a moves on.
LEMMA OnlyMoved ==
    ASSUME Shape, NEW a \in Tabs, Begun(a), NEW p \in {"page", "away", "closed", "asking"},
           tab' = [tab EXCEPT ![a].pc = p],
           UNCHANGED <<now, cookie, bindings, flow, ret, signed>>
    PROVE  Shape'
<1>1. /\ tab' \in [Tabs -> Tab] /\ AskedStay
      /\ \A x \in Tabs : x # a => tab'[x] = tab[x]
      /\ Onward => TabOK(a)'
  BY Moved
<1>2. Onward
  BY <1>1, Typed, Unspent DEF Onward, DrawnStay
<1>3. \A x \in Tabs : TabOK(x)'
  BY <1>1, <1>2, TabStays
<1>4. \A k \in DOMAIN flow : FlowOK(k)'
  BY <1>2, FlowStays
<1>5. TypeOK' /\ (flow \in Seq(Flow))'
  BY <1>1 DEF Shape, TypeOK
<1> QED BY <1>2, <1>3, <1>4, <1>5, Quiet DEF Shape

LEMMA OpenKeeps ==
    ASSUME Shape, NEW a \in Tabs, NEW b \in Browsers, NEW c \in Clients,
           NEW posted \in BOOLEAN, NEW named \in SUBSET Offered[c],
           Open(a, b, c, named, posted)
    PROVE  Shape'
<1> DEFINE u == [tab[a] EXCEPT !.pc = "asking", !.b = b, !.c = c,
                               !.named = named, !.posted = posted]
<1>1. tab[a] \in Tab /\ TabOK(a) /\ ~Begun(a)
  BY Typed DEF Shape, Open, Begun
<1>2. named \subseteq Methods
  BY FlowAssumption
<1>3. /\ u \in Tab /\ u.pc = "asking" /\ u.b = b /\ u.c = c /\ u.named = named
      /\ u.bind = tab[a].bind
  BY <1>1, <1>2 DEF Tab
<1>4. tab' = [tab EXCEPT ![a] = u]
  BY DEF Open
<1> HIDE DEF u
<1>5. /\ tab' \in [Tabs -> Tab] /\ tab'[a] = u /\ AskedStay
      /\ \A x \in Tabs : x # a => tab'[x] = tab[x]
  BY <1>1, <1>3, <1>4, TabSet
<1>6. UNCHANGED <<now, cookie, bindings, flow, ret, signed>>
  BY DEF Open
<1>7. Onward
  BY <1>5, <1>6, Typed, Unspent DEF Onward, DrawnStay
<1>8. TabOK(a)'
  BY <1>1, <1>3, <1>5 DEF TabOK, Begun, Bound
<1>9. \A x \in Tabs : TabOK(x)'
  BY <1>5, <1>7, <1>8, TabStays
<1>10. \A k \in DOMAIN flow : FlowOK(k)'
  BY <1>6, <1>7, FlowStays
<1>11. TypeOK' /\ (flow \in Seq(Flow))'
  BY <1>5, <1>6 DEF Shape, TypeOK
<1> QED BY <1>6, <1>7, <1>9, <1>10, <1>11, Quiet DEF Shape

\* A browser whose binding is a flow's is the one the flow's request is in.
LEMMA SameBrowser ==
    ASSUME Shape, NEW n \in DOMAIN flow, NEW b \in Browsers,
           Held(b) # 0, Held(b) = flow[n].bind
    PROVE  b = Asked(n).b
<1>1. Bound(Held(b), b)
  BY HeldIsBound
<1>2. Bound(flow[n].bind, Asked(n).b)
  BY DEF Shape, FlowOK
<1> QED BY <1>1, <1>2 DEF Bound

\* A live flow signs someone in, and is used up.
LEMMA SignedAdded ==
    ASSUME Shape, Onward, NEW n \in DOMAIN flow, Live(n), NEW b \in Browsers, b = Asked(n).b,
           NEW m \in Methods, m \in flow[n].methods,
           m # Card => flow[n].up = ProviderOf[m],
           NEW by \in Tabs \cup Returns,
           flow'[n].st = "spent",
           signed' = signed \cup {[n |-> n, by |-> by, b |-> b, m |-> m]}
    PROVE  signed' \subseteq Signed /\ (\A x \in signed : SignedOK(x))' /\ OncePerFlow'
<1> DEFINE x == [n |-> n, by |-> by, b |-> b, m |-> m]
<1>1. n \in Nat
  BY DEF Shape, TypeOK
<1>2. x \in Signed
  BY <1>1 DEF Signed
<1>3. signed \subseteq Signed
  BY DEF Shape, TypeOK
<1>4. x.n = n /\ x.b = b /\ x.m = m
  OBVIOUS
<1>5. signed' = signed \cup {x}
  OBVIOUS
<1> HIDE DEF x
<1>6. \A y \in signed : SignedOK(y)' /\ y.n # n
  <2> TAKE y \in signed
  <2>1. SignedOK(y)
    BY DEF Shape
  <2> QED BY <2>1, SignedStays DEF SignedOK, Live
<1>7. SignedOK(x)'
  <2>1. /\ n \in DOMAIN flow' /\ flow'[n].methods = flow[n].methods
        /\ flow'[n].up = flow[n].up /\ Asked(n)'.b = Asked(n).b
    BY AskStays DEF Onward, Same
  <2> QED BY <1>4, <2>1 DEF SignedOK, Asked
<1>8. OncePerFlow'
  <2>1. \A y, z \in signed : y.n = z.n => y = z
    BY DEF Shape, OncePerFlow
  <2> QED BY <2>1, <1>4, <1>5, <1>6 DEF OncePerFlow
<1> QED BY <1>2, <1>3, <1>5, <1>6, <1>7, <1>8

\* A return is answered.
LEMMA RetSet ==
    ASSUME Shape, Onward, NEW r \in Returns, NEW q \in Return, ret' = [ret EXCEPT ![r] = q],
           q.pc = "elsewhere" =>
              /\ q.n \in DOMAIN flow /\ q.b \in Browsers
              /\ q.b = Asked(q.n).b => q.held # 0 /\ q.held <= flow[q.n].drawn
    PROVE  ret' \in [Returns -> Return] /\ \A x \in Returns : RetOK(x)'
<1>1. /\ ret' \in [Returns -> Return] /\ ret'[r] = q
      /\ \A x \in Returns : x # r => ret'[x] = ret[x]
  BY Typed
<1>2. ASSUME q.pc = "elsewhere"
      PROVE  /\ q.n \in DOMAIN flow' /\ Asked(q.n)'.b = Asked(q.n).b
             /\ q.held \in Nat /\ flow[q.n].drawn \in Nat /\ flow'[q.n].drawn \in Nat
             /\ flow'[q.n].drawn >= flow[q.n].drawn
  BY <1>2, AskStays DEF Onward, Same, Return, Shape, TypeOK, Flow
<1>3. RetOK(r)'
  BY <1>1, <1>2 DEF RetOK, Asked
<1> QED BY <1>1, <1>3, RetStays

LEMMA RetEnded ==
    ASSUME Shape, Onward, NEW r \in Returns, Returned(r)
    PROVE  ret' \in [Returns -> Return] /\ \A x \in Returns : RetOK(x)'
<1> DEFINE q == [ret[r] EXCEPT !.pc = "ended"]
<1>1. ret[r] \in Return
  BY Typed
<1>2. q \in Return /\ q.pc = "ended"
  BY <1>1 DEF Return
<1>3. ret' = [ret EXCEPT ![r] = q]
  BY DEF Returned
<1> HIDE DEF q
<1> QED BY <1>2, <1>3, RetSet

LEMMA AuthorizeKeeps ==
    ASSUME Shape, NEW a \in Tabs, Authorize(a)
    PROVE  Shape'
<1>1. Begun(a) /\ UNCHANGED <<now, cookie, ret, signed>> /\ tab[a] \in Tab
  BY Typed DEF Authorize, Begun
<1>2. CASE tab' = [tab EXCEPT ![a].posted = FALSE] /\ UNCHANGED <<bindings, flow>>
  <2> DEFINE u == [tab[a] EXCEPT !.posted = FALSE]
  <2>1. /\ u \in Tab /\ u.pc = tab[a].pc /\ u.b = tab[a].b /\ u.c = tab[a].c
        /\ u.named = tab[a].named /\ u.bind = tab[a].bind /\ u.sent = tab[a].sent
    BY <1>1 DEF Tab
  <2>2. tab' = [tab EXCEPT ![a] = u]
    BY <1>2
  <2> HIDE DEF u
  <2>3. /\ tab' \in [Tabs -> Tab] /\ tab'[a] = u /\ AskedStay
        /\ \A x \in Tabs : x # a => tab'[x] = tab[x]
    BY <1>1, <2>1, <2>2, TabSet DEF Begun
  <2>4. Onward
    BY <1>1, <1>2, <2>3, Typed, Unspent DEF Onward, DrawnStay
  <2>5. TabOK(a)
    BY DEF Shape
  <2>6. TabOK(a)'
    BY <1>2, <2>1, <2>3, <2>5 DEF TabOK, Begun, Bound
  <2>7. \A x \in Tabs : TabOK(x)'
    BY <2>3, <2>4, <2>6, TabStays
  <2>8. \A k \in DOMAIN flow : FlowOK(k)'
    BY <1>1, <1>2, <2>4, FlowStays
  <2>9. TypeOK' /\ (flow \in Seq(Flow))'
    BY <1>1, <1>2, <2>3 DEF Shape, TypeOK
  <2> QED BY <1>1, <1>2, <2>4, <2>7, <2>8, <2>9, Quiet DEF Shape
<1>3. CASE ShowPage(a, flow)
  BY <1>1, <1>3, Unspent, ShowPageKeeps
<1>4. CASE ~Page(tab[a]) /\ StartProvider(a, tab[a].named, FALSE)
  <2>1. /\ tab[a].named # {} /\ tab[a].named \subseteq Ways(tab[a])
        /\ Card \notin tab[a].named
    BY <1>4 DEF Page, Ways, OneProvider
  <2> QED BY <1>1, <1>4, <2>1, StartProviderKeeps
<1> QED BY <1>2, <1>3, <1>4 DEF Authorize

LEMMA ChooseKeeps ==
    ASSUME Shape, NEW a \in Tabs, NEW way \in Methods, Choose(a, way)
    PROVE  Shape'
<1>1. Begun(a) /\ UNCHANGED <<now, cookie, ret, signed>> /\ way \in Ways(tab[a])
  BY DEF Choose, Begun
<1>2. CASE ShowPage(a, flow)
  BY <1>1, <1>2, Unspent, ShowPageKeeps
<1>3. CASE tab' = [tab EXCEPT ![a].pc = "closed"] /\ UNCHANGED <<bindings, flow>>
  BY <1>1, <1>3, OnlyMoved
<1>4. CASE way # Card /\ StartProvider(a, {way}, TRUE)
  BY <1>1, <1>4, StartProviderKeeps
<1> QED BY <1>2, <1>3, <1>4 DEF Choose

\* The challenge is used up, whether or not the card's answer signs the person in.
LEMMA CardDoneKeeps ==
    ASSUME Shape, NEW a \in Tabs, Begun(a), NEW n \in DOMAIN flow, Live(n),
           Held(tab[a].b) # 0, flow[n].bind = Held(tab[a].b), flow[n].up = None,
           CardDone(a, n), UNCHANGED <<now, cookie, ret>>,
           \/ UNCHANGED signed
           \/ signed' = signed \cup {[n |-> n, by |-> a, b |-> tab[a].b, m |-> Card]}
    PROVE  Shape'
<1> DEFINE b == tab[a].b
           bind == Held(tab[a].b)
           u == [tab[a] EXCEPT !.pc = "loading", !.to = "closed", !.bind = bind, !.sent = 0]
<1>1. tab[a] \in Tab /\ b \in Browsers /\ TabOK(a)
  BY Typed DEF Shape, TabOK
<1>2. bind \in Nat \ {0} /\ Bound(bind, b)
  BY <1>1, HeldIsBound, Typed DEF Held
<1>3. tab' = [tab EXCEPT ![a] = u] /\ flow' = Consumed(n) /\ UNCHANGED bindings
  BY DEF CardDone
<1>4. \/ UNCHANGED signed
      \/ signed' = signed \cup {[n |-> n, by |-> a, b |-> b, m |-> Card]}
  OBVIOUS
<1>5. flow[n].methods = {Card} /\ b = Asked(n).b
  <2>1. flow[n].up = None => flow[n].methods = {Card}
    BY DEF Shape, FlowOK
  <2> QED BY <1>1, <2>1, SameBrowser
<1> HIDE DEF bind
<1>6. /\ u \in Tab /\ u.pc = "loading" /\ u.bind = bind /\ u.sent = 0
      /\ u.b = b /\ u.c = tab[a].c /\ u.named = tab[a].named
  BY <1>1, <1>2 DEF Tab
<1> HIDE DEF u
<1>7. /\ tab' \in [Tabs -> Tab] /\ tab'[a] = u /\ AskedStay
      /\ \A x \in Tabs : x # a => tab'[x] = tab[x]
  BY <1>3, <1>6, TabSet
<1>8. /\ flow' \in Seq(Flow) /\ Same(flow') /\ flow'[n].st = "spent"
      /\ Len(flow') = Len(flow)
      /\ \A k \in DOMAIN flow : flow'[k].out = flow[k].out /\ flow'[k].drawn = flow[k].drawn
  BY <1>3, Spent
<1>9. Onward
  BY <1>3, <1>7, <1>8, Typed DEF Onward, DrawnStay
<1>10. TabOK(a)'
  BY <1>1, <1>2, <1>3, <1>6, <1>7 DEF TabOK, Begun, Bound
<1>11. \A x \in Tabs : TabOK(x)'
  BY <1>7, <1>9, <1>10, TabStays
<1>12. DOMAIN flow' = DOMAIN flow /\ \A k \in DOMAIN flow : FlowOK(k)'
  <2>1. DOMAIN flow' = DOMAIN flow
    BY <1>8, Typed
  <2>2. \A k \in DOMAIN flow : FlowOK(k)'
    BY <1>8, <1>9, FlowStays
  <2> QED BY <2>1, <2>2
<1>13. signed' \subseteq Signed /\ (\A x \in signed : SignedOK(x))' /\ OncePerFlow'
  <2> HIDE DEF b
  <2>1. Card \in Methods /\ a \in Tabs \cup Returns /\ Card \in flow[n].methods
    BY <1>5, FlowAssumption
  <2>2. CASE UNCHANGED signed
    BY <2>2, <1>9, Quiet DEF Shape, TypeOK
  <2>3. CASE signed' = signed \cup {[n |-> n, by |-> a, b |-> b, m |-> Card]}
    BY <2>3, <1>1, <1>5, <1>8, <1>9, <2>1, SignedAdded
  <2> QED BY <1>4, <2>2, <2>3
<1>14. TypeOK'
  <2>1. TypeOK /\ DOMAIN flow' \subseteq Nat \ {0} /\ \A k \in DOMAIN flow' : flow'[k] \in Flow
    BY <1>8 DEF Shape
  <2> QED BY <1>3, <1>7, <1>13, <2>1 DEF TypeOK
<1> QED BY <1>8, <1>9, <1>11, <1>12, <1>13, <1>14, Quiet DEF Shape

LEMMA CardAnswerKeeps ==
    ASSUME Shape, NEW a \in Tabs, NEW n \in DOMAIN flow, NEW good \in BOOLEAN,
           CardAnswer(a, n, good)
    PROVE  Shape'
<1>1. Begun(a) /\ UNCHANGED <<now, cookie, ret>>
  BY DEF CardAnswer, Begun
<1>2. CASE ShowPage(a, flow) /\ UNCHANGED signed
  BY <1>1, <1>2, Unspent, ShowPageKeeps
<1>3. CASE tab' = [tab EXCEPT ![a].pc = "closed"] /\ UNCHANGED <<bindings, flow, signed>>
  BY <1>1, <1>3, OnlyMoved
<1>4. CASE ShowPage(a, Consumed(n)) /\ UNCHANGED signed
  BY <1>1, <1>4, Spent, ShowPageKeeps
<1>5. CASE /\ flow' = Consumed(n) /\ tab' = [tab EXCEPT ![a].pc = "closed"]
           /\ UNCHANGED <<bindings, signed>>
  <2>1. /\ Onward /\ flow' \in Seq(Flow) /\ tab' \in [Tabs -> Tab]
        /\ \A x \in Tabs : TabOK(x)'
        /\ \A k \in DOMAIN flow' : FlowOK(k)'
    BY <1>1, <1>5, UsedUp
  <2>2. TypeOK /\ DOMAIN flow' \subseteq Nat \ {0} /\ \A k \in DOMAIN flow' : flow'[k] \in Flow
    BY <2>1 DEF Shape
  <2>3. TypeOK'
    BY <1>1, <1>5, <2>1, <2>2 DEF TypeOK
  <2> QED BY <1>1, <1>5, <2>1, <2>3, Quiet DEF Shape
<1>6. CASE /\ Held(tab[a].b) # 0 /\ Live(n) /\ flow[n].up = None
           /\ flow[n].bind = Held(tab[a].b) /\ CardDone(a, n)
           /\ \/ UNCHANGED signed
              \/ signed' = signed \cup {[n |-> n, by |-> a, b |-> tab[a].b, m |-> Card]}
  BY <1>1, <1>6, CardDoneKeeps
<1> QED BY <1>2, <1>3, <1>4, <1>5, <1>6 DEF CardAnswer

\* The cookie set with an answer outlives every flow bound to its browser.
LEMMA DeliverKeeps ==
    ASSUME Shape, NEW a \in Tabs, Deliver(a)
    PROVE  Shape'
<1> DEFINE t == tab[a]
<1>1. /\ Begun(a) /\ t.pc = "loading" /\ t \in Tab /\ TabOK(a) /\ t.b \in Browsers
      /\ UNCHANGED <<now, bindings, ret, signed>>
  BY Typed DEF Shape, TabOK, Deliver, Begun
<1>2. CASE tab' = [tab EXCEPT ![a].pc = "closed"] /\ UNCHANGED <<cookie, flow>>
  BY <1>1, <1>2, OnlyMoved
<1>3. CASE /\ flow' = StateOut(t.sent)
           /\ cookie' = [cookie EXCEPT ![t.b] = [bind |-> t.bind, ends |-> now + FlowTTL]]
           /\ tab' = [tab EXCEPT ![a].pc = t.to]
  <2>1. t.to \in {"page", "away", "closed", "asking"}
    BY <1>1 DEF Tab
  <2>2. /\ tab' \in [Tabs -> Tab] /\ AskedStay
        /\ \A x \in Tabs : x # a => tab'[x] = tab[x]
        /\ Onward => TabOK(a)'
    BY <1>1, <1>3, <2>1, Moved
  <2>3. /\ DOMAIN flow' = DOMAIN flow /\ flow' \in Seq(Flow)
    <3>1. /\ DOMAIN flow = 1..Len(flow) /\ Len(flow) \in Nat
          /\ \A n \in 1..Len(flow) : flow[n] \in Flow
      BY Typed
    <3>2. Len(bindings) \in Nat
      BY Typed
    <3>3. \A n \in 1..Len(flow) :
             [flow[n] EXCEPT !.out = TRUE, !.drawn = Len(bindings)] \in Flow
      BY <3>1, <3>2 DEF Flow
    <3>4. DOMAIN flow' = 1..Len(flow) /\ \A n \in 1..Len(flow) : flow'[n] \in Flow
      BY <1>3, <3>1, <3>3 DEF StateOut
    <3>5. flow' = [n \in 1..Len(flow) |-> flow'[n]]
      BY <1>3, <3>1 DEF StateOut
    <3> QED BY <3>1, <3>4, <3>5
  <2>4. \A n \in DOMAIN flow :
           /\ flow'[n].st = flow[n].st /\ flow'[n].tab = flow[n].tab
           /\ flow'[n].bind = flow[n].bind /\ flow'[n].methods = flow[n].methods
           /\ flow'[n].up = flow[n].up /\ flow'[n].ends = flow[n].ends
           /\ n = t.sent => flow'[n].drawn = Len(bindings)
           /\ n # t.sent => flow'[n] = flow[n]
           /\ flow'[n].drawn \in Nat /\ flow'[n].drawn >= flow[n].drawn
    <3> TAKE n \in DOMAIN flow
    <3>1. flow[n] \in Flow
      BY Typed
    <3>2. flow[n].drawn \in Nat /\ flow[n].drawn <= Len(bindings) /\ Len(bindings) \in Nat
      <4>1. /\ flow[n].drawn = 0 \/ flow[n].drawn \in DOMAIN bindings
            /\ DOMAIN bindings = 1..Len(bindings) /\ Len(bindings) \in Nat
        BY Typed DEF Shape, FlowOK
      <4> QED BY <4>1
    <3>3. CASE n = t.sent
      <4> DEFINE f == [flow[n] EXCEPT !.out = TRUE, !.drawn = Len(bindings)]
      <4>1. flow'[n] = f
        BY <1>3, <3>3 DEF StateOut
      <4>2. /\ f.st = flow[n].st /\ f.tab = flow[n].tab /\ f.bind = flow[n].bind
            /\ f.methods = flow[n].methods /\ f.up = flow[n].up
            /\ f.ends = flow[n].ends /\ f.drawn = Len(bindings)
        BY <3>1 DEF Flow
      <4> HIDE DEF f
      <4> QED BY <3>2, <3>3, <4>1, <4>2
    <3>4. CASE n # t.sent
      <4>1. flow'[n] = flow[n]
        BY <1>3, <3>4 DEF StateOut
      <4> QED BY <3>2, <3>4, <4>1
    <3> QED BY <3>3, <3>4
  <2>5. Onward
    BY <1>1, <2>2, <2>3, <2>4, Typed DEF Onward, DrawnStay, Same
  <2>6. \A x \in Tabs : TabOK(x)'
    BY <2>2, <2>5, TabStays
  <2>7. /\ cookie'[t.b].bind = t.bind /\ cookie'[t.b].ends = now + FlowTTL
        /\ \A x \in Browsers : x # t.b => cookie'[x] = cookie[x]
        /\ cookie' \in [Browsers -> [bind : Nat, ends : Nat]]
    <3>1. t.bind \in Nat /\ now + FlowTTL \in Nat
      BY <1>1, Typed DEF Tab
    <3> HIDE DEF t
    <3>2. cookie'[t.b] = [bind |-> t.bind, ends |-> now + FlowTTL]
      BY <1>1, <1>3, Typed
    <3>3. \A x \in Browsers : x # t.b => cookie'[x] = cookie[x]
      BY <1>3, Typed
    <3>4. cookie' \in [Browsers -> [bind : Nat, ends : Nat]]
      BY <1>1, <1>3, <3>1, Typed
    <3> QED BY <3>2, <3>3, <3>4
  <2>8. \A b \in Browsers : CookieOK(b)'
    <3> TAKE b \in Browsers
    <3>1. CASE b = t.b
      BY <3>1, <1>1, <2>7, Typed DEF CookieOK, TabOK, Bound
    <3>2. CASE b # t.b
      BY <3>2, <2>5, <2>7, CookieStays
    <3> QED BY <3>1, <3>2
  <2>9. \A n \in DOMAIN flow : FlowOK(n)'
    <3> TAKE n \in DOMAIN flow
    <3>1. FlowOK(n) /\ Asked(n).b \in Browsers /\ (n = t.sent => Asked(n).b = t.b)
      <4>1. FlowOK(n) /\ flow[n].tab \in Tabs
        BY <2>5, AskStays DEF Shape
      <4>2. TabOK(flow[n].tab)
        BY <4>1 DEF Shape
      <4>3. n # 0
        BY DEF Shape, TypeOK
      <4> QED BY <4>1, <4>2, <4>3, <1>1 DEF FlowOK, TabOK, Asked
    <3>2. CASE Asked(n).b = t.b
      <4>1. cookie'[Asked(n).b].bind # 0 /\ flow[n].ends <= cookie'[Asked(n).b].ends
        BY <3>1, <3>2, <1>1, <2>7 DEF FlowOK, TabOK
      <4>2. CASE n = t.sent
        <5>1. /\ Len(bindings) \in Nat /\ DOMAIN bindings = 1..Len(bindings)
              /\ bindings' = bindings /\ flow'[n].drawn = Len(bindings)
          BY <4>2, <1>1, <2>4, Typed
        <5>2. /\ flow'[n].drawn = 0 \/ flow'[n].drawn \in DOMAIN bindings'
              /\ \A i \in DOMAIN bindings' : i <= flow'[n].drawn
          BY <5>1
        <5> QED BY <4>1, <5>2, <2>5, FlowStays
      <4>3. CASE n # t.sent
        BY <4>1, <4>3, <2>4, <2>5, FlowStays
      <4> QED BY <4>2, <4>3
    <3>3. CASE Asked(n).b # t.b
      BY <3>1, <3>3, <2>4, <2>5, <2>7, FlowStays
    <3> QED BY <3>2, <3>3
  <2>10. TypeOK'
    <3>1. TypeOK /\ DOMAIN flow' \subseteq Nat \ {0} /\ \A n \in DOMAIN flow' : flow'[n] \in Flow
      BY <2>3 DEF Shape
    <3> QED BY <1>1, <2>2, <2>7, <3>1 DEF TypeOK
  <2> QED BY <1>1, <2>3, <2>5, <2>6, <2>8, <2>9, <2>10, Quiet DEF Shape
<1> QED BY <1>2, <1>3 DEF Deliver

LEMMA ReturnUnknownKeeps ==
    ASSUME Shape, NEW r \in Returns, NEW n \in DOMAIN flow, ReturnUnknown(r, n)
    PROVE  Shape'
<1>1. Returned(r) /\ UNCHANGED <<now, cookie, bindings, flow, tab, signed>>
  BY DEF ReturnUnknown
<1>2. Onward
  BY <1>1, Typed, Unspent DEF Onward, DrawnStay, AskedStay, Begun
<1>3. ret' \in [Returns -> Return] /\ \A x \in Returns : RetOK(x)'
  BY <1>1, <1>2, RetEnded
<1>4. (\A x \in Tabs : TabOK(x)') /\ (\A k \in DOMAIN flow : FlowOK(k)')
  BY <1>1, <1>2, TabStays, FlowStays
<1>5. TypeOK' /\ (flow \in Seq(Flow))'
  BY <1>1, <1>3 DEF Shape, TypeOK
<1> QED BY <1>1, <1>2, <1>3, <1>4, <1>5, Quiet DEF Shape

\* A state that reaches the browser of its request as another browser's was bound
\* to a binding the browser holds no more: one drawn before the state was out took
\* its place.
LEMMA ReturnRefusedKeeps ==
    ASSUME Shape, NEW r \in Returns, NEW n \in DOMAIN flow, NEW b \in Browsers,
           NEW u \in Upstreams, NEW strange \in BOOLEAN,
           ReturnRefused(r, n, b, u, strange)
    PROVE  Shape'
<1>1. /\ UNCHANGED <<now, cookie, bindings, tab, signed>>
      /\ flow[n].out /\ Live(n) /\ flow' = Consumed(n)
  BY DEF ReturnRefused, Arrives
<1>2. /\ Onward /\ flow' \in Seq(Flow) /\ tab' \in [Tabs -> Tab]
      /\ \A x \in Tabs : TabOK(x)'
      /\ \A k \in DOMAIN flow' : FlowOK(k)'
  BY <1>1, UsedUp
<1>3. ASSUME b = Asked(n).b, ~(Held(b) # 0 /\ Held(b) = flow[n].bind)
      PROVE  Held(b) # 0 /\ Held(b) <= flow[n].drawn
  <2>1. /\ FlowOK(n) /\ NoneLater(n) /\ now \in Nat /\ flow[n].ends \in Nat
        /\ cookie[b].ends \in Nat
    BY <1>1, Typed DEF Shape, TypeOK, FlowOK, Flow
  <2>2. cookie[b].bind # 0 /\ now < flow[n].ends /\ now < cookie[b].ends
    BY <1>1, <1>3, <2>1 DEF FlowOK, Live
  <2>3. Held(b) # 0
    BY <2>2 DEF Held
  <2> QED BY <1>3, <2>1, <2>2, <2>3, HeldIsBound DEF Bound, NoneLater
<1>4. ret' \in [Returns -> Return] /\ \A x \in Returns : RetOK(x)'
  <2>1. CASE Returned(r)
    BY <2>1, <1>2, RetEnded
  <2>2. CASE ~(Held(b) # 0 /\ Held(b) = flow[n].bind) /\ Elsewhere(r, n, b)
    <3> DEFINE q == [pc |-> "elsewhere", n |-> n, b |-> b, held |-> Held(b)]
    <3>1. n \in Nat /\ Held(b) \in Nat
      BY Typed DEF Shape, TypeOK, Held
    <3>2. /\ q \in Return /\ q.n = n /\ q.b = b /\ q.held = Held(b)
          /\ ret' = [ret EXCEPT ![r] = q]
      BY <2>2, <3>1 DEF Return, Elsewhere
    <3> HIDE DEF q
    <3> QED BY <2>2, <3>2, <1>2, <1>3, RetSet
  <2> QED BY <2>1, <2>2 DEF ReturnRefused
<1>5. TypeOK /\ DOMAIN flow' \subseteq Nat \ {0} /\ \A k \in DOMAIN flow' : flow'[k] \in Flow
  BY <1>2 DEF Shape
<1>6. TypeOK'
  BY <1>1, <1>4, <1>5 DEF TypeOK
<1> QED BY <1>1, <1>2, <1>4, <1>6, Quiet DEF Shape

\* The request of a flow moves on.
LEMMA AskMoves ==
    ASSUME Shape, NEW n \in DOMAIN flow, NEW p \in {"page", "away", "closed", "asking"},
           tab' = [tab EXCEPT ![flow[n].tab].pc = p]
    PROVE  \E a \in Tabs, q \in {"page", "away", "closed", "asking"} :
              Begun(a) /\ tab' = [tab EXCEPT ![a].pc = q]
<1>1. flow[n].tab \in Tabs
  BY DEF Shape, TypeOK, Flow
<1>2. Begun(flow[n].tab)
  BY DEF Shape, FlowOK
<1> QED BY <1>1, <1>2

LEMMA ReturnErrorKeeps ==
    ASSUME Shape, NEW r \in Returns, NEW n \in DOMAIN flow, NEW b \in Browsers,
           NEW u \in Upstreams, NEW strange \in BOOLEAN, ReturnError(r, n, b, u, strange)
    PROVE  Shape'
<1>1. UNCHANGED <<now, cookie, bindings, signed>> /\ flow' = Consumed(n)
  BY DEF ReturnError
<1>2. PICK p \in {"asking", "closed"} : tab' = [tab EXCEPT ![flow[n].tab].pc = p]
  BY DEF ReturnError
<1>3. \E a \in Tabs, q \in {"page", "away", "closed", "asking"} :
         Begun(a) /\ tab' = [tab EXCEPT ![a].pc = q]
  BY <1>2, AskMoves
<1>4. /\ Onward /\ flow' \in Seq(Flow) /\ tab' \in [Tabs -> Tab]
      /\ \A x \in Tabs : TabOK(x)'
      /\ \A k \in DOMAIN flow' : FlowOK(k)'
  BY <1>1, <1>3, UsedUp
<1>5. ret' \in [Returns -> Return] /\ \A x \in Returns : RetOK(x)'
  BY <1>4, RetEnded DEF ReturnError
<1>6. TypeOK /\ DOMAIN flow' \subseteq Nat \ {0} /\ \A k \in DOMAIN flow' : flow'[k] \in Flow
  BY <1>4 DEF Shape
<1>7. TypeOK'
  BY <1>1, <1>4, <1>5, <1>6 DEF TypeOK
<1> QED BY <1>1, <1>4, <1>5, <1>7, Quiet DEF Shape

LEMMA ReturnSignedInKeeps ==
    ASSUME Shape, NEW r \in Returns, NEW n \in DOMAIN flow, NEW b \in Browsers,
           NEW u \in Upstreams, NEW strange \in BOOLEAN, NEW m \in Methods,
           NEW fails \in BOOLEAN, ReturnSignedIn(r, n, b, u, strange, m, fails)
    PROVE  Shape'
<1>1. /\ UNCHANGED <<now, cookie, bindings>> /\ flow' = Consumed(n) /\ Live(n)
      /\ Held(b) # 0 /\ Held(b) = flow[n].bind /\ AnsweredBy(n, u, strange)
      /\ tab' = [tab EXCEPT ![flow[n].tab].pc = "closed"]
  BY DEF ReturnSignedIn, Accepted
<1>2. \E a \in Tabs, q \in {"page", "away", "closed", "asking"} :
         Begun(a) /\ tab' = [tab EXCEPT ![a].pc = q]
  BY <1>1, AskMoves
<1>3. /\ Onward /\ flow' \in Seq(Flow) /\ tab' \in [Tabs -> Tab]
      /\ flow'[n].st = "spent"
      /\ \A x \in Tabs : TabOK(x)'
      /\ \A k \in DOMAIN flow' : FlowOK(k)'
  BY <1>1, <1>2, UsedUp
<1>4. ret' \in [Returns -> Return] /\ \A x \in Returns : RetOK(x)'
  BY <1>3, RetEnded DEF ReturnSignedIn
<1>5. signed' \subseteq Signed /\ (\A x \in signed : SignedOK(x))' /\ OncePerFlow'
  <2>1. CASE UNCHANGED signed
    BY <2>1, <1>3, Quiet DEF Shape, TypeOK
  <2>2. CASE /\ signed' = signed \cup {[n |-> n, by |-> r, b |-> b, m |-> m]}
             /\ m # Card /\ ProviderOf[m] = u /\ MethodRequested(n, m)
    <3>1. FlowOK(n)
      BY DEF Shape
    <3>2. m \in flow[n].methods
      BY <2>2, <3>1 DEF FlowOK, MethodRequested
    <3>3. flow[n].up = ProviderOf[m]
      BY <1>1, <2>2, <3>1, <3>2 DEF FlowOK, AnsweredBy
    <3>4. b = Asked(n).b
      BY <1>1, SameBrowser
    <3> QED BY <1>1, <1>3, <2>2, <3>2, <3>3, <3>4, SignedAdded
  <2> QED BY <2>1, <2>2 DEF ReturnSignedIn
<1>6. TypeOK /\ DOMAIN flow' \subseteq Nat \ {0} /\ \A k \in DOMAIN flow' : flow'[k] \in Flow
  BY <1>3 DEF Shape
<1>7. TypeOK'
  BY <1>1, <1>3, <1>4, <1>5, <1>6 DEF TypeOK
<1> QED BY <1>1, <1>3, <1>4, <1>5, <1>7, Quiet DEF Shape

LEMMA TickKeeps == ASSUME Shape, Tick PROVE Shape'
<1>1. UNCHANGED <<cookie, bindings, flow, tab, ret, signed>> /\ now' \in Nat /\ now' >= now
  BY Typed DEF Tick
<1>2. Onward
  BY <1>1, Unspent DEF Onward, DrawnStay, AskedStay, Begun
<1>3. (\A x \in Tabs : TabOK(x)') /\ (\A k \in DOMAIN flow : FlowOK(k)')
  BY <1>1, <1>2, TabStays, FlowStays
<1>4. TypeOK' /\ (flow \in Seq(Flow))'
  BY <1>1 DEF Shape, TypeOK
<1> QED BY <1>1, <1>2, <1>3, <1>4, Quiet DEF Shape

LEMMA StutterKeeps == ASSUME Shape, UNCHANGED vars PROVE Shape'
<1>1. UNCHANGED <<now, cookie, bindings, flow, tab, ret, signed>>
  BY DEF vars
<1>2. Onward
  BY <1>1, Typed, Unspent DEF Onward, DrawnStay, AskedStay, Begun
<1>3. (\A x \in Tabs : TabOK(x)') /\ (\A k \in DOMAIN flow : FlowOK(k)')
  BY <1>1, <1>2, TabStays, FlowStays
<1>4. TypeOK' /\ (flow \in Seq(Flow))'
  BY <1>1 DEF Shape, TypeOK
<1> QED BY <1>1, <1>2, <1>3, <1>4, Quiet DEF Shape

LEMMA InitShape == ASSUME Init PROVE Shape
<1>1. tab \in [Tabs -> Tab]
  BY DEF Init, Tab
<1>2. flow = <<>> /\ flow \in Seq(Flow) /\ DOMAIN flow = {} /\ bindings \in Seq(Browsers)
  BY DEF Init
<1>3. ret \in [Returns -> Return] /\ \A r \in Returns : ret[r].pc = "idle"
  BY DEF Init, Return
<1>4. TypeOK
  BY <1>1, <1>2, <1>3 DEF Init, TypeOK
<1>5. \A a \in Tabs : TabOK(a)
  BY DEF Init, TabOK, Begun
<1>6. \A b \in Browsers : CookieOK(b)
  BY FlowAssumption DEF Init, CookieOK
<1>7. \A r \in Returns : RetOK(r)
  BY <1>3 DEF RetOK
<1> QED BY <1>2, <1>4, <1>5, <1>6, <1>7 DEF Init, Shape, OncePerFlow

LEMMA NextKeeps == ASSUME Shape, [Next]_vars PROVE Shape'
BY OpenKeeps, AuthorizeKeeps, DeliverKeeps, ChooseKeeps, CardAnswerKeeps, ReturnUnknownKeeps,
   ReturnRefusedKeeps, ReturnErrorKeeps, ReturnSignedInKeeps, TickKeeps, StutterKeeps DEF Next

LEMMA AlwaysShape == Spec => []Shape
BY InitShape, NextKeeps, PTL DEF Spec

-----------------------------------------------------------------------------
(* The theorems.                                                            *)

\* The state has its types in every behaviour, for any number of browsers, tabs,
\* returns, ways and providers (authorize.go, signin.go, cookies.go).
THEOREM TypeCorrect == Spec => []TypeOK
<1>1. Shape => TypeOK
  BY DEF Shape
<1> QED BY <1>1, AlwaysShape, PTL

\* A sign-in completes only in the browser it was asked in and only with a way that
\* its request allows, by the provider of that way (returnedHere, answeredBy,
\* methodRequested).
THEOREM AsAsked == Spec => []SignedInAsAsked
<1>1. Shape => SignedInAsAsked
  <2> SUFFICES ASSUME Shape, NEW x \in signed
               PROVE  /\ x.b = AskOf(x).b /\ x.m \in Ways(AskOf(x))
                      /\ x.m # Card => flow[x.n].up = ProviderOf[x.m]
    BY DEF SignedInAsAsked
  <2>1. SignedOK(x)
    BY DEF Shape
  <2>2. FlowOK(x.n)
    BY <2>1 DEF Shape, SignedOK
  <2> QED BY <2>1, <2>2 DEF SignedOK, FlowOK, Asked, AskOf
<1> QED BY <1>1, AlwaysShape, PTL

\* A stored flow signs someone in once, at whichever door its state returns
\* (ConsumeFlow).
THEOREM OnceEach == Spec => []OncePerFlow
<1>1. Shape => OncePerFlow
  BY DEF Shape
<1> QED BY <1>1, AlwaysShape, PTL

\* A sign-in that returns, in time, to the browser that asked and is refused as
\* another browser's was crossed by an answer whose binding was drawn before its own
\* state reached the browser: neither the end of the cookie nor a later request, of
\* whatever tab or site, takes a binding away (bindBrowser, newFlow, authorize).
THEOREM BoundFinishes == Spec => []BoundTabFinishes
<1>1. Shape => BoundTabFinishes
  BY DEF Shape, RetOK, Asked, BoundTabFinishes
<1> QED BY <1>1, AlwaysShape, PTL

=============================================================================
