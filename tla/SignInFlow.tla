----------------------------- MODULE SignInFlow -----------------------------
(***************************************************************************)
(* A sign-in from the authorization request to the moment it is complete:  *)
(* /authorize, the sign-in page, the choice, the card's answer and the      *)
(* provider's return (routes/authorize.go, signin.go, webeid.go), with the  *)
(* browser's binding cookie (cookies.go) and the stored flows.  Answers     *)
(* from the shared session are SharedSession's, and so is what a completed  *)
(* sign-in stores.                                                          *)
(*                                                                         *)
(* A tab is one authorization request of a client in a browser.  Bindings   *)
(* and flows are numbered as they are drawn; 0 is none.                     *)
(***************************************************************************)
EXTENDS Integers, Sequences, FiniteSets

CONSTANTS
    Browsers,
    Tabs,          \* the authorization requests
    Returns,       \* the arrivals at a provider's return path
    Clients,
    Methods,       \* the ways of signing in, the card included
    Card,          \* the card (webEid)
    Upstreams,     \* the providers of the set
    ProviderOf,    \* Set.byMethod: the provider of every other way
    Offered,       \* offered: the ways a client may use here
    None,
    FlowTTL,       \* flowTTL: of a flow and of the binding cookie
    MaxTime,       \* the bound on the clock
    MaxFlows,      \* the bound on the flows stored
    MaxBindings    \* the bound on the bindings drawn

ASSUME FlowAssumption ==
    /\ Card \in Methods
    /\ ProviderOf \in [Methods \ {Card} -> Upstreams]
    /\ Offered \in [Clients -> SUBSET Methods]
    /\ None \notin Browsers \cup Tabs \cup Clients \cup Methods \cup Upstreams
    /\ Tabs \cap Returns = {}
    /\ FlowTTL \in Nat \ {0}
    /\ MaxTime \in Nat /\ MaxFlows \in Nat /\ MaxBindings \in Nat

VARIABLES
    now,       \* the clock
    cookie,    \* the binding cookie of each browser
    bindings,  \* the bindings drawn, each for the browser it was drawn for
    flow,      \* the flows stored, a sequence; out, the state of one reached the
               \* browser, when drawn bindings had been drawn
    tab,       \* where each authorization request is
    ret,       \* the provider returns, with the flow, the browser and the binding it
               \* sent (held) of one refused as another browser's
    signed     \* the sign-ins completed

vars == <<now, cookie, bindings, flow, tab, ret, signed>>

Flow == [st : {"saved", "spent"}, tab : Tabs, bind : Nat, methods : SUBSET Methods,
         up : Upstreams \cup {None}, picker : BOOLEAN, ends : Nat,
         out : BOOLEAN, drawn : Nat]

Tab == [pc : {"idle", "asking", "loading", "page", "away", "closed"},
        b : Browsers \cup {None}, c : Clients \cup {None}, named : SUBSET Methods,
        posted : BOOLEAN, bind : Nat, sent : Nat,
        to : {"page", "away", "closed"}]

Return == [pc : {"idle", "ended", "elsewhere"},
           n : Nat, b : Browsers \cup {None}, held : Nat]

Signed == [n : Nat, by : Tabs \cup Returns, b : Browsers, m : Methods]

TypeOK ==
    /\ now \in Nat
    /\ cookie \in [Browsers -> [bind : Nat, ends : Nat]]
    /\ bindings \in Seq(Browsers)
    /\ DOMAIN flow \subseteq Nat \ {0}
    /\ \A n \in DOMAIN flow : flow[n] \in Flow
    /\ tab \in [Tabs -> Tab]
    /\ ret \in [Returns -> Return]
    /\ signed \subseteq Signed

Init ==
    /\ now = 0
    /\ cookie = [b \in Browsers |-> [bind |-> 0, ends |-> 0]]
    /\ bindings = <<>>
    /\ flow = <<>>
    /\ tab = [a \in Tabs |-> [pc |-> "idle", b |-> None, c |-> None, named |-> {},
                              posted |-> FALSE, bind |-> 0, sent |-> 0, to |-> "page"]]
    /\ ret = [r \in Returns |-> [pc |-> "idle", n |-> 0, b |-> None, held |-> 0]]
    /\ signed = {}

-----------------------------------------------------------------------------
\* browserBinding: what the browser sends.
Held(b) == IF now < cookie[b].ends THEN cookie[b].bind ELSE 0

\* providerOf: one provider offers every one of the methods.
OneProvider(methods) ==
    /\ methods # {} /\ Card \notin methods
    /\ Cardinality({ProviderOf[m] : m \in methods}) = 1

\* pageWays: the ways the page shows the request t, and whether it is shown.
Page(t) == t.named = {} \/ ~OneProvider(t.named)
Ways(t) == IF t.named = {} THEN Offered[t.c] ELSE t.named

\* Mutant: the flow records the ways where its provider goes.
NewFlow_NoProvider(a, bind, methods, up, picker) ==
    [st |-> "saved", tab |-> a, bind |-> bind, methods |-> methods, up |-> methods,
     picker |-> picker, ends |-> now + FlowTTL, out |-> FALSE, drawn |-> 0]

\* newFlow and SaveFlow; a flow sent to no provider is the card's challenge.
NewFlow(a, bind, methods, up, picker) ==
    [st |-> "saved", tab |-> a, bind |-> bind, methods |-> methods, up |-> up,
     picker |-> picker, ends |-> now + FlowTTL, out |-> FALSE, drawn |-> 0]

\* bindBrowser: the binding the browser holds, or a new one.
BindBrowser(b) == IF Held(b) # 0 THEN Held(b) ELSE Len(bindings) + 1

\* showPage: the page of the tab a, over the flows fl, and the card's challenge
\* (startCard) when the card is among its ways.
ShowPage(a, fl) ==
    LET t == tab[a]
        bind == BindBrowser(t.b)
        card == Card \in Ways(t)
    IN
    /\ bind <= MaxBindings
    /\ card => Len(fl) < MaxFlows
    /\ bindings' = IF Held(t.b) # 0 THEN bindings ELSE Append(bindings, t.b)
    /\ flow' = IF card THEN Append(fl, NewFlow(a, bind, {Card}, None, TRUE)) ELSE fl
    /\ tab' = [tab EXCEPT ![a] =
           [@ EXCEPT !.pc = "loading", !.to = "page", !.bind = bind,
                     !.sent = IF card THEN Len(fl) + 1 ELSE 0]]

\* startProvider: the flow, bound to this browser, and the provider's address.
StartProvider(a, methods, picker) ==
    LET t == tab[a]
        bind == BindBrowser(t.b)
    IN
    /\ bind <= MaxBindings
    /\ Len(flow) < MaxFlows
    /\ bindings' = IF Held(t.b) # 0 THEN bindings ELSE Append(bindings, t.b)
    /\ flow' = Append(flow, NewFlow(a, bind, methods,
                                    ProviderOf[CHOOSE m \in methods : TRUE], picker))
    /\ tab' = [tab EXCEPT ![a] =
           [@ EXCEPT !.pc = "loading", !.to = "away", !.bind = bind,
                     !.sent = Len(flow) + 1]]

-----------------------------------------------------------------------------
(* The browser.                                                             *)

\* A client sends browser b to /authorize, naming ways it may use or none, by a
\* redirect or by a form post from its own site.
Open(a, b, c, named, posted) ==
    /\ tab[a].pc = "idle"
    /\ named \subseteq Offered[c]
    /\ tab' = [tab EXCEPT ![a] = [@ EXCEPT !.pc = "asking", !.b = b, !.c = c,
                                           !.named = named, !.posted = posted]]
    /\ UNCHANGED <<now, cookie, bindings, flow, ret, signed>>

\* The state of the flow n, if any, is with the browser.
StateOut(n) ==
    [k \in DOMAIN flow |->
        IF k = n THEN [flow[k] EXCEPT !.out = TRUE, !.drawn = Len(bindings)] ELSE flow[k]]

\* The answer arrives with its Set-Cookie and the state of its flow, or is lost.
Deliver(a) ==
    LET t == tab[a] IN
    /\ t.pc = "loading"
    /\ \/ /\ flow' = StateOut(t.sent)
          /\ cookie' = [cookie EXCEPT ![t.b] = [bind |-> t.bind, ends |-> now + FlowTTL]]
          /\ tab' = [tab EXCEPT ![a].pc = t.to]
       \/ /\ tab' = [tab EXCEPT ![a].pc = "closed"]
          /\ UNCHANGED <<cookie, flow>>
    /\ UNCHANGED <<now, bindings, ret, signed>>

Tick ==
    /\ now < MaxTime
    /\ now' = now + 1
    /\ UNCHANGED <<cookie, bindings, flow, tab, ret, signed>>

-----------------------------------------------------------------------------
(* The handlers.                                                            *)

\* Mutant: a form post, which carries no cookie, is taken for a browser without one
\* and given a binding.
Authorize_PostBinds(a) ==
    LET t == tab[a] IN
    /\ t.pc = "asking"
    /\ \/ /\ t.posted
          /\ Len(bindings) < MaxBindings
          /\ bindings' = Append(bindings, t.b)
          /\ tab' = [tab EXCEPT ![a] =
                 [@ EXCEPT !.posted = FALSE, !.pc = "loading", !.to = "page",
                           !.bind = Len(bindings) + 1, !.sent = 0]]
          /\ UNCHANGED flow
       \/ ~t.posted /\ Page(t) /\ ShowPage(a, flow)
       \/ ~t.posted /\ ~Page(t) /\ StartProvider(a, t.named, FALSE)
    /\ UNCHANGED <<now, cookie, ret, signed>>

\* authorize.  A form post from another site carries no cookie, and is sent to
\* ask again by GET; a request for one provider's ways goes straight there.
Authorize(a) ==
    LET t == tab[a] IN
    /\ t.pc = "asking"
    /\ \/ /\ t.posted
          /\ tab' = [tab EXCEPT ![a].posted = FALSE]
          /\ UNCHANGED <<bindings, flow>>
       \/ ~t.posted /\ Page(t) /\ ShowPage(a, flow)
       \/ ~t.posted /\ ~Page(t) /\ StartProvider(a, t.named, FALSE)
    /\ UNCHANGED <<now, cookie, ret, signed>>

\* choose: the page's form, with the token of the binding it was shown under.
\* Without a binding the page is shown again; the card's button, posted because
\* no script ran, shows it again too.
Choose(a, way) ==
    LET t == tab[a] IN
    /\ t.pc = "page"
    /\ way \in Ways(t)
    /\ \/ /\ Held(t.b) = 0 \/ (Held(t.b) = t.bind /\ way = Card)
          /\ ShowPage(a, flow)
       \/ /\ Held(t.b) # 0 /\ Held(t.b) # t.bind
          /\ tab' = [tab EXCEPT ![a].pc = "closed"]
          /\ UNCHANGED <<bindings, flow>>
       \/ /\ Held(t.b) # 0 /\ Held(t.b) = t.bind /\ way # Card
          /\ StartProvider(a, {way}, TRUE)
    /\ UNCHANGED <<now, cookie, ret, signed>>

\* Mutant: a flow used up is found again.
Live_Read(n) == n \in DOMAIN flow /\ now < flow[n].ends

\* ConsumeFlow finds the flow n.
Live(n) == n \in DOMAIN flow /\ flow[n].st = "saved" /\ now < flow[n].ends

\* Consumed, the flow n is in no state to be found again.
Consumed(n) == [flow EXCEPT ![n].st = "spent"]

\* The challenge n is used up, and the binding kept on (bindBrowser) with an answer
\* that leaves the sign-in page.
CardDone(a, n) ==
    /\ flow' = Consumed(n)
    /\ tab' = [tab EXCEPT ![a] = [@ EXCEPT !.pc = "loading", !.to = "closed",
                                           !.bind = Held(tab[a].b), !.sent = 0]]
    /\ UNCHANGED bindings

\* cardAnswer, with the state n of a challenge that the page's script posts: the
\* engine accepts the card's answer (good) and completeCard sends the browser back
\* to the client, or refuses it.  A challenge that is used up or not this client's,
\* and a refused answer, show the page again; one bound to another browser ends
\* here, and an error on the way ends with the binding kept on.
CardAnswer(a, n, good) ==
    LET t == tab[a]
        held == Held(t.b)
        fits == flow[n].up = None /\ tab[flow[n].tab].c = t.c
        here == flow[n].bind = held
    IN
    /\ t.pc = "page"
    /\ Card \in Ways(t)
    /\ n \in DOMAIN flow /\ flow[n].out
    /\ \/ /\ held = 0 \/ (held = t.bind /\ ~Live(n))
          /\ ShowPage(a, flow)
          /\ UNCHANGED signed
       \/ /\ held # 0 /\ held # t.bind
          /\ tab' = [tab EXCEPT ![a].pc = "closed"]
          /\ UNCHANGED <<bindings, flow, signed>>
       \/ /\ held # 0 /\ held = t.bind /\ Live(n)
          /\ \/ /\ ~fits \/ (here /\ ~good)
                /\ ShowPage(a, Consumed(n))
                /\ UNCHANGED signed
             \/ /\ fits /\ ~here
                /\ flow' = Consumed(n)
                /\ tab' = [tab EXCEPT ![a].pc = "closed"]
                /\ UNCHANGED <<bindings, signed>>
             \/ /\ fits /\ here
                /\ CardDone(a, n)
                /\ signed' = IF good
                             THEN signed \cup {[n |-> n, by |-> a, b |-> t.b, m |-> Card]}
                             ELSE signed
    /\ UNCHANGED <<now, cookie, ret>>

\* callback: browser b arrives on provider u's return path with the state n.
Arrives(r, n) == ret[r].pc = "idle" /\ n \in DOMAIN flow /\ flow[n].out

Returned(r) == ret' = [ret EXCEPT ![r].pc = "ended"]

\* The answer to a return that reached another browser (returnedHere).
Elsewhere(r, n, b) ==
    ret' = [ret EXCEPT ![r] = [pc |-> "elsewhere", n |-> n, b |-> b, held |-> Held(b)]]

\* answeredBy: the provider the flow was sent to answers, and the answer does not
\* name another issuer than its own (strange).  A flow that names no provider was
\* sent to the only one there is.
AnsweredBy(n, u, strange) ==
    /\ flow[n].up = u \/ (flow[n].up = None /\ Cardinality(Upstreams) = 1)
    /\ ~strange

\* The state is unknown, used or expired.
ReturnUnknown(r, n) ==
    /\ Arrives(r, n)
    /\ ~Live(n)
    /\ Returned(r)
    /\ UNCHANGED <<now, cookie, bindings, flow, tab, signed>>

\* The flow is used up by an answer that reached another browser, or is not the
\* provider's it was sent to.
ReturnRefused(r, n, b, u, strange) ==
    LET here == Held(b) # 0 /\ Held(b) = flow[n].bind IN
    /\ Arrives(r, n)
    /\ Live(n)
    /\ \/ ~here /\ Elsewhere(r, n, b)
       \/ here /\ ~AnsweredBy(n, u, strange) /\ Returned(r)
    /\ flow' = Consumed(n)
    /\ UNCHANGED <<now, cookie, bindings, tab, signed>>

\* Mutant: whichever browser brings the state.
Accepted_Anywhere(n, b, u, strange) == Live(n) /\ AnsweredBy(n, u, strange)

Accepted(n, b, u, strange) ==
    Live(n) /\ Held(b) # 0 /\ Held(b) = flow[n].bind /\ AnsweredBy(n, u, strange)

\* The provider answers an error, a cancel included: a sign-in begun on the page
\* goes back to it (the request is asked again), another tells the client.
ReturnError(r, n, b, u, strange) ==
    /\ Arrives(r, n)
    /\ Accepted(n, b, u, strange)
    /\ flow' = Consumed(n)
    /\ Returned(r)
    /\ tab' = [tab EXCEPT ![flow[n].tab].pc = IF flow[n].picker THEN "asking" ELSE "closed"]
    /\ UNCHANGED <<now, cookie, bindings, signed>>

\* methodRequested: a flow that asked for no way accepts any.
MethodRequested(n, m) == flow[n].methods = {} \/ m \in flow[n].methods

\* The provider's code is exchanged and the person's way read from its answer: a
\* way that is not the provider's or that the flow did not ask for signs no one
\* in, and nor do claims that fail or are too old.
ReturnSignedIn(r, n, b, u, strange, m, fails) ==
    /\ Arrives(r, n)
    /\ Accepted(n, b, u, strange)
    /\ flow' = Consumed(n)
    /\ tab' = [tab EXCEPT ![flow[n].tab].pc = "closed"]
    /\ Returned(r)
    /\ signed' = IF ~fails /\ m # Card /\ ProviderOf[m] = u /\ MethodRequested(n, m)
                 THEN signed \cup {[n |-> n, by |-> r, b |-> b, m |-> m]}
                 ELSE signed
    /\ UNCHANGED <<now, cookie, bindings>>

-----------------------------------------------------------------------------
Next ==
    \/ \E a \in Tabs, b \in Browsers, c \in Clients, posted \in BOOLEAN :
           \E named \in SUBSET Offered[c] : Open(a, b, c, named, posted)
    \/ \E a \in Tabs : Authorize(a) \/ Deliver(a)
    \/ \E a \in Tabs, way \in Methods : Choose(a, way)
    \/ \E a \in Tabs, n \in DOMAIN flow, good \in BOOLEAN : CardAnswer(a, n, good)
    \/ \E r \in Returns, n \in DOMAIN flow : ReturnUnknown(r, n)
    \/ \E r \in Returns, n \in DOMAIN flow, b \in Browsers, u \in Upstreams :
           \E strange \in BOOLEAN :
               \/ ReturnRefused(r, n, b, u, strange) \/ ReturnError(r, n, b, u, strange)
               \/ \E m \in Methods, fails \in BOOLEAN :
                      ReturnSignedIn(r, n, b, u, strange, m, fails)
    \/ Tick

Spec == Init /\ [][Next]_vars

-----------------------------------------------------------------------------
(* What is checked.                                                         *)

\* The request of a completed sign-in.
AskOf(x) == tab[flow[x.n].tab]

\* A sign-in completes only in the browser it was asked in, and only with a way
\* that the client may use and the request named, if it named any, whatever page,
\* tab, provider or return it went through (returnedHere, answeredBy,
\* methodRequested).
SignedInAsAsked ==
    \A x \in signed :
        /\ x.b = AskOf(x).b
        /\ x.m \in Ways(AskOf(x))
        /\ x.m # Card => flow[x.n].up = ProviderOf[x.m]

\* A stored flow signs someone in once, however often its state returns and at
\* whichever door (ConsumeFlow).
OncePerFlow == \A x, y \in signed : x.n = y.n => x = y

\* "A sign-in started in another tab still finishes" (bindBrowser): no return to
\* the browser the sign-in was asked in is refused as another browser's.
TabFinishes ==
    \A r \in Returns :
        ret[r].pc = "elsewhere" => ret[r].b # tab[flow[ret[r].n].tab].b

\* What takes a binding away from a sign-in that may still return: only an answer
\* that crossed the sign-in's own, its binding drawn before the sign-in's state
\* reached the browser.  The cookie does not end first, and no request made later,
\* in whatever tab or posted from whatever site, draws another binding.
BoundTabFinishes ==
    \A r \in Returns :
        LET q == ret[r] IN
        q.pc = "elsewhere" /\ q.b = tab[flow[q.n].tab].b
            => q.held # 0 /\ q.held <= flow[q.n].drawn

=============================================================================
