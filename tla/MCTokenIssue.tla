---------------------------- MODULE MCTokenIssue ----------------------------
(* Small instances of TokenIssue for TLC: a portal and its edge, an AI app   *)
(* and its server, and a service behind both.                               *)
EXTENDS TokenIssue, TLC

CONSTANTS
    edge, mcp, files,  \* service clients, each its own audience too
    portal, app,       \* sign-in clients
    portalAud, appAud, \* their audiences
    b1, b2,            \* boxes
    work, power        \* levels: one that may be named for assistants, one never

NoGrant == [given |-> FALSE, scopes |-> {}, assistant_levels |-> {}]

To(aud, scopes, named) ==
    [a \in Audiences |->
        IF a = aud THEN [given |-> TRUE, scopes |-> scopes, assistant_levels |-> named] ELSE NoGrant]

Serving(grants, actFrom) == [enabled |-> TRUE, grants |-> grants, act_from |-> actFrom]

Portal(required) ==
    [enabled |-> TRUE, ai_app |-> FALSE, audience |-> portalAud, scopes |-> {},
     baseline_scopes |-> IF required THEN {} ELSE {work}, membership_required |-> required]

App(on, scopes) ==
    [enabled |-> on, ai_app |-> TRUE, audience |-> appAud, scopes |-> scopes,
     baseline_scopes |-> {}, membership_required |-> TRUE]

\* A document of the rows of this instance's clients.
Doc(rowOf, portalRow, appRow) ==
    [clients |-> [c \in ServiceClients |-> rowOf[c]],
     sign_in |-> [c \in SignInClients |-> IF c = app THEN appRow ELSE portalRow]]

\* The app's server calls files, which calls it back; the portal's edge calls files.
\* The server's level toward files is named for assistants, files' is not.
Rows ==
    (edge :> Serving(To(files, {b1, power}, {}), {portalAud})) @@
    (mcp :> Serving(To(files, {b1, b2, work}, {work}), {appAud})) @@
    (files :> Serving(To(mcp, {b2, work}, {}), {}))

\* Chains of an assistant: the document above, one whose app was cut to one box and
\* whose levels are no longer named, one whose app is turned off, and one that must
\* not start, whose app asks for a level.
ChainDocuments ==
    {Doc(Rows, Portal(TRUE), App(TRUE, {b1, b2})),
     Doc([Rows EXCEPT ![mcp] = Serving(To(files, {b1, b2, work}, {}), {appAud})],
         Portal(TRUE), App(TRUE, {b1})),
     Doc(Rows, Portal(TRUE), App(FALSE, {b1, b2})),
     Doc(Rows, Portal(TRUE), App(TRUE, {b1, power}))}

\* A client whose people need a membership, and the same once they need none.
MembershipDocuments ==
    {Doc(Rows, Portal(TRUE), App(TRUE, {b1})), Doc(Rows, Portal(FALSE), App(TRUE, {b1}))}

\* The role gives a level, so the app's server is a service account where it is a
\* member.
ChainRoles == {{work}}

MembershipRoles == {{work}}

=============================================================================
