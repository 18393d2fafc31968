# authbyte: a TLA+ verification of the session, sign-in, identity, token, proof and key logic

authbyte is an OAuth 2.0 authorization server. Several instances of it share a
cache (Valkey) and nothing else; each keeps its signing keys in memory. This
directory holds TLA+ modules translated from its Go source, TLC configurations
that check them on small instances, and TLAPS proofs of the theorems that hold
for every instance. Paths below are relative to the repository's root.

## The system's parts

| Part | State it keeps | Operations | What is hard about it |
|---|---|---|---|
| Shared sessions (`routes/shared.go`, `session/shared.go`, `routes/logout.go`) | `shared:{id}`, `shared-apps:{id}`, the browser's cookie | join at a sign-in, answer a request, record an app, end | whole-record writes by several requests at once; a record and a list removed in two calls; entries that run out |
| App sessions (`routes/authorize.go`, `token.go`, `refresh.go`) | `sessions:{sid}`, `codes`, `refresh:{hash}` | create, exchange the code, refresh, revoke | a session ended while another request saves it; a step of several that fails |
| AI app connections (`routes/aiapp.go`, `connections.go`) | sessions with an assistant, rotating refresh grants, an index per assistant | choose, connect, refresh, use, list, sign out one or all, revoke | refresh tokens that race and are reused; a rotation that fails halfway; a sweep over a changing index |
| Sign-in flow (`routes/authorize.go`, `signin.go`, `webeid.go`, `cookies.go`, `upstream/set.go`) | `flows:{state}`, the binding cookie | request, page, choice, card answer, provider's return | one binding cookie for all tabs; answers that cross or are lost; states returned twice or elsewhere |
| Tokens (`routes/token.go`, `aiapp.go`, `issuer/issuer.go`) | none; claims carry it | four grants | chains of exchanges under a registry that is redeployed and memberships that change |
| Client registry (`registry/registry.go`) | one document | load, validate, grant matrix | what its rows allow in combination |
| Membership register client (`rolebyte/`) | none | claim, resolve, admit, assistants | answers that change between two asks |
| Signing keys (`keys/keys.go`, `app.go`) | active and retired keys per instance | sign, publish, reload, rotate | a rotation in the middle of a signing; instances that rotate apart |
| Identity of a sign-in (`upstream/`, `identity/identity.go`, `routes/oidc.go`, `webeid.go`, `identity.go`, `store/postgres.go`) | persons and credentials, in a database outside the repository | ask a provider, read and check its answer, map it to a person, register one | handles that are unique only at their provider; one code spelled several ways; a provider that answers from a session of its own; clocks that differ |
| DPoP proofs (`routes/dpop.go`, `session/replay.go`) | `dpop-proofs:{jti}`, a nonce key per instance | check a proof, challenge, remember it | a proof delivered twice, to two instances, or to a slow one; an entry that expires; a nonce key that dies with its instance |
| Page, catalogue of signing identities, audit, documents, configuration | | | not modelled: see the end |

The components call each other within one HTTP request; requests meet only in
the cache, in the browser's cookies, and in a key manager's lock. So a *request*
is the process of these models, and a *store call* its atomic step.

## Modules

Every specification has an `MC...` module that EXTENDS it with what TLC needs
(model values for its constants, symmetry sets).

**`SharedSession`** — the shared sessions, the app sessions under them, code
exchange, refresh, `/revoke` and `/logout`. `req[r]` holds where request `r` is
(`pc`), what it read, and what its answer will set (`set`). Each handler is split
at its calls to the store: `joinShared` is `JoinLoad` (browserShared),
`JoinReplace` (ReplaceShared) and `JoinCreate` (CreateShared); `answerFromShared` is
`AnswerLoad`, `CreateSession`, `AddSharedApp`, `SharedLive`, `SaveAppCode`; `endShared`
is `EndRecord`, `TakeApps` and, per session, `EndLoad`, `EndGrant`, `EndDel`, run inside
whichever request ends something and returning to `ret`. A request draws at most
one random value of each sort, so it names them: the session request `r` makes is
`sess[r]`, the refresh token of exchange `k` is `grant[k]`. Every call has a
disjunct in which it fails (`Fails`, at most `MaxOutages` times) and leads where the
Go error path leads. Expiry is the clock `now` against the stored ends.

**`AppConnection`** — one assistant's connections: the choice ticket, the code,
the refresh grants with their used mark (`rotated`), the index. Built like
`SharedSession`. `endConnection` is `EndSession`, `EndGrant` (twice: the session's key
and the token presented) and `Unindex`; `findConnection` and `connectionLines` are
`FindConnection`, `FindSession`, `DropIndex`. The register is one bit, `owned`; a
session's end of life is the action `Expire`.

**`TokenChain`** — what the refresh tokens of a connection promise, without the
store: each connection has one *turn* to draw its next token, which lies in the
code, in the hand of the request that took the code or the token, in the token it
drew, or is lost. `AppConnection` implements it (`Chain == INSTANCE TokenChain WITH
...`, property `OneTurn`): the mapping reads the turn off the codes, the grants
and the requests that are between taking one token and saving the next (`InHand`,
`Renewable`, `TurnOf`), so every store call, race and outage is a step of the chain
or none.

**`SignInFlow`** — from `/authorize` to a completed sign-in. A handler does one
thing at the store that others can see (it saves or consumes a flow), so each
handler is one action; `Deliver` is the answer reaching the browser with its
Set-Cookie, or lost. The provider's return may be brought by any browser on any
provider's return path, and may name another issuer than its own (`strange`);
`returnedHere` is `Held(b) = flow[n].bind`, `answeredBy` is `AnsweredBy`. Two fields record
what no action reads: how many bindings had been drawn when a flow's state reached
its browser (`drawn`), and what a browser sent with a return that was refused as
another browser's (`held`).

**`TokenIssue`** — what tokens carry. Each grant is one action; the registry
document in force, the register's memberships and assistants and the sessions are
its state. The history variables are `deployed` (every document that was in force)
and a token's `origin` (the token its chain began with); no action reads them.
`AllowedScopes` is the set of answers over every request, so a client asking for
part of its grant is covered.

**`BrokeredSignIn`** — who a sign-in signs in, and how fresh it is. `Start` is the
request sent on (`startProvider`, `signInAsk`), `Authenticate`,
`AnswerFromOwnSession`, `CardSigns` are what the provider or the card does with it,
`CrossAnswer` and `CrossUserInfo` an answer that belongs to somebody else. A
return is two actions, split where another request may come between: `Callback`
or `CompleteCard` up to the mapped person (`Claims`, `verifyIDToken`, `Resolve`,
`MethodAllowed`, `signInMoment`, `EnsureMapping`), and `SaveSignedIn` with the shared
session. `AnswerFromShared` answers a later request, `RegisterPerson` is the
administrator's. The fields `who`, `at`, `by` of a sign-in record what really
happened; no action reads them to decide. The database's procedures are external:
a person is found by code where there is one, by provider and handle where there
is none, as the comment of `EnsureMapping` says. What the module assumes of the
outside is in its ASSUMEs: handles are unique per provider, the codes of a
provider that is trusted with codes are true, a provider states `auth_time` or does
as `prompt=login` asks, clocks differ by at most `Skew`. How much older than asked a
sign-in may then be is `Early` (that skew, and the provider's clock) where a time is
stated and `Late` (the time a sign-in may take) where none is. A provider without a key
set is taken to answer the sign-in that asked: nothing in its answer would tell.

**`ProofReplay`** — `verifyEndpointDPoP`: the proof's age and nonce are checked in
one step (`Refuse`, `Challenge`, `Admit`), the replay guard is asked in a later one
(`CheckAndSet`, or `CheckAndSetFails` with the entry written or not). Clients sign
a new proof after each refusal, with the last nonce they were given; the network
delivers copies to any instance; a restart takes the nonce key and the handlers.
`dpop.Verify` is handed `MaxAge` and `Leeway` and holds `iat` against both, ahead and
behind (`Timely`); the entry is kept for `MaxAge + Leeway` from the first acceptance. Nothing
bounds how far ahead a client's clock is or how long a handler takes between the
two, so neither does the module: when an entry ends, a proof signed by a clock ahead is
still in time, and a handler that admitted it earlier may still be on its way. The
instances share one clock.

**`KeyRotation`** — `Manager` per instance, `SignTyped` split at its unlock
(`SignReads`, `SignStamps`), the reloader split at its read of the secret
(`ReadSecret`, `MaybeRotate`), restarts.

**`SharedSessionShape`, `SharedSessionProofs`, `AppConnectionProofs`, `SignInFlowProofs`,
`BrokeredSignInProofs`, `TokenIssueProofs`, `KeyRotationProofs`, `ProofReplayProofs`** —
theorems and their proofs, each about the module it is named for.

The modules are composed by construction, not by INSTANCE: what a grant does to
the store is in `SharedSession` and `AppConnection`, what it puts in the token is in
`TokenIssue`, and a completed sign-in of `SignInFlow` is `SignInReturns` of
`SharedSession`; whose sign-in it is, `BrokeredSignIn` says, with the flow and the
shared session whole. Only `AppConnection` is related to another module formally,
to `TokenChain`.

### Abstractions that matter

* A store call either takes effect or fails without effect. A call that took
  effect and whose answer was lost is not modelled.
* Secrets, hashes and tokens are compared for identity; `good` says whether a
  caller presents what the entry was issued for.
* `AnswerLoad` may pick any way that fits, or send the request on to the page:
  `acr_values`, `max_age`, `prompt` and the register's answer, over every request,
  decide exactly that.
* `TokenIssue` takes each grant as one step. What happens between its store calls
  is the other modules' matter.
* An application code's 60 seconds are a choice, not a clock. A DPoP proof's age is
  a clock, in `ProofReplay`; elsewhere a proof passes or not.
* In `BrokeredSignIn` the sign-ins are those of products (an AI app's joins no
  shared session), nobody signs out, and a word of a vocabulary is a token with
  its length and its place in the alphabet: `indexPolicy` orders by nothing else.

## Runs

Sizes are distinct states; times are of a small machine with two workers.

| Run | Instance | Shows |
|---|---|---|
| `sso_signout` (957 k, 140 s) | 2 sign-ins of 2 people, an answer, a logout, 2 clients of one method each, 1 browser, clock to 1 | `SharedSubject`, `AnsweredReached`, `OneSessionPerClient`, `AnsweredOnProof`; under fairness `SignOutReaches` |
| `sso_faults` (1.0 M, 50 s) | sign-in, answer, 2 exchanges, refresh, revoke; 1 failing call; entries end after 1 tick | `SessionNamesItsGrant`, `StaysEnded`, `AnsweredListed`, `OutageIsNoRefusal`, `RefusedOnlyWhenEnded` |
| `app_chain` (81 k, 40 s) | choice, connect, 2 refreshes, revoke, 1 failing call | `NoFork`, `CanStillRefresh`, `SaidEndedIsEnded`, `StaysEnded`; the refinement `OneTurn`; under fairness `ReuseEnds` |
| `app_signout` (1.2 M, 60 s) | connect, refresh, use, list, sign-out of one, sign-out of all, 1 failing call | `ConnectedIsListed`, `SaidEndedIsEnded` |
| `key_overlap` (377 k, 30 s) | 1 instance, 3 keys, 2 tokens, 1 restart | `SignerVerifies`; under fairness `Converges` |
| `flow_signin` (518 k, 105 s) | 2 browsers, 2 tabs, 2 clients, 2 providers and the card, 2 returns, 2 flows, 2 bindings, clock to 1 | `SignedInAsAsked`, `OncePerFlow`, `BoundTabFinishes` |
| `issue_chain` (585 k, 140 s) | an assistant, 2 services that call each other, one of them a service account where its tenant made it a member, 4 documents (one invalid), 3 hops | `NoBoxBeyondTheApp`, `NamedLevelsOnly`, `CarriedForward`, `ActedForATenant` |
| `issue_products` (77 k, 60 s) | a portal, the edges of two products, 2 tenants, 2 documents, 2 hops | `Confined`, `SessionKeepsTenant` |
| `dpop_replay` (127 k, 30 s) | 1 client at one of 2 instances, 7 proofs, 2 handlers, 1 fault (copy, outage, restart, lost answer), a clock ahead by 1, clock to 4 | `AcceptedAgainLate`; under fairness `Served` |
| `signin_identity` (1.8 M, 115 s) | 2 people, a national provider, a directory, the card; 2 sign-ins, 1 answer, 1 registration, 1 fault, clock over 3 ticks | `PersonsToldApart`, `PersonFoundAgain`, `FreshAsAsked` |
| `sso_signin_orphan` | 2 sign-ins, a logout | `SignedInReached` is violated |
| `app_revoke_outage` | connect, revoke, 1 failing call | `RevokedAppIsEnded` is violated |

Deadlock is not checked where a behaviour consists of a finite set of requests,
which may all be answered; the key run checks it.

### Bounds

A request is used once, so the sets of requests bound a behaviour; every handler
appears in some run together with those it shares entries with. The races here
are between two, at most three, requests over one entry (a sign-in, the answer
recorded under it, the sign-out that removes it), so two requests of the handler
in question and one of each rival show them. `MaxOutages = 1` reaches every single
failing call at every point of every handler; two failures in one request mostly
take the path of the first. A clock of `SessionTTL + 1` ticks lets every entry
be alive, at its end and past it. Three keys are the fewest with which a key is
retired twice over. `MaxTokens` bounds the tokens out at once (2: one and the one
exchanged from it), `MaxHops` the actors of a chain. `dpop_replay` has a proof for the
challenge, one for its answer, and one for each fault and each expiry a run can
hold; its clock runs past the end of an entry written at the first tick, with a client's
clock ahead and a handler that asks late, so that a second acceptance happens.
`AnsweredReached`, `OneSessionPerClient` and `AnsweredListed` speak of a shared session until
the end it was made with (`NotRunOut`): sign-ins that join it move its end on, but not
that of the list and of the sessions already under it, and why the properties stop
there is under Known divergences. In `sso_signout` no shared session comes that far;
with one person and `MaxTime = 2` TLC finds them, and `AnsweredOnProof`, to hold as well, and
the theorems cover any clock. One method at each client keeps the run small and
loses no race: two sign-ins and the answer still meet in the record, the list and
the cookie.
`signin_identity` has two people of one handle, a code three parties spell
differently, a directory that states everybody's code and is not trusted, a
directory that answers from its own session with a clock that is behind by the skew, and
a clock that passes a flow's end and a `max_age`: an answer of the directory, and a way of
it that the shared session keeps, comes too old for a `max_age` of 0 by more than the
skew, for the code to refuse. The theorems have no bounds.

### Fairness

`AppConnection` assumes weak fairness of each request's own steps: a handler that was
called runs to its answer, as a goroutine does. `SharedSession` assumes less, that while
requests are under way one of them goes on; each has finitely many calls to make, so
with the finitely many requests of a run that is as much. No request need
arrive, no answer need be delivered, the clock need not move. `KeyRotation` assumes
weak fairness of the reloader's read and rotation, since its ticker fires for as
long as the process runs. `ProofReplay` assumes that a client goes on asking until
it is served, that its own request arrives and that a handler runs on; no copy
need be made and no fault need end.

## What is proved

TLAPS checks these for every value of the constants.

`SharedSessionShape`, from the sorts of requests being disjoint:
* `TypeCorrect`: `Spec => []TypeOK`. The types alone are not inductive, since
  whether a step reads a defined value depends on where its request came from.
  `ShapeInv` adds which steps each sort of request takes and where it goes on after
  it has ended sessions (`Placed`), what it has read by then (`Informed`), and that
  grants and sessions name each other (`GrantsNamed`).

`SharedSessionProofs`, from `ShapeInv`:
* `EndedStaysEnded`: `Spec => StaysEnded`. A plain write could bring an entry back, so
  the proof is that the only plain writes (`JoinCreate`, `CreateSession`) go where
  there was none. `FreshInv` says so: until its request has made it a session does
  not exist, and neither the list, a code, a grant nor another request names it,
  so nobody can end it before it is made.
* `OnePersonPerBrowser`: `Spec => []SharedSubject`. `SubjectInv` adds that a request
  about to write a shared session or make a session under it names one that was
  made and is of its own person; a shared session that was made keeps its person.
* `AnswersRestOnProof`: `Spec => []AnsweredOnProof`. A sign-in writes the whole record, over
  whatever another wrote since it read (`ReplaceShared` is SET XX and compares
  nothing), so ways are lost; what is proved is that none is invented, carried to
  another person or prolonged. `ProvedInv` follows a way from the sign-in that proved it
  through every copy: the record (`SharedBacked`), what a request read of it and is
  about to write or answer from (`Backed`), and the cookie that led there
  (`CookiesBacked`).
* `NamesItsGrant`: `Spec => []SessionNamesItsGrant`. `ExchangedInv` follows a code through
  its exchange: one exchange at most has spent it and is past it, and a grant or a key
  is of an exchange of that session. So nobody overwrites the key that was answered.
* `NoOutageRefuses`: `Spec => []OutageIsNoRefusal`, and `RefusedMeansEnded`: `Spec =>
  []RefusedOnlyWhenEnded`. `RefreshInv` says that a refused refresh of the right caller saw
  a grant or a session gone; both stay gone. Why they are gone is the second
  theorem: a grant is removed only by a request that has set out to end its session
  (`TodoInv`: such a request has the session in `todo` until it removed it) or by a
  revocation that read it (`RevokeInv`), while no call fails (`RemovedInv`). A session
  stays set out for while its request goes on (`EndingKept`).
* `AnsweredIsListed`, `OnePerClient`, `SignOutFindsAnswered`: the three properties of what a
  sign-out reaches (`AnsweredListed`, `OneSessionPerClient`, `AnsweredReached`). All start from
  what ties a session to its request: the same shared session (`TiedInv`), of ends
  no earlier than the end that shared session was made with (`FirstEnd`, `DatesInv`). Then `ListedInv`: an answer that goes on is
  listed while its shared session is live, since only a sign-out that has removed
  the record takes a list. `RecordedInv`: a recorded session that lives is still the
  one on the list, or whoever took its place or the list has set out to end it.
  `AnsweredLiveInv`: an answer reads the record after it was listed, so if its
  session may be redeemed and the record is gone, the request that removed the record
  still has the list to take, and finds the session there, or has taken it. Failing
  calls are outside the last two, as they are outside the properties: an end that fails
  is only logged.

`AppConnectionProofs`, from the sorts of requests being disjoint:
* `TypeCorrect`: `Spec => []TypeOK`, by `Shape`: for each sort of request where it may be
  and what it has read by then.
* `NeverForks`: `Spec => []NoFork`. `Turns` says that a ticket lets one choice on to the code,
  that the code is saved once (`OneChoice`), and that after it was spent one key at
  most has the connection's turn (`OneHolder`): the request that took the code or
  the token, or the token it drew. `SaveRefresh` moves the turn, and `TakeRefresh` is
  where two that race part.
* `Implements`: `Spec => OneTurn`, the refinement of `TokenChain`. Under `Turns` the mapping is
  told by where the turn is found (`TurnsTold`). The effects of the store calls are
  sorted into nine (`CodeTaken`, `TokenTaken`, `NextDrawn`, ...), each a step of the chain
  or none.
* `NeverRevived`: `Spec => StaysEnded`. A request that read a session before it ended writes it
  only while it is there.
* `EndedWhenSaid`: `Spec => []SaidEndedIsEnded`, and `LiveIsListed`: `Spec => []ConnectedIsListed`.
  `AllTold` says of each request what it knows to have ended: a revocation and a
  sign-out past their removal, and of a sweep that what it found and has not left
  to do is ended (`Swept`). A connection leaves the index only when ended.
* `NeverStranded`: `Spec => []CanStillRefresh`. While no call failed a live connection's turn
  is with a request that will answer its app, or in a token that was answered
  (`Chance`): who has the turn goes on to the answer, and nobody removes a grant
  before its session.

`SignInFlowProofs`, from the ways, tabs and browsers being what the ASSUMEs say:
* `TypeCorrect`, `AsAsked` (`SignedInAsAsked`), `OnceEach` (`OncePerFlow`) and `BoundFinishes`
  (`BoundTabFinishes`). One invariant, `Shape`, gives all four: a request carries a
  binding that was drawn for its browser (`TabOK`), a flow asks for ways of its
  request and is bound to its browser (`FlowOK`), and a flow whose state a browser
  has ends no later than that browser's cookie, because every flow renews
  the cookie's lifetime; a completed sign-in used its flow up (`SignedOK`). While the flow
  lives, then, no binding is drawn for its browser (`NoneLater`), so a return that its own
  browser brings and is refused finds there a binding drawn before the state was out:
  an answer that crossed (`RetOK`).

`BrokeredSignInProofs`, from the handles, codes and clocks being as the ASSUMEs say:
* `TypeCorrect`: `Spec => []TypeOK`.
* `ToldApart`: `Spec => []PersonsToldApart`. There is a function from subjects to people
  (`Owner`) such that every code, credential, mapped sign-in, kept way and registration of a
  subject is that person's; a step extends it by the subject it makes. That an
  answer is of the person it says rests on `AnswerOK`: an ID token names the sign-in
  that asked for it.
* `FoundAgain`: `Spec => [](AlikeTrusted => PersonFoundAgain)`. A code has one subject (`OneOfCode`),
  and what a person authenticated by is kept for the subject found (`Settled`). The
  hypothesis `AlikeTrusted` is about the entries of the provider list: two that keep
  people under one credential provider are both trusted with codes or neither is.
  Without it the property fails: the entry that reads codes finds the person by
  the code and moves the credential there, so the other entry's sign-ins, found by the
  credential, change subject (TLC shows it with three sign-ins). One entry per
  provider satisfies it, as in `signin_identity`.
* `Fresh`: `Spec => []FreshAsAsked`. What was sent on, returned and kept for a sign-in is
  bounded by clock readings of both sides (`ReturnedOK`, `MappedOK`, `WaysOK`).

`ProofReplayProofs`, from no more than the constants' types:
* `TypeCorrect`: `Spec => []TypeOK`.
* `AcceptedAgain`: `Spec => []AcceptedAgainLate`. An entry lasts `MaxAge + Leeway` from each
  acceptance (`Remembered`), so two acceptances are that far apart (`Apart`); and whoever
  admitted a proof did so no later than that long after its `iat` (`AdmittedInTime`). So one
  accepted again was admitted before the entry ended, or its `iat` was ahead of the
  first acceptance.

`KeyRotationProofs`:
* `TypeCorrect`: `Spec => []TypeOK`, on which the next rests; no run checks it.
* `OverlappingRotation`: `Spec => []SignerVerifies`. The property alone is not
  inductive: a key read by a signing under way must still be published when the
  token is stamped (`SigningPublished`), an expired token must not be needed to carry
  the induction (`SignedPublished` drops the clock), and no token names a start that
  has not been. The step rests on `PublishedGrows`: an instance's JWKS only loses
  a key when it is started again.

`TokenIssueProofs`, from the registry's types, boxes and levels being disjoint,
people and services being disjoint, and assistants' keys being no client's:
* `TypeCorrect`: `Spec => []TypeOK`.
* `BoxesNeverWiden`, `LevelsAreNamed`, `DelegationCarriesForward`,
  `OnlyServiceAccountsActedFor`, `ChainsAreConfined`, `SessionsKeepTheirTenant`: the
  six safety properties of the runs, for chains of any length and any sequence
  of registry documents.

Their common argument is `TokenStep`: a token that appears in a step is a door
token, a person's, an AI app's, a service's, or one exchanged from a token that
was out, with the guards of the grant that issued it. Each theorem then looks at
the five. `ChainsAreConfined` strengthens `Confined` by `Arrived` (the audience a chain
has come to is itself in every closed set it began in) and uses that deploying a
document can only make fewer sets closed; `SessionsKeepTheirTenant` needs that the
session a token was issued in exists and is never made again (`SessionMade`).

Every invariant of the passing runs is a theorem, and so are the action properties
`StaysEnded` and the refinement `OneTurn`. Only model-checked: the liveness properties
(`SignOutReaches`, `ReuseEnds`, `Converges`, `Served`), since fairness and ENABLED are out of the
proof system's reach.

## Findings

Two runs show the code at odds with what the repository says of it:
a sign-in recorded after a sign-out took the list is reached by no sign-out
(`sso_signin_orphan`); an outage while an app's revocation reads its session is
answered as done (`app_revoke_outage`).

### Known divergences

The modules also state what the repository says where TLC refutes it without a
run of its own. Each is refuted by adding it to the named configuration changed
as given.

| Property | Refuted with | What happens |
|---|---|---|
| `RevokedMeansEnded` | `sso_faults`, Revokes = {v1, v2} | `revoke` removes session and grant, then `endShared` fails and is only logged (`routes/refresh.go:200`); the retry finds no grant and is answered 200. The comment at :195 says the shared session ends. |
| `KeepsEveryWay` | `sso_signout`, SignIns = {s1, s2, s3}, Answers = {}, Logouts = {}, People = {alice}, MaxTime = 0 | two sign-ins read one record and each writes it whole (`session/store.go:293`, SET XX): the second drops the first's way. `session/shared.go:8`: it holds "each way they proved who they are". |
| `ListKeptToTheEnd` | `sso_faults`, SignIns = {s1, s2}, SingleSignOn = {c1, c2}, no exchange, refresh or revoke, SessionTTL = 2, MaxTime = 3 | an answer that read the shared session before a sign-in prolonged it sets the list's end back (`session/store.go:50`); README: kept until "the shared session's end". |
| `AnsweredEndsWithItsWay` | `sso_faults`, no exchange, refresh or revoke, SessionTTL = 2, MaxTime = 3 | the lifetime is computed before the register is asked and applied after (`routes/shared.go:182`); README: "ends when that way ends, never later". |
| `AnsweredReached` and `OneSessionPerClient` without `NotRunOut` | `sso_signout`, People = {alice}, MaxTime = 3 | a session made a tick after its shared session outlives it, and nobody can end what a shared session that ran out had listed; where the list's end was set back (above) the next app finds no earlier session to end. |
| `AnsweredListed` without `NotRunOut` | `sso_signout`, People = {alice}, MaxTime = 3 | the list runs out before its shared session, as for `ListKeptToTheEnd`. |
| `PersonFoundAgain` without `AlikeTrusted` | two entries of one credential provider, one trusted with codes, 3 sign-ins | the trusted entry relinks the person's credential to the subject of the code (`store/postgres.go:148`). |
| `RetryEnds` | `app_chain`, Refreshes = {f1, f2, f3}, Revokes = {} | a reuse found at the take has spent the mark (`routes/aiapp.go:441`); if the connection then cannot be ended the retry is a plain refusal. The comment at :528 says it is ended then. |
| `RefreshKeyNamesToken` | `app_signout` | a use writes LastUsed with the session it read before a refresh (`routes/aiapp.go:596`) and puts the old refresh key back. |
| `TabFinishes` | `flow_signin` | two tabs opened at once are given two bindings, and the later cookie replaces the first (`routes/cookies.go:99`). |
| `OneTenantPerSession` | `issue_products`, MaxTokens = 3 | a session issued with several memberships and none chosen resolves at each refresh to whichever single one is left (`routes/token.go:581`). |
| `NoGap` | `key_overlap`, Instances = {i1, i2} | instances take a new key at different moments (`app.go:462`). |
| `RetiredWithinWindow` | `key_overlap`, MaxTime = 2 | nothing removes a retired key (`keys/keys.go:162`), so it is published and verifies for as long as the process runs; README.md:448: "active + retired-within-window". |
| `AcceptedOnce` | `dpop_replay`, also with Ahead = 0 | the entry ends `MaxAge + Leeway` after the acceptance (`routes/dpop.go:55`), and `Verify` takes the proof until that long after its `iat` and may have done so before: a clock ahead, or a handler between the two calls, outlasts the entry. `session/replay.go:12`: "accepted once across every instance". |
| `FirstHopOnly` | `dpop_replay` | a nonce is bound to the key its instance drew at its start (`app.go:294`), so a request that reaches another instance is challenged again; README.md:321: "first hop only". |
| `DirectoryOfItsWay` | `signin_identity`, Trusts = {eParaksts, directory}, People = {ann}, MaxTime = 0, MaxFaults = 0 | an answer takes the directory of the latest sign-in with the way of an earlier one (`routes/shared.go:175`); `session/session.go:126`: "the identity provider the session's login came through ("" for a card login)". Admission at the token issue reads it (`routes/token.go:78`). |
| `LevelNamedWins({"level:low"})` | `signin_identity`, an answer that says `mobile-eid` and `level:low` | `level:low` is shorter than `mobile-eid` and loses to its "high" (`identity/identity.go:166`); the comment at :157: "explicit `level:*` wins (longest match)". |

One more was met in code that is not modelled: `SelectSigning` takes an eID Scan
identity by its description alone (`identity/catalog.go:104`), enabled or not and
with or without `sign`, where the comment at :5 asks for both.

## Plan

1. An abstract specification of single sign-on (sessions that end together with what
   they were answered from) that `SharedSession` implements but for the finding above,
   with the refinement proved from `BrowserInv`.
2. The safety part of `SignOutReaches`: that a request that took a list ends every
   session on it before it answers (`EndingKept` is its step).

## Not modelled

The catalogue of signing identities (`identity/catalog.go`, `routes/capabilities.go`:
it decides nothing at a sign-in); the reads of persons (`routes/persons.go`); the
HTTP calls, signatures and discovery of the connectors and of the card engine,
whose outcome is a choice; the procedures of the identity database, which is not in
the repository; the provider's own logout; reading of credentials, parameters and
addresses; the page's rendering; discovery and readiness documents; audit records,
which nothing reads back; configuration and start-up, except for the reloader.
