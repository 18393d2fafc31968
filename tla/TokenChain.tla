----------------------------- MODULE TokenChain ------------------------------
(***************************************************************************)
(* What the refresh tokens of AI app connections promise, in one step each: *)
(* a connection has one turn to draw its next token.  The turn lies in the  *)
(* application code, passes to the request that takes the code, into the    *)
(* token it draws, to the request that takes that token, and so on; once    *)
(* lost it is not found again, and a connection that ended stays ended.     *)
(* AppConnection, with its store calls, races and outages, implements it.   *)
(***************************************************************************)
CONSTANTS
    Sessions,   \* the connections
    Keys,       \* the requests that draw tokens, each its own
    None

VARIABLES
    status,     \* of each connection
    turn,       \* where its turn lies, and with whom
    drawn       \* the tokens that were ever drawn

vars == <<status, turn, drawn>>

Turn == [at : {"none", "code", "hand", "token", "lost"}, by : Keys \cup {None}]

Lies(at, by) == [at |-> at, by |-> by]

Init ==
    /\ status = [s \in Sessions |-> "none"]
    /\ turn = [s \in Sessions |-> Lies("none", None)]
    /\ drawn = {}

\* The sign-in makes the connection's session.
Begin(s) ==
    /\ status[s] = "none"
    /\ status' = [status EXCEPT ![s] = "live"]
    /\ UNCHANGED <<turn, drawn>>

\* The person's choice saves the code, once.
Offer(s) ==
    /\ turn[s].at = "none"
    /\ turn' = [turn EXCEPT ![s] = Lies("code", None)]
    /\ UNCHANGED <<status, drawn>>

\* A request takes the code or the last token, which is then good no more.
Take(s, r) ==
    /\ turn[s].at \in {"code", "token"}
    /\ r \notin drawn
    /\ turn' = [turn EXCEPT ![s] = Lies("hand", r)]
    /\ UNCHANGED <<status, drawn>>

\* Who has the turn draws the next token.
Draw(s, r) ==
    /\ turn[s] = Lies("hand", r)
    /\ r \notin drawn
    /\ turn' = [turn EXCEPT ![s] = Lies("token", r)]
    /\ drawn' = drawn \cup {r}
    /\ UNCHANGED status

\* The turn is lost: refused, failed, revoked.
Lose(s) ==
    /\ turn[s].at \in {"code", "hand", "token"}
    /\ turn' = [turn EXCEPT ![s] = Lies("lost", None)]
    /\ UNCHANGED <<status, drawn>>

\* The connection ends, or its lifetime does and its token with it.
End(s) ==
    /\ status[s] = "live"
    /\ status' = [status EXCEPT ![s] = "ended"]
    /\ \/ UNCHANGED turn
       \/ /\ turn[s].at = "token"
          /\ turn' = [turn EXCEPT ![s] = Lies("lost", None)]
    /\ UNCHANGED drawn

Next ==
    \E s \in Sessions :
        \/ Begin(s) \/ Offer(s) \/ Lose(s) \/ End(s)
        \/ \E r \in Keys : Take(s, r) \/ Draw(s, r)

Spec == Init /\ [][Next]_vars

=============================================================================
