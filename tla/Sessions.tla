------------------------------- MODULE Sessions -------------------------------
(***************************************************************************)
(* Sessions of one account: the refresh_tokens table and the handlers that *)
(* rotate and revoke its rows, and the dashboard's HTTP client in several  *)
(* tabs of one browser.  An access token expires, its call is refused, and *)
(* the tab exchanges the refresh token it finds in localStorage, once for  *)
(* all the calls that wait (refreshInFlight), then replays them.           *)
(*                                                                         *)
(* Tokens are numbered in the order they are issued, and a login is named  *)
(* by its first token.  Access tokens are left out: a call is refused with *)
(* 401 at any time, early or late.                                         *)
(***************************************************************************)
EXTENDS Integers

CONSTANTS
  Tab,          \* tabs of the dashboard in one browser
  Call,         \* API calls a tab makes at a time
  Exchange,     \* slots for POST /auth/refresh, numbers
  NoExchange,   \* the tab refreshes nothing
  MaxTokens,    \* bound on tokens: further exchanges fail
  MaxLost       \* bound on lost requests, answers, handlers and pages

ASSUME SessionsAssumption ==
  /\ Exchange \subseteq Nat
  /\ NoExchange \notin Exchange
  /\ MaxTokens \in Nat /\ MaxLost \in Nat

NoToken == 0

VARIABLES
  issued,     \* tokens issued so far: 1..issued are the rows of refresh_tokens
  revoked,    \* rows whose column revoked is set
  login,      \* the login a token descends from
  at,         \* where each exchange is
  presented,  \* the refresh token it presents
  fresh,      \* the token it has issued
  stored,     \* secsight_refresh in localStorage
  page,       \* what each tab shows
  call,       \* state of each API call
  flight,     \* refreshInFlight
  out,        \* state of the tab's POST /auth/logout
  leaving,    \* the refresh token that request carries
  lost,
  ended,      \* logins that somebody has logged out of
  disturbed   \* logins of which two operations overlapped, or a tab was
              \* reloaded during an exchange

tableVars == <<issued, revoked, login>>
exchangeVars == <<at, presented, fresh>>
tabVars == <<page, call, flight, out, leaving>>
sessionVars == <<tableVars, exchangeVars, stored, tabVars, lost,
                 ended, disturbed>>

Live(x) == x \in (1..issued) \ revoked

Init ==
  /\ issued = 0 /\ revoked = {} /\ login = [x \in 1..MaxTokens |-> x]
  /\ at = [e \in Exchange |-> "free"]
  /\ presented = [e \in Exchange |-> NoToken]
  /\ fresh = [e \in Exchange |-> NoToken]
  /\ stored = NoToken
  /\ page = [t \in Tab |-> "login"]
  /\ call = [t \in Tab |-> [k \in Call |-> "idle"]]
  /\ flight = [t \in Tab |-> NoExchange]
  /\ out = [t \in Tab |-> "none"]
  /\ leaving = [t \in Tab |-> NoToken]
  /\ lost = 0
  /\ ended = {} /\ disturbed = {}

\* One of the exchanges es, or a logout, that concerns login l is under way
InProgress(l, es) ==
  \/ \E e \in es : at[e] # "free" /\ login[presented[e]] = l
  \/ \E t \in Tab : out[t] = "sent" /\ login[leaving[t]] = l

\* An operation on the logins ls begins, while others are under way or not
Begin(ls, es) == disturbed' = disturbed \cup {l \in ls : InProgress(l, es)}
-----------------------------------------------------------------------------
(* The handlers of api/auth.py                                             *)

\* POST /auth/login, and what the page does with the answer
log_in(t) ==
  /\ page[t] = "login"
  /\ issued < MaxTokens
  /\ issued' = issued + 1
  /\ stored' = issued + 1
  /\ page' = [page EXCEPT ![t] = "app"]
  /\ UNCHANGED <<revoked, login, exchangeVars, call, flight, out, leaving, lost,
                  ended, disturbed>>

At(e, place) == at' = [at EXCEPT ![e] = place]

\* POST /auth/refresh: the row must be there and not revoked
get_valid(e) ==
  /\ at[e] = "sent"
  /\ At(e, IF Live(presented[e]) THEN "valid" ELSE "refused")
  /\ UNCHANGED <<tableVars, presented, fresh, stored, tabVars, lost, ended,
                  disturbed>>

\* MUTANT: the old token is not revoked
revoke_nothing(e) ==
  /\ at[e] = "valid"
  /\ At(e, "revoked")
  /\ UNCHANGED <<tableVars, presented, fresh, stored, tabVars, lost, ended,
                  disturbed>>

revoke(e) ==
  /\ at[e] = "valid"
  /\ revoked' = revoked \cup {presented[e]}
  /\ At(e, "revoked")
  /\ UNCHANGED <<issued, login, presented, fresh, stored, tabVars, lost, ended,
                  disturbed>>

\* MUTANT: the row of the new token is not committed
issue_uncommitted(e) ==
  /\ at[e] = "revoked"
  /\ issued < MaxTokens
  /\ fresh' = [fresh EXCEPT ![e] = issued + 1]
  /\ At(e, "answered")
  /\ UNCHANGED <<tableVars, presented, stored, tabVars, lost, ended, disturbed>>

issue_tokens(e) ==
  /\ at[e] = "revoked"
  /\ issued < MaxTokens
  /\ issued' = issued + 1
  /\ login' = [login EXCEPT ![issued + 1] = login[presented[e]]]
  /\ fresh' = [fresh EXCEPT ![e] = issued + 1]
  /\ At(e, "answered")
  /\ UNCHANGED <<revoked, presented, stored, tabVars, lost, ended, disturbed>>

\* The handler dies or its answer is lost (a request that is lost has the
\* effect of a handler that dies before its first write)
exchange_fails(e) ==
  /\ at[e] \in {"valid", "revoked", "answered"}
  /\ \/ lost < MaxLost /\ lost' = lost + 1
     \/ issued = MaxTokens /\ at[e] = "revoked" /\ UNCHANGED lost
  /\ At(e, "failed")
  /\ UNCHANGED <<tableVars, presented, fresh, stored, tabVars, ended, disturbed>>

\* POST /auth/logout-all, by anyone with an access token.  SELECT and commit
\* are one step: a row inserted between them is as good as one inserted after.
revoke_all_for_user ==
  /\ issued > 0
  /\ revoked' = 1..issued
  /\ ended' = ended \cup {login[x] : x \in 1..issued}
  /\ Begin({login[x] : x \in 1..issued}, Exchange)
  /\ UNCHANGED <<issued, login, exchangeVars, stored, tabVars, lost>>
-----------------------------------------------------------------------------
(* client.ts                                                               *)

\* clearSession and the move to /login, where the page's calls are forgotten
Leave(t) ==
  /\ stored' = NoToken
  /\ page' = [page EXCEPT ![t] = "login"]
  /\ call' = [call EXCEPT ![t] = [k \in Call |-> "idle"]]
  /\ flight' = [flight EXCEPT ![t] = NoExchange]
  /\ out' = [out EXCEPT ![t] = "none"]
  /\ leaving' = [leaving EXCEPT ![t] = NoToken]

\* A call is answered with 401
Unauthorized(t, k) == page[t] = "app" /\ call[t][k] = "idle"

Wait(t, k) == call' = [call EXCEPT ![t][k] = "waiting"]

\* 401 while the tab refreshes: wait for that refresh
join_refresh(t, k) ==
  /\ Unauthorized(t, k)
  /\ flight[t] # NoExchange
  /\ Wait(t, k)
  /\ UNCHANGED <<tableVars, exchangeVars, stored, page, flight, out, leaving, lost,
                  ended, disturbed>>

\* MUTANT: every 401 starts a refresh
start_another(t, k) ==
  /\ Unauthorized(t, k)
  /\ stored # NoToken
  /\ \E e \in Exchange :
       /\ at[e] = "free" /\ \A d \in Exchange : d < e => at[d] # "free"
       /\ At(e, "sent")
       /\ presented' = [presented EXCEPT ![e] = stored]
       /\ flight' = [flight EXCEPT ![t] = e]
  /\ Begin({login[stored]}, Exchange \ {flight[t]})
  /\ Wait(t, k)
  /\ UNCHANGED <<tableVars, fresh, stored, page, out, leaving, lost, ended>>

\* 401 otherwise: refreshAccessToken with the refresh token in localStorage
start_refresh(t, k) ==
  /\ Unauthorized(t, k)
  /\ flight[t] = NoExchange /\ stored # NoToken
  /\ \E e \in Exchange :
       /\ at[e] = "free" /\ \A d \in Exchange : d < e => at[d] # "free"
       /\ At(e, "sent")
       /\ presented' = [presented EXCEPT ![e] = stored]
       /\ flight' = [flight EXCEPT ![t] = e]
  /\ Begin({login[stored]}, Exchange \ {flight[t]})
  /\ Wait(t, k)
  /\ UNCHANGED <<tableVars, fresh, stored, page, out, leaving, lost, ended>>

\* No refresh token, a failed refresh, or a 401 in spite of it
redirect_to_login(t) ==
  /\ \/ \E k \in Call : Unauthorized(t, k) /\ flight[t] = NoExchange /\ stored = NoToken
     \/ \E k \in Call : call[t][k] = "replayed"
     \/ flight[t] # NoExchange /\ at[flight[t]] \in {"refused", "failed"}
  /\ Leave(t)
  /\ UNCHANGED <<tableVars, exchangeVars, lost, ended, disturbed>>

Free(e) ==
  /\ At(e, "free")
  /\ presented' = [presented EXCEPT ![e] = NoToken]
  /\ fresh' = [fresh EXCEPT ![e] = NoToken]

\* MUTANT: the rotated refresh token is not stored
receive_access_only(t) ==
  /\ flight[t] # NoExchange /\ at[flight[t]] = "answered"
  /\ flight' = [flight EXCEPT ![t] = NoExchange]
  /\ call' = [call EXCEPT ![t] = [k \in Call |-> IF @[k] = "waiting" THEN "replayed" ELSE @[k]]]
  /\ Free(flight[t])
  /\ UNCHANGED <<tableVars, stored, page, out, leaving, lost, ended, disturbed>>

\* MUTANT: only the call that started the refresh is sent again
receive_for_one(t) ==
  /\ flight[t] # NoExchange /\ at[flight[t]] = "answered"
  /\ stored' = fresh[flight[t]]
  /\ flight' = [flight EXCEPT ![t] = NoExchange]
  /\ \E k \in Call : call[t][k] = "waiting" /\ call' = [call EXCEPT ![t][k] = "replayed"]
  /\ Free(flight[t])
  /\ UNCHANGED <<tableVars, page, out, leaving, lost, ended, disturbed>>

\* The answer is stored and every waiting call is sent again
receive_tokens(t) ==
  /\ flight[t] # NoExchange /\ at[flight[t]] = "answered"
  /\ stored' = fresh[flight[t]]
  /\ flight' = [flight EXCEPT ![t] = NoExchange]
  /\ call' = [call EXCEPT ![t] = [k \in Call |-> IF @[k] = "waiting" THEN "replayed" ELSE @[k]]]
  /\ Free(flight[t])
  /\ UNCHANGED <<tableVars, page, out, leaving, lost, ended, disturbed>>

\* A call that was sent again gets its answer
replay_answered(t, k) ==
  /\ call[t][k] = "replayed"
  /\ call' = [call EXCEPT ![t][k] = "idle"]
  /\ UNCHANGED <<tableVars, exchangeVars, stored, page, flight, out, leaving, lost,
                  ended, disturbed>>

\* Nobody listens to the answer any more
forget(e) ==
  /\ at[e] \in {"answered", "refused", "failed"}
  /\ \A t \in Tab : flight[t] # e
  /\ Free(e)
  /\ UNCHANGED <<tableVars, stored, tabVars, lost, ended, disturbed>>

log_out(t) ==
  /\ page[t] = "app" /\ out[t] = "none"
  /\ \/ /\ stored # NoToken
        /\ out' = [out EXCEPT ![t] = "sent"]
        /\ leaving' = [leaving EXCEPT ![t] = stored]
        /\ Begin({login[stored]}, Exchange)
        /\ UNCHANGED <<stored, page, call, flight>>
     \/ stored = NoToken /\ Leave(t) /\ UNCHANGED disturbed
  /\ UNCHANGED <<tableVars, exchangeVars, lost, ended>>

\* POST /auth/logout
logout(t) ==
  /\ out[t] = "sent"
  /\ out' = [out EXCEPT ![t] = "done"]
  /\ revoked' = revoked \cup {leaving[t]}
  /\ ended' = ended \cup {login[leaving[t]]}
  /\ leaving' = [leaving EXCEPT ![t] = NoToken]
  /\ UNCHANGED <<issued, login, exchangeVars, stored, page, call, flight, lost,
                  disturbed>>

\* The error of a lost logout is caught
logout_fails(t) ==
  /\ out[t] = "sent" /\ lost < MaxLost
  /\ lost' = lost + 1
  /\ out' = [out EXCEPT ![t] = "done"]
  /\ leaving' = [leaving EXCEPT ![t] = NoToken]
  /\ UNCHANGED <<tableVars, exchangeVars, stored, page, call, flight, ended,
                  disturbed>>

finish_logout(t) ==
  /\ out[t] = "done"
  /\ Leave(t)
  /\ UNCHANGED <<tableVars, exchangeVars, lost, ended, disturbed>>

\* The user reloads the page: localStorage stays, promises do not
reload(t) ==
  /\ page[t] = "app"
  /\ lost < MaxLost /\ lost' = lost + 1
  /\ page' = [page EXCEPT ![t] = IF stored = NoToken THEN "login" ELSE "app"]
  /\ call' = [call EXCEPT ![t] = [k \in Call |-> "idle"]]
  /\ flight' = [flight EXCEPT ![t] = NoExchange]
  /\ out' = [out EXCEPT ![t] = "none"]
  /\ leaving' = [leaving EXCEPT ![t] = NoToken]
  /\ disturbed' = disturbed \cup
       IF flight[t] = NoExchange THEN {} ELSE {login[presented[flight[t]]]}
  /\ UNCHANGED <<tableVars, exchangeVars, stored, ended>>
-----------------------------------------------------------------------------
server(e) == get_valid(e) \/ revoke(e) \/ issue_tokens(e) \/ exchange_fails(e) \/ forget(e)

client(t) ==
  \/ \E k \in Call : join_refresh(t, k) \/ start_refresh(t, k) \/ replay_answered(t, k)
  \/ redirect_to_login(t) \/ receive_tokens(t)
  \/ log_out(t) \/ logout(t) \/ logout_fails(t) \/ finish_logout(t) \/ reload(t)

Next ==
  \/ revoke_all_for_user
  \/ \E e \in Exchange : server(e)
  \/ \E t \in Tab : log_in(t) \/ client(t)

Spec == Init /\ [][Next]_sessionVars
-----------------------------------------------------------------------------
(* Properties                                                              *)

Places == {"free", "sent", "valid", "revoked", "answered", "refused", "failed"}

TypeOK ==
  /\ issued \in 0..MaxTokens
  /\ revoked \subseteq 1..issued
  /\ login \in [1..MaxTokens -> 1..MaxTokens]
  /\ \A x \in 1..issued : login[x] <= x
  /\ at \in [Exchange -> Places]
  /\ presented \in [Exchange -> 0..issued]
  /\ fresh \in [Exchange -> 0..issued]
  /\ \A e \in Exchange : at[e] = "free" <=> presented[e] = NoToken
  /\ stored \in 0..issued
  /\ page \in [Tab -> {"login", "app"}]
  /\ call \in [Tab -> [Call -> {"idle", "waiting", "replayed"}]]
  /\ flight \in [Tab -> Exchange \cup {NoExchange}]
  /\ out \in [Tab -> {"none", "sent", "done"}]
  /\ leaving \in [Tab -> 0..issued]
  /\ lost \in 0..MaxLost
  /\ ended \subseteq 1..issued /\ disturbed \subseteq 1..issued

\* Rotation keeps a session single: a login has at most one refresh token
\* that is not revoked, unless two of its operations overlapped (auth.py:90-113).
OneLivePerLogin ==
  \A x, y \in 1..issued :
    Live(x) /\ Live(y) /\ login[x] = login[y] => x = y \/ login[x] \in disturbed

\* Logging out ends the session: no token of the login, not even one that was
\* issued by an exchange, outlives it unless the two overlapped
\* (auth.py:116-134, client.ts:98-108).
SignedOutMeansOut ==
  \A x \in 1..issued : Live(x) /\ login[x] \in ended => login[x] \in disturbed

\* The dashboard is refused a new token only when the session was ended, or
\* when operations on it overlapped: neither waiting calls nor late 401s
\* make a tab present a token that has been exchanged (client.ts:37-80).
RefusalHasReason ==
  \A e \in Exchange :
    at[e] = "refused" => login[presented[e]] \in ended \cup disturbed

\* No call waits for a refresh that is over: while it waits, its tab has an
\* exchange under way whose end wakes it (client.ts:62-75).
WaitersAreWoken ==
  \A t \in Tab : (\E k \in Call : call[t][k] = "waiting") => flight[t] # NoExchange
=============================================================================
