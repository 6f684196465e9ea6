---------------------------- MODULE SessionsProofs ----------------------------
(***************************************************************************)
(* One inductive invariant about the undisturbed logins: their operations  *)
(* come one after the other, so only the latest token of a login can be    *)
(* live, and that is the one the browser holds.                            *)
(***************************************************************************)
EXTENDS Sessions, TLAPS

Calm(l) == l \notin disturbed

\* The login a (busy) exchange works on
Of(e) == login[presented[e]]

Busy(e) == at[e] # "free"

\* Token x is the latest of its login
Tip(x) == x \in 1..issued /\ \A y \in 1..issued : login[y] = login[x] => y <= x

\* What the proofs need to know of the types.  A busy exchange and a logout
\* carry a token, a tab that refreshes has an exchange of its own.
Shape ==
  /\ issued \in Nat /\ issued <= MaxTokens
  /\ revoked \subseteq 1..issued
  /\ login \in [1..MaxTokens -> 1..MaxTokens]
  /\ \A x \in 1..issued : login[x] <= x
  /\ \A x \in 1..MaxTokens : x > issued => login[x] = x
  /\ DOMAIN at = Exchange /\ DOMAIN presented = Exchange /\ DOMAIN fresh = Exchange
  /\ \A e \in Exchange :
       /\ presented[e] \in 0..issued /\ fresh[e] \in 0..issued
       /\ Busy(e) <=> presented[e] # NoToken
  /\ stored \in 0..issued
  /\ DOMAIN flight = Tab /\ DOMAIN out = Tab /\ DOMAIN leaving = Tab
  /\ \A t \in Tab :
       /\ flight[t] # NoExchange => flight[t] \in Exchange /\ Busy(flight[t])
       /\ leaving[t] \in 0..issued
       /\ out[t] = "sent" <=> leaving[t] # NoToken
  /\ \A t, u \in Tab : t # u /\ flight[t] = flight[u] => flight[t] = NoExchange
  /\ ended \subseteq 1..issued /\ disturbed \subseteq 1..issued

\* The operations on a calm login are not under way together
AloneOK ==
  /\ \A e, d \in Exchange : Busy(e) /\ Busy(d) /\ Of(e) = Of(d) /\ Calm(Of(e)) => e = d
  /\ \A e \in Exchange, t \in Tab :
       Busy(e) /\ out[t] = "sent" /\ login[leaving[t]] = Of(e) => ~ Calm(Of(e))

\* All tokens of a calm login but the latest are revoked
OlderRevoked ==
  \A x, y \in 1..issued : login[x] = login[y] /\ x < y /\ Calm(login[x]) => x \in revoked

\* Until it has issued a token, an exchange presents the latest one, which is
\* revoked by itself or by a logout only
PresentedOK ==
  \A e \in Exchange :
    /\ at[e] \in {"sent", "valid", "revoked"} /\ Calm(Of(e)) => Tip(presented[e])
    /\ at[e] = "revoked" => presented[e] \in revoked
    /\ at[e] = "sent" /\ Calm(Of(e)) /\ presented[e] \in revoked => Of(e) \in ended

\* Then the token it has issued is the latest
FreshOK ==
  \A e \in Exchange :
    at[e] = "answered" =>
      /\ fresh[e] \in 1..issued /\ login[fresh[e]] = Of(e)
      /\ Calm(Of(e)) => Tip(fresh[e]) /\ (fresh[e] \in revoked => Of(e) \in ended)

\* The browser holds the latest token, unless a tab is exchanging it
StoredOK ==
  stored # NoToken /\ Calm(login[stored]) =>
    \/ Tip(stored) /\ (stored \in revoked => login[stored] \in ended)
    \/ \E t \in Tab : flight[t] # NoExchange /\ Of(flight[t]) = login[stored]

LeavingOK ==
  \A t \in Tab : out[t] = "sent" /\ Calm(login[leaving[t]]) => Tip(leaving[t])

\* A calm login that has been logged out of has no token left, nor will an
\* exchange issue one
EndedOK ==
  /\ SignedOutMeansOut
  /\ \A e \in Exchange : at[e] \in {"valid", "revoked"} /\ Of(e) \in ended => ~ Calm(Of(e))

\* The browser holds no token of an exchange nobody listens to
OrphanOK ==
  \A e \in Exchange :
    Busy(e) /\ (\A t \in Tab : flight[t] # e) /\ Calm(Of(e)) =>
      stored = NoToken \/ login[stored] # Of(e)

Inv ==
  /\ Shape /\ AloneOK /\ OlderRevoked /\ PresentedOK /\ FreshOK
  /\ StoredOK /\ LeavingOK /\ EndedOK /\ OrphanOK /\ RefusalHasReason
-----------------------------------------------------------------------------
(* Types                                                                   *)

USE SessionsAssumption

LEMMA ShapeInit == ASSUME Init PROVE Shape
  BY DEF Init, Shape, Busy, NoToken

\* Busy exchanges and logouts carry tokens that have been issued
LEMMA Carried ==
  ASSUME Shape
  PROVE  /\ \A e \in Exchange : Busy(e) => presented[e] \in 1..issued /\ Of(e) \in 1..issued
         /\ \A t \in Tab : out[t] = "sent" => leaving[t] \in 1..issued /\ login[leaving[t]] \in 1..issued
         /\ \A t \in Tab : flight[t] # NoExchange => Of(flight[t]) \in 1..issued
         /\ stored # NoToken => stored \in 1..issued /\ login[stored] \in 1..issued
         /\ \A x \in 1..issued : login[x] \in 1..issued /\ x \in 1..MaxTokens
<1>1. ASSUME NEW x \in 1..issued
      PROVE  login[x] \in 1..issued /\ x \in 1..MaxTokens
  <2>1. x \in 1..MaxTokens /\ login[x] <= x
    BY DEF Shape
  <2>2. login[x] \in 1..MaxTokens
    BY <2>1 DEF Shape
  <2> QED BY <2>1, <2>2 DEF Shape
<1>2. ASSUME NEW e \in Exchange, Busy(e)
      PROVE  presented[e] \in 1..issued
  <2>1. presented[e] \in 0..issued /\ presented[e] # 0 /\ issued \in Nat
    BY <1>2 DEF Shape, NoToken
  <2> QED BY <2>1
<1>3. \A t \in Tab : out[t] = "sent" => leaving[t] \in 1..issued
  BY DEF Shape, NoToken
<1>4. \A t \in Tab : flight[t] # NoExchange => presented[flight[t]] \in 1..issued
  BY <1>2 DEF Shape
<1> QED BY <1>1, <1>2, <1>3, <1>4 DEF Shape, Of, NoToken

\* The slot of an exchange that is over, and that no tab waits for, is given
\* back.
LEMMA FreeShape ==
  ASSUME Shape, NEW e \in Exchange, Free(e),
         UNCHANGED <<issued, revoked, login, out, leaving, ended, disturbed>>,
         stored' \in 0..issued, DOMAIN flight' = Tab,
         \A t \in Tab : flight'[t] \in {flight[t], NoExchange} \ {e}
  PROVE  Shape'
<1>1. /\ DOMAIN at' = Exchange /\ DOMAIN presented' = Exchange /\ DOMAIN fresh' = Exchange
      /\ at'[e] = "free" /\ presented'[e] = NoToken /\ fresh'[e] = NoToken
      /\ \A d \in Exchange \ {e} :
           at'[d] = at[d] /\ presented'[d] = presented[d] /\ fresh'[d] = fresh[d]
  BY DEF Free, At, Shape
<1>2. ASSUME NEW d \in Exchange
      PROVE  /\ presented'[d] \in 0..issued /\ fresh'[d] \in 0..issued
             /\ Busy(d)' <=> presented'[d] # NoToken
  <2>1. CASE d = e
    BY <1>1, <2>1 DEF Shape, Busy, NoToken
  <2>2. CASE d # e
    BY <1>1, <2>2 DEF Shape, Busy
  <2> QED BY <2>1, <2>2
<1>3. ASSUME NEW t \in Tab, flight'[t] # NoExchange
      PROVE  flight'[t] \in Exchange /\ at'[flight'[t]] # "free"
  <2>1. flight'[t] = flight[t] /\ flight[t] # e
    BY <1>3
  <2>2. flight[t] \in Exchange /\ Busy(flight[t])
    BY <1>3, <2>1 DEF Shape
  <2> QED BY <1>1, <2>1, <2>2 DEF Busy
<1>4. ASSUME NEW t \in Tab, NEW u \in Tab, t # u, flight'[t] = flight'[u]
      PROVE  flight'[t] = NoExchange
  BY <1>4 DEF Shape
<1>5. \A t \in Tab : leaving'[t] \in 0..issued' /\ (out'[t] = "sent" <=> leaving'[t] # NoToken)
  BY DEF Shape
<1> QED BY <1>1, <1>2, <1>3, <1>4, <1>5 DEF Shape, Busy

LEMMA ServerShape ==
  ASSUME Shape, NEW e \in Exchange, server(e)
  PROVE  Shape'
<1>1. CASE get_valid(e)
  BY <1>1 DEF get_valid, At, Shape, Busy, tableVars, tabVars, NoToken
<1>2. CASE revoke(e)
  BY <1>2, Carried DEF revoke, At, Shape, Busy, tabVars, NoToken
<1>3. CASE issue_tokens(e)
  <2>1. issued' = issued + 1 /\ issued' <= MaxTokens /\ presented[e] \in 1..issued
    <3>1. Busy(e) /\ issued < MaxTokens /\ issued' = issued + 1
      BY <1>3 DEF issue_tokens, Busy
    <3>2. issued \in Nat /\ MaxTokens \in Nat
      BY DEF Shape, SessionsAssumption
    <3> QED BY <3>1, <3>2, Carried
  <2>2. login' = [login EXCEPT ![issued'] = Of(e)] /\ Of(e) <= issued
    BY <1>3, <2>1, Carried DEF issue_tokens, Of, Shape, Busy
  <2>3. /\ login' \in [1..MaxTokens -> 1..MaxTokens]
        /\ \A x \in 1..issued' : login'[x] <= x
        /\ \A x \in 1..MaxTokens : x > issued' => login'[x] = x
    <3>1. Of(e) \in 1..issued
      BY <1>3, Carried DEF issue_tokens, Busy
    <3>2. DOMAIN login = 1..MaxTokens /\ issued' \in 1..MaxTokens /\ issued \in Nat
      <4>1. issued \in Nat /\ MaxTokens \in Nat /\ DOMAIN login = 1..MaxTokens
        BY DEF Shape, SessionsAssumption
      <4> QED BY <2>1, <4>1
    <3>3. \A x \in 1..MaxTokens : login'[x] = IF x = issued' THEN Of(e) ELSE login[x]
      BY <2>2, <3>2
    <3>4. login' \in [1..MaxTokens -> 1..MaxTokens]
      <4>1. Of(e) \in 1..MaxTokens
        BY <2>1, <3>1, <3>2 DEF SessionsAssumption
      <4>2. login' = [x \in 1..MaxTokens |-> IF x = issued' THEN Of(e) ELSE login[x]]
        BY <2>2, <3>2
      <4>3. \A x \in 1..MaxTokens : login[x] \in 1..MaxTokens
        BY DEF Shape
      <4> QED BY <4>1, <4>2, <4>3
    <3>5. ASSUME NEW x \in 1..issued' PROVE login'[x] <= x
      <4>1. CASE x = issued'
        <5>1. login'[x] = Of(e)
          BY <3>2, <3>3, <4>1
        <5> QED BY <2>1, <3>1, <3>2, <4>1, <5>1
      <4>2. CASE x # issued'
        <5>1. x \in 1..issued /\ x \in 1..MaxTokens
          BY <2>1, <3>2, <4>2 DEF SessionsAssumption
        <5> QED BY <3>3, <4>2, <5>1 DEF Shape
      <4> QED BY <4>1, <4>2
    <3>6. ASSUME NEW x \in 1..MaxTokens, x > issued' PROVE login'[x] = x
      <4>1. x # issued' /\ x > issued
        BY <2>1, <3>2, <3>6
      <4> QED BY <3>3, <4>1 DEF Shape
    <3> QED BY <3>4, <3>5, <3>6
  <2>4. /\ UNCHANGED <<revoked, presented, stored, flight, out, leaving, ended, disturbed>>
        /\ at' = [at EXCEPT ![e] = "answered"] /\ at[e] = "revoked"
        /\ fresh' = [fresh EXCEPT ![e] = issued']
    BY <1>3, <2>1 DEF issue_tokens, At, tabVars
  <2>5. issued \in Nat /\ \A x : x \in 0..issued => x \in 0..issued'
    BY <2>1 DEF Shape
  <2>6. \A d \in Exchange : /\ presented'[d] \in 0..issued' /\ fresh'[d] \in 0..issued'
                            /\ Busy(d)' <=> Busy(d)
    <3>1. ASSUME NEW d \in Exchange
          PROVE  fresh'[d] = (IF d = e THEN issued' ELSE fresh[d]) /\ (Busy(d)' <=> Busy(d))
      BY <2>4 DEF Shape, Busy
    <3>2. \A d \in Exchange : presented[d] \in 0..issued /\ fresh[d] \in 0..issued
      BY DEF Shape
    <3>3. issued' \in 0..issued'
      BY <2>1, <2>5
    <3> QED BY <2>4, <2>5, <3>1, <3>2, <3>3
  <2>7. /\ revoked' \subseteq 1..issued' /\ ended' \subseteq 1..issued'
        /\ disturbed' \subseteq 1..issued' /\ stored' \in 0..issued'
        /\ \A t \in Tab : leaving'[t] \in 0..issued'
    <3>1. 1..issued \subseteq 1..issued'
      BY <2>1, <2>5
    <3> QED BY <2>4, <2>5, <3>1 DEF Shape
  <2>8. issued' \in Nat /\ DOMAIN at' = Exchange /\ DOMAIN fresh' = Exchange
    <3>1. DOMAIN at = Exchange /\ DOMAIN fresh = Exchange
      BY DEF Shape
    <3> QED BY <2>1, <2>4, <2>5, <3>1
  <2> QED BY <2>1, <2>3, <2>4, <2>6, <2>7, <2>8 DEF Shape
<1>4. CASE exchange_fails(e)
  BY <1>4 DEF exchange_fails, At, Shape, Busy, tableVars, tabVars, NoToken
<1>5. CASE forget(e)
  <2>1. Free(e) /\ UNCHANGED <<tableVars, stored, tabVars, lost, ended, disturbed>>
        /\ \A t \in Tab : flight[t] # e
    BY <1>5 DEF forget
  <2>2. /\ UNCHANGED <<issued, revoked, login, out, leaving, ended, disturbed>>
        /\ stored' \in 0..issued /\ DOMAIN flight' = Tab
        /\ \A t \in Tab : flight'[t] \in {flight[t], NoExchange} \ {e}
    BY <2>1 DEF tableVars, tabVars, Shape
  <2> QED BY <2>1, <2>2, FreeShape
<1> QED BY <1>1, <1>2, <1>3, <1>4, <1>5 DEF server

LEMMA LeaveShape ==
  ASSUME Shape, NEW t \in Tab, Leave(t),
         UNCHANGED <<tableVars, exchangeVars, lost, ended, disturbed>>
  PROVE  Shape'
<1>1. /\ DOMAIN flight' = Tab /\ DOMAIN out' = Tab /\ DOMAIN leaving' = Tab
      /\ flight'[t] = NoExchange /\ out'[t] = "none" /\ leaving'[t] = NoToken
      /\ \A u \in Tab \ {t} :
           flight'[u] = flight[u] /\ out'[u] = out[u] /\ leaving'[u] = leaving[u]
  BY DEF Leave, Shape
<1>2. /\ UNCHANGED <<issued, revoked, login, at, presented, fresh, ended, disturbed>>
      /\ stored' = NoToken
  BY DEF Leave, tableVars, exchangeVars
<1>3. ASSUME NEW u \in Tab
      PROVE  /\ flight'[u] # NoExchange => flight'[u] \in Exchange /\ at'[flight'[u]] # "free"
             /\ leaving'[u] \in 0..issued' /\ (out'[u] = "sent" <=> leaving'[u] # NoToken)
  <2>1. CASE u = t
    BY <1>1, <1>2, <2>1 DEF Shape, NoToken
  <2>2. CASE u # t
    BY <1>1, <1>2, <2>2 DEF Shape, Busy
  <2> QED BY <2>1, <2>2
<1>4. \A u, v \in Tab : u # v /\ flight'[u] = flight'[v] => flight'[u] = NoExchange
  BY <1>1 DEF Shape
<1> QED BY <1>1, <1>2, <1>3, <1>4 DEF Shape, Busy, NoToken

LEMMA ClientShape ==
  ASSUME Shape, NEW t \in Tab, client(t)
  PROVE  Shape'
<1>1. ASSUME NEW k \in Call, join_refresh(t, k) \/ replay_answered(t, k)
      PROVE  Shape'
  BY <1>1 DEF join_refresh, replay_answered, Shape, Busy, tableVars, exchangeVars, NoToken
<1>2. ASSUME NEW k \in Call, start_refresh(t, k)
      PROVE  Shape'
  <2>1. PICK e \in Exchange :
          /\ at[e] = "free"
          /\ At(e, "sent")
          /\ presented' = [presented EXCEPT ![e] = stored]
          /\ flight' = [flight EXCEPT ![t] = e]
    BY <1>2 DEF start_refresh
  <2>2. stored \in 1..issued /\ login[stored] \in 1..issued
    BY <1>2, Carried DEF start_refresh
  <2>3. disturbed' \subseteq 1..issued
    BY <1>2, <2>2 DEF start_refresh, Begin, Shape
  <2>4. \A u \in Tab : flight[u] # e
    BY <2>1 DEF Shape, Busy
  <2>5. \A u \in Tab : flight'[u] = IF u = t THEN e ELSE flight[u]
    BY <2>1 DEF Shape
  <2>6. \A d \in Exchange :
          /\ at'[d] = IF d = e THEN "sent" ELSE at[d]
          /\ presented'[d] = IF d = e THEN stored ELSE presented[d]
    BY <2>1 DEF At, Shape
  <2>7. UNCHANGED <<issued, revoked, login, fresh, stored, out, leaving, ended>>
    BY <1>2 DEF start_refresh, tableVars
  <2>8. /\ DOMAIN at' = Exchange /\ DOMAIN presented' = Exchange /\ DOMAIN flight' = Tab
    BY <2>1 DEF At, Shape
  <2>9. \A d \in Exchange : presented'[d] \in 0..issued /\ (Busy(d)' <=> presented'[d] # NoToken)
    <3>1. \A d \in Exchange : presented[d] \in 0..issued /\ (Busy(d) <=> presented[d] # NoToken)
      BY DEF Shape
    <3>2. stored \in 0..issued /\ stored # NoToken
      BY <2>2 DEF Shape, NoToken
    <3> QED BY <3>1, <3>2, <2>6 DEF Busy
  <2>10. ASSUME NEW u \in Tab, flight'[u] # NoExchange
         PROVE  flight'[u] \in Exchange /\ at'[flight'[u]] # "free"
    <3>1. CASE u = t
      BY <3>1, <2>5, <2>6
    <3>2. CASE u # t
      BY <3>2, <2>5, <2>6, <2>10 DEF Shape, Busy
    <3> QED BY <3>1, <3>2
  <2>11. \A u, v \in Tab : u # v /\ flight'[u] = flight'[v] => flight'[u] = NoExchange
    BY <2>4, <2>5 DEF Shape
  <2> QED BY <2>3, <2>7, <2>8, <2>9, <2>10, <2>11 DEF Shape, Busy, NoToken
<1>3. CASE redirect_to_login(t) \/ finish_logout(t)
  BY <1>3, LeaveShape DEF redirect_to_login, finish_logout
<1>4. CASE receive_tokens(t)
  <2>1. flight[t] \in Exchange /\ fresh[flight[t]] \in 0..issued
    BY <1>4 DEF receive_tokens, Shape
  <2>2. /\ DOMAIN flight' = Tab /\ flight'[t] = NoExchange
        /\ \A u \in Tab \ {t} : flight'[u] = flight[u]
    BY <1>4 DEF receive_tokens, Shape
  <2>3. \A u \in Tab : flight'[u] \in {flight[u], NoExchange} \ {flight[t]}
    BY <1>4, <2>2 DEF receive_tokens, Shape
  <2> QED BY <1>4, <2>1, <2>2, <2>3, FreeShape DEF receive_tokens, tableVars
<1>5. CASE log_out(t)
  <2>1. CASE stored = NoToken
    BY <1>5, <2>1, LeaveShape DEF log_out
  <2>2. CASE stored # NoToken
    <3>1. disturbed' \subseteq 1..issued /\ stored \in 1..issued
      BY <1>5, <2>2, Carried DEF log_out, Begin, Shape
    <3> QED BY <1>5, <2>2, <3>1 DEF log_out, Shape, Busy, tableVars, exchangeVars, NoToken
  <2> QED BY <2>1, <2>2
<1>6. CASE logout(t) \/ logout_fails(t)
  <2>1. out[t] = "sent" /\ leaving[t] \in 1..issued /\ login[leaving[t]] \in 1..issued
    BY <1>6, Carried DEF logout, logout_fails
  <2>2. /\ DOMAIN out' = Tab /\ DOMAIN leaving' = Tab
        /\ \A u \in Tab : /\ out'[u] = IF u = t THEN "done" ELSE out[u]
                         /\ leaving'[u] = IF u = t THEN NoToken ELSE leaving[u]
    BY <1>6 DEF logout, logout_fails, Shape
  <2>3. UNCHANGED <<issued, login, at, presented, fresh, stored, flight, disturbed>>
    BY <1>6 DEF logout, logout_fails, tableVars, exchangeVars
  <2>4. revoked' \subseteq 1..issued /\ ended' \subseteq 1..issued
    BY <1>6, <2>1 DEF logout, logout_fails, tableVars, Shape
  <2>5. \A u \in Tab : leaving'[u] \in 0..issued /\ (out'[u] = "sent" <=> leaving'[u] # NoToken)
    <3>1. \A u \in Tab : leaving[u] \in 0..issued /\ (out[u] = "sent" <=> leaving[u] # NoToken)
      BY DEF Shape
    <3>2. NoToken \in 0..issued
      BY DEF Shape, NoToken
    <3> QED BY <2>2, <3>1, <3>2
  <2> QED BY <2>2, <2>3, <2>4, <2>5 DEF Shape, Busy
<1>7. CASE reload(t)
  <2>1. disturbed' \subseteq 1..issued
    BY <1>7, Carried DEF reload, Of, Shape
  <2> QED BY <1>7, <2>1 DEF reload, Shape, Busy, tableVars, exchangeVars, NoToken
<1> QED BY <1>1, <1>2, <1>3, <1>4, <1>5, <1>6, <1>7 DEF client

LEMMA ShapeStep == ASSUME Shape, [Next]_sessionVars PROVE Shape'
<1>1. CASE revoke_all_for_user
  <2>1. /\ UNCHANGED <<issued, login, at, presented, fresh, stored, flight, out, leaving>>
        /\ revoked' = 1..issued /\ ended' = ended \cup {login[x] : x \in 1..issued}
        /\ disturbed' \subseteq disturbed \cup {login[x] : x \in 1..issued}
    BY <1>1 DEF revoke_all_for_user, Begin, exchangeVars, tabVars
  <2>2. {login[x] : x \in 1..issued} \subseteq 1..issued
    BY Carried
  <2>3. disturbed' \subseteq 1..issued /\ ended' \subseteq 1..issued
    BY <2>1, <2>2 DEF Shape
  <2> QED BY <2>1, <2>3 DEF Shape, Busy, NoToken
<1>2. ASSUME NEW t \in Tab, log_in(t) PROVE Shape'
  <2>1. issued' = issued + 1 /\ issued' <= MaxTokens /\ stored' = issued' /\ issued \in Nat
    BY <1>2 DEF log_in, Shape
  <2>2. UNCHANGED <<revoked, login, at, presented, fresh, flight, out, leaving, ended, disturbed>>
    BY <1>2 DEF log_in, exchangeVars
  <2>3. ASSUME NEW x \in 1..issued' PROVE login'[x] <= x
    <3>1. x \in 1..issued \/ (x \in 1..MaxTokens /\ x > issued)
      BY <2>1 DEF Shape
    <3>2. login[x] <= x
      BY <3>1 DEF Shape
    <3> QED BY <3>2, <2>2
  <2>4. \A x \in 1..MaxTokens : x > issued' => login'[x] = x
    BY <2>1, <2>2 DEF Shape
  <2> QED BY <2>1, <2>2, <2>3, <2>4 DEF Shape, Busy, NoToken
<1>3. CASE UNCHANGED sessionVars
  BY <1>3 DEF sessionVars, tableVars, exchangeVars, tabVars, Shape, Busy, NoToken
<1> QED BY <1>1, <1>2, <1>3, ServerShape, ClientShape DEF Next
-----------------------------------------------------------------------------
(* The steps of an exchange                                                *)

LEMMA GetValidStep ==
  ASSUME Inv, NEW e \in Exchange, get_valid(e), Shape'
  PROVE  Inv'
<1> USE DEF Of, Calm, Busy
<1>1. /\ UNCHANGED <<issued, revoked, login, presented, fresh, stored, flight, out, leaving,
                     ended, disturbed>>
      /\ at[e] = "sent"
      /\ \A d \in Exchange : at'[d] = IF d = e THEN (IF Live(presented[e]) THEN "valid" ELSE "refused")
                                               ELSE at[d]
  BY DEF get_valid, At, Inv, Shape, tableVars, tabVars
<1>2. AloneOK' /\ OlderRevoked' /\ StoredOK' /\ LeavingOK' /\ OrphanOK'
  BY <1>1 DEF Inv, AloneOK, OlderRevoked, StoredOK, LeavingOK, OrphanOK, Tip
<1>3. PresentedOK' /\ FreshOK'
  BY <1>1 DEF Inv, PresentedOK, FreshOK, Tip
<1>4. EndedOK'
  BY <1>1 DEF Inv, EndedOK, SignedOutMeansOut, Live
<1>5. RefusalHasReason'
  <2>1. Live(presented[e]) \/ Of(e) \in ended \/ ~ Calm(Of(e))
    BY <1>1 DEF Inv, PresentedOK, Live, Tip
  <2> QED BY <1>1, <2>1 DEF Inv, RefusalHasReason
<1> QED BY <1>2, <1>3, <1>4, <1>5 DEF Inv

LEMMA RevokeStep ==
  ASSUME Inv, NEW e \in Exchange, revoke(e), Shape'
  PROVE  Inv'
<1> USE DEF Of, Calm, Busy
<1>1. /\ UNCHANGED <<issued, login, presented, fresh, stored, flight, out, leaving,
                     ended, disturbed>>
      /\ at[e] = "valid" /\ revoked' = revoked \cup {presented[e]}
      /\ \A d \in Exchange : at'[d] = IF d = e THEN "revoked" ELSE at[d]
  BY DEF revoke, At, Inv, Shape, tabVars
<1>2. AloneOK' /\ OlderRevoked' /\ LeavingOK' /\ OrphanOK'
  BY <1>1 DEF Inv, AloneOK, OlderRevoked, LeavingOK, OrphanOK, Tip
<1>3. ASSUME NEW d \in Exchange, Busy(d), d # e, Calm(Of(d)), NEW x, login[x] = Of(d), x \in revoked'
      PROVE  x \in revoked
  BY <1>1, <1>3 DEF Inv, AloneOK
<1>4. PresentedOK'
  BY <1>1, <1>3 DEF Inv, PresentedOK, Tip
<1>5. FreshOK'
  BY <1>1, <1>3 DEF Inv, FreshOK, Tip
<1>6. StoredOK'
  <2>1. CASE stored = NoToken \/ ~ Calm(login[stored]) \/ login[stored] # Of(e)
    BY <1>1, <2>1 DEF Inv, StoredOK, Tip
  <2>2. CASE stored # NoToken /\ Calm(login[stored]) /\ login[stored] = Of(e)
    <3>1. PICK t \in Tab : flight[t] = e
      BY <1>1, <2>2 DEF Inv, OrphanOK
    <3>2. e # NoExchange
      BY DEF SessionsAssumption
    <3> QED BY <1>1, <2>2, <3>1, <3>2 DEF StoredOK
  <2> QED BY <2>1, <2>2
<1>7. EndedOK' /\ RefusalHasReason'
  BY <1>1 DEF Inv, EndedOK, SignedOutMeansOut, Live, RefusalHasReason
<1> QED BY <1>2, <1>4, <1>5, <1>6, <1>7 DEF Inv

\* What issuing a token does to the latest tokens
LEMMA IssuedTips ==
  ASSUME Inv, NEW e \in Exchange, issue_tokens(e), Shape'
  PROVE  /\ issued \in Nat /\ issued' = issued + 1 /\ fresh'[e] = issued' /\ Of(e) \in 1..issued
         /\ login'[issued'] = Of(e) /\ \A x \in 1..issued : login'[x] = login[x]
         /\ \A x \in 1..issued : Tip(x) /\ login[x] # Of(e) => Tip(x)'
         /\ Tip(issued)'
         /\ UNCHANGED <<revoked, presented, stored, flight, out, leaving, ended, disturbed>>
         /\ at[e] = "revoked"
         /\ \A d \in Exchange : /\ at'[d] = IF d = e THEN "answered" ELSE at[d]
                                /\ d # e => fresh'[d] = fresh[d]
<1>1. /\ issued \in Nat /\ issued' = issued + 1 /\ Of(e) \in 1..issued /\ issued' \in 1..MaxTokens
      /\ login' = [login EXCEPT ![issued'] = Of(e)]
  <2>1. at[e] = "revoked" /\ issued < MaxTokens /\ issued' = issued + 1
    BY DEF issue_tokens
  <2>2. login' = [login EXCEPT ![issued'] = Of(e)]
    BY DEF issue_tokens, Of
  <2>3. Of(e) \in 1..issued
    <3>1. Busy(e)
      BY <2>1 DEF Busy
    <3> QED BY <3>1, Carried DEF Inv
  <2>4. issued \in Nat /\ MaxTokens \in Nat
    BY DEF Inv, Shape, SessionsAssumption
  <2> QED BY <2>1, <2>2, <2>3, <2>4
<1>2. /\ UNCHANGED <<revoked, presented, stored, flight, out, leaving, ended, disturbed>>
      /\ at[e] = "revoked" /\ fresh'[e] = issued'
      /\ \A d \in Exchange : /\ at'[d] = IF d = e THEN "answered" ELSE at[d]
                             /\ d # e => fresh'[d] = fresh[d]
  BY <1>1 DEF issue_tokens, At, Inv, Shape, tabVars
<1>3. login'[issued'] = Of(e) /\ \A x \in 1..issued : login'[x] = login[x]
  BY <1>1 DEF Inv, Shape
<1>4. \A x \in 1..issued : Tip(x) /\ login[x] # Of(e) => Tip(x)'
  BY <1>1, <1>3 DEF Tip
<1>5. Tip(issued)'
  <2>1. issued' \in 1..issued' /\ \A y \in 1..issued' : y <= issued'
    BY <1>1
  <2> QED BY <2>1 DEF Tip
<1> QED BY <1>1, <1>2, <1>3, <1>4, <1>5

LEMMA IssueStep ==
  ASSUME Inv, NEW e \in Exchange, issue_tokens(e), Shape'
  PROVE  Inv'
<1> DEFINE l == Of(e)
<1>1. /\ UNCHANGED <<revoked, presented, stored, flight, out, leaving, ended, disturbed>>
      /\ issued \in Nat /\ issued' = issued + 1 /\ fresh'[e] = issued' /\ l \in 1..issued
      /\ login'[issued'] = l /\ \A x \in 1..issued : login'[x] = login[x]
      /\ at[e] = "revoked"
      /\ \A d \in Exchange : /\ at'[d] = IF d = e THEN "answered" ELSE at[d]
                             /\ d # e => fresh'[d] = fresh[d]
  BY IssuedTips
<1>2. (\A x \in 1..issued : Tip(x) /\ login[x] # l => Tip(x)') /\ Tip(issued)'
  BY IssuedTips
<1>3. /\ \A d \in Exchange : Busy(d)' <=> Busy(d)
      /\ \A d \in Exchange : Busy(d) => Of(d)' = Of(d)
      /\ \A t \in Tab : out[t] = "sent" => leaving[t] \in 1..issued /\ login'[leaving[t]] = login[leaving[t]]
      /\ stored # NoToken => stored \in 1..issued /\ login'[stored] = login[stored]
      /\ \A t \in Tab : flight[t] # NoExchange => flight[t] \in Exchange /\ Busy(flight[t])
                                                  /\ Of(flight[t])' = Of(flight[t])
  BY <1>1, Carried DEF Inv, Shape, Busy, Of
<1>4. ASSUME NEW d \in Exchange, Busy(d), d # e, Calm(Of(d)) PROVE Of(d) # l
  BY <1>1, <1>4 DEF Inv, AloneOK, Busy
<1>5. ASSUME NEW t \in Tab, out[t] = "sent", Calm(login[leaving[t]]) PROVE login[leaving[t]] # l
  BY <1>1, <1>5 DEF Inv, AloneOK, Busy
<1>6. AloneOK'
  BY <1>1, <1>3 DEF Inv, AloneOK, Calm
<1>7. OlderRevoked'
  <2>1. ASSUME NEW x \in 1..issued, login[x] = l, Calm(l) PROVE x \in revoked
    <3>1. Tip(presented[e]) /\ presented[e] \in revoked /\ login[presented[e]] = l
      BY <1>1, <2>1 DEF Inv, PresentedOK, Of
    <3>2. x < presented[e] \/ x = presented[e]
      BY <3>1, <2>1, <1>1 DEF Tip
    <3> QED BY <3>1, <3>2, <2>1, <1>1 DEF Inv, OlderRevoked, Tip
  <2>2. ASSUME NEW x \in 1..issued', NEW y \in 1..issued', login'[x] = login'[y], x < y, Calm(login[x])'
        PROVE  x \in revoked
    <3>1. x \in 1..issued
      BY <2>2, <1>1
    <3>2. CASE y = issued'
      BY <3>1, <3>2, <2>1, <2>2, <1>1 DEF Calm
    <3>3. CASE y # issued'
      <4>1. y \in 1..issued
        BY <3>3, <2>2, <1>1
      <4> QED BY <3>1, <4>1, <2>2, <1>1 DEF Calm, Inv, OlderRevoked
    <3> QED BY <3>2, <3>3
  <2> QED BY <2>2, <1>1 DEF OlderRevoked, Calm
<1>8. PresentedOK'
  <2>1. ASSUME NEW d \in Exchange, at'[d] \in {"sent", "valid", "revoked"}, Calm(Of(d))'
        PROVE  Tip(presented[d])'
    <3>1. d # e /\ Busy(d) /\ at[d] = at'[d]
      BY <2>1, <1>1 DEF Busy
    <3>2. Calm(Of(d)) /\ Of(d) # l
      BY <3>1, <2>1, <1>1, <1>3, <1>4 DEF Calm
    <3>3. Tip(presented[d]) /\ login[presented[d]] # l
      BY <3>1, <3>2, <2>1 DEF Inv, PresentedOK, Of
    <3>4. presented[d] \in 1..issued
      BY <3>3 DEF Tip
    <3> QED BY <3>3, <3>4, <1>1, <1>2 DEF Tip
  <2>2. ASSUME NEW d \in Exchange, at'[d] = "revoked" PROVE presented'[d] \in revoked'
    BY <2>2, <1>1 DEF Inv, PresentedOK
  <2>3. ASSUME NEW d \in Exchange, at'[d] = "sent", Calm(Of(d))', presented'[d] \in revoked'
        PROVE  Of(d)' \in ended'
    BY <2>3, <1>1, <1>3 DEF Inv, PresentedOK, Calm, Busy
  <2> QED BY <2>1, <2>2, <2>3 DEF PresentedOK
<1>9. FreshOK'
  <2>1. ASSUME NEW d \in Exchange, at'[d] = "answered", d # e
        PROVE  /\ fresh'[d] \in 1..issued' /\ login'[fresh'[d]] = Of(d)'
               /\ Calm(Of(d))' => Tip(fresh[d])' /\ (fresh'[d] \in revoked' => Of(d)' \in ended')
    <3>1. at[d] = "answered" /\ Busy(d) /\ fresh[d] \in 1..issued /\ login[fresh[d]] = Of(d)
      BY <2>1, <1>1 DEF Inv, FreshOK, Busy
    <3>2. Of(d)' = Of(d) /\ fresh'[d] = fresh[d] /\ login'[fresh[d]] = Of(d) /\ fresh'[d] \in 1..issued'
      BY <3>1, <2>1, <1>1, <1>3
    <3>3. ASSUME Calm(Of(d)) PROVE Tip(fresh[d])' /\ (fresh[d] \in revoked => Of(d) \in ended)
      <4>1. Tip(fresh[d]) /\ login[fresh[d]] # l /\ (fresh[d] \in revoked => Of(d) \in ended)
        BY <3>1, <3>3, <2>1, <1>4 DEF Inv, FreshOK
      <4>2. ASSUME NEW y \in 1..issued', login'[y] = login'[fresh[d]] PROVE y <= fresh[d]
        BY <4>1, <4>2, <3>1, <3>2, <1>1 DEF Tip
      <4> QED BY <4>1, <4>2, <3>2 DEF Tip
    <3> QED BY <3>2, <3>3, <1>1 DEF Calm
  <2>2. /\ fresh'[e] \in 1..issued' /\ login'[fresh'[e]] = Of(e)'
        /\ Tip(fresh[e])' /\ fresh'[e] \notin revoked'
    <3>1. issued' \notin revoked
      BY <1>1 DEF Inv, Shape
    <3>2. Tip(fresh[e])'
      BY <1>1 DEF Tip
    <3> QED BY <3>1, <3>2, <1>1, <1>3 DEF Busy
  <2> QED BY <2>1, <2>2 DEF FreshOK
<1>10. StoredOK'
  <2>1. CASE stored = NoToken \/ ~ Calm(login[stored])
    BY <2>1, <1>1, <1>3 DEF StoredOK, Calm
  <2>2. ASSUME stored # NoToken, Calm(login[stored]),
               NEW t \in Tab, flight[t] # NoExchange, Of(flight[t]) = login[stored]
        PROVE  StoredOK'
    <3>1. flight'[t] # NoExchange /\ Of(flight[t])' = login'[stored']
      BY <2>2, <1>1, <1>3
    <3> QED BY <3>1 DEF StoredOK
  <2>3. CASE /\ stored # NoToken /\ Calm(login[stored]) /\ Tip(stored)
             /\ stored \in revoked => login[stored] \in ended
             /\ ~ \E t \in Tab : flight[t] # NoExchange /\ Of(flight[t]) = login[stored]
    <3>1. login[stored] # l
      <4>1. SUFFICES ASSUME login[stored] = Of(e) PROVE FALSE
        OBVIOUS
      <4>2. e # NoExchange /\ Busy(e) /\ Calm(Of(e))
        BY <4>1, <2>3, <1>1 DEF SessionsAssumption, Busy
      <4>3. PICK t \in Tab : flight[t] = e
        BY <4>1, <4>2, <2>3 DEF Inv, OrphanOK
      <4> QED BY <4>1, <4>2, <4>3, <2>3
    <3>2. \A y \in 1..issued' : login'[y] = login'[stored] => y <= stored
      BY <3>1, <2>3, <1>1, <1>3 DEF Tip
    <3> QED BY <3>2, <2>3, <1>1, <1>3 DEF StoredOK, Tip
  <2> QED BY <2>1, <2>2, <2>3 DEF Inv, StoredOK
<1>11. LeavingOK'
  <2>1. ASSUME NEW t \in Tab, out[t] = "sent", Calm(login[leaving[t]]) PROVE Tip(leaving[t])'
    <3>1. Tip(leaving[t]) /\ login[leaving[t]] # l
      BY <2>1, <1>5 DEF Inv, LeavingOK
    <3>2. \A y \in 1..issued' : login'[y] = login'[leaving[t]] => y <= leaving[t]
      BY <3>1, <2>1, <1>1, <1>3 DEF Tip
    <3> QED BY <3>1, <3>2, <2>1, <1>1, <1>3 DEF Tip
  <2> QED BY <2>1, <1>1, <1>3 DEF LeavingOK, Calm
<1>12. EndedOK'
  <2>1. ASSUME NEW x \in 1..issued', Live(x)', login'[x] \in ended'
        PROVE  login'[x] \in disturbed'
    <3>1. CASE x = issued'
      BY <3>1, <2>1, <1>1 DEF Inv, EndedOK, Calm
    <3>2. CASE x # issued'
      <4>1. x \in 1..issued /\ x \notin revoked
        BY <3>2, <2>1, <1>1 DEF Live
      <4> QED BY <4>1, <2>1, <1>1 DEF Inv, EndedOK, SignedOutMeansOut, Live
    <3> QED BY <3>1, <3>2
  <2>2. \A d \in Exchange : at'[d] \in {"valid", "revoked"} /\ Of(d)' \in ended' => ~ Calm(Of(d))'
    BY <1>1, <1>3 DEF Inv, EndedOK, Calm, Busy
  <2> QED BY <2>1, <2>2 DEF EndedOK, SignedOutMeansOut
<1>13. OrphanOK' /\ RefusalHasReason'
  BY <1>1, <1>3 DEF Inv, OrphanOK, RefusalHasReason, Calm, Of, Busy
<1> QED BY <1>6, <1>7, <1>8, <1>9, <1>10, <1>11, <1>12, <1>13 DEF Inv
-----------------------------------------------------------------------------
(* The steps after which less is going on, with the same tokens            *)

LEMMA Wane ==
  ASSUME Inv, Shape', UNCHANGED <<tableVars, ended>>, disturbed \subseteq disturbed',
         \A d \in Exchange :
           \/ at'[d] = "free"
           \/ /\ Busy(d) /\ at'[d] \in {at[d], "failed"}
              /\ presented'[d] = presented[d] /\ fresh'[d] = fresh[d],
         \A t \in Tab : out'[t] = "sent" => out[t] = "sent" /\ leaving'[t] = leaving[t],
         StoredOK', OrphanOK'
  PROVE  Inv'
<1> USE DEF Of, Calm, Busy
<1>1. UNCHANGED <<issued, revoked, login, ended>> /\ disturbed \subseteq disturbed'
  BY DEF tableVars
<1>2. AloneOK' /\ OlderRevoked'
  BY <1>1 DEF Inv, AloneOK, OlderRevoked
<1>3. PresentedOK' /\ LeavingOK'
  BY <1>1 DEF Inv, PresentedOK, LeavingOK, Tip
<1>4. FreshOK'
  BY <1>1 DEF Inv, FreshOK, Tip
<1>5. EndedOK' /\ RefusalHasReason'
  BY <1>1 DEF Inv, EndedOK, SignedOutMeansOut, Live, RefusalHasReason
<1> QED BY <1>2, <1>3, <1>4, <1>5 DEF Inv

LEMMA FailStep ==
  ASSUME Inv, NEW e \in Exchange, exchange_fails(e) \/ forget(e), Shape'
  PROVE  Inv'
<1>1. /\ UNCHANGED <<tableVars, issued, login, revoked, stored, flight, out, leaving, ended, disturbed>>
      /\ \A d \in Exchange : d # e =>
           at'[d] = at[d] /\ presented'[d] = presented[d] /\ fresh'[d] = fresh[d]
      /\ \/ at'[e] = "free" /\ \A t \in Tab : flight[t] # e
         \/ Busy(e) /\ at'[e] = "failed" /\ presented'[e] = presented[e] /\ fresh'[e] = fresh[e]
  BY DEF exchange_fails, forget, Free, At, Inv, Shape, Busy, tableVars, tabVars
<1>2. \A d \in Exchange :
        \/ at'[d] = "free"
        \/ /\ Busy(d) /\ at'[d] \in {at[d], "failed"}
           /\ presented'[d] = presented[d] /\ fresh'[d] = fresh[d]
  BY <1>1 DEF Busy
<1>3. \A t \in Tab : flight[t] # NoExchange => presented'[flight[t]] = presented[flight[t]]
  BY <1>1 DEF Inv, Shape
<1>4. StoredOK'
  BY <1>1, <1>3 DEF Inv, StoredOK, Of, Calm, Tip
<1>5. OrphanOK'
  BY <1>1, <1>2 DEF Inv, OrphanOK, Of, Calm, Busy
<1> QED BY <1>1, <1>2, <1>4, <1>5, Wane

LEMMA LeaveStep ==
  ASSUME Inv, NEW t \in Tab, Leave(t), Shape',
         UNCHANGED <<tableVars, exchangeVars, ended, disturbed>>
  PROVE  Inv'
<1>1. \A d \in Exchange :
        \/ at'[d] = "free"
        \/ /\ Busy(d) /\ at'[d] \in {at[d], "failed"}
           /\ presented'[d] = presented[d] /\ fresh'[d] = fresh[d]
  BY DEF exchangeVars, Busy
<1>2. \A u \in Tab : out'[u] = "sent" => out[u] = "sent" /\ leaving'[u] = leaving[u]
  BY DEF Leave, Inv, Shape
<1>3. StoredOK' /\ OrphanOK'
  BY DEF Leave, StoredOK, OrphanOK
<1> QED BY <1>1, <1>2, <1>3, Wane

LEMMA ReceiveStep ==
  ASSUME Inv, NEW t \in Tab, receive_tokens(t), Shape'
  PROVE  Inv'
<1> DEFINE e == flight[t]
<1>1. /\ UNCHANGED <<tableVars, issued, login, revoked, out, leaving, ended, disturbed>>
      /\ e \in Exchange /\ at[e] = "answered" /\ stored' = fresh[e]
      /\ \A d \in Exchange : IF d = e THEN at'[d] = "free"
           ELSE at'[d] = at[d] /\ presented'[d] = presented[d] /\ fresh'[d] = fresh[d]
      /\ \A u \in Tab : flight'[u] = IF u = t THEN NoExchange ELSE flight[u]
  BY DEF receive_tokens, Free, At, Inv, Shape, tableVars
<1>2. \A d \in Exchange :
        \/ at'[d] = "free"
        \/ /\ Busy(d) /\ at'[d] \in {at[d], "failed"}
           /\ presented'[d] = presented[d] /\ fresh'[d] = fresh[d]
  BY <1>1 DEF Busy
<1>3. /\ login[fresh[e]] = Of(e)
      /\ Calm(Of(e)) => Tip(fresh[e]) /\ (fresh[e] \in revoked => Of(e) \in ended)
  BY <1>1 DEF Inv, FreshOK
<1>4. StoredOK'
  BY <1>1, <1>3 DEF StoredOK, Calm, Tip
<1>5. ASSUME NEW d \in Exchange, Busy(d)', Calm(Of(d))', login'[stored'] = Of(d)'
      PROVE  FALSE
  <2>1. d # e /\ Busy(d) /\ Busy(e) /\ Of(d) = Of(e) /\ Calm(Of(d))
    BY <1>1, <1>3, <1>5 DEF Busy, Of, Calm
  <2> QED BY <1>1, <2>1 DEF Inv, AloneOK
<1>6. OrphanOK'
  BY <1>5 DEF OrphanOK
<1> QED BY <1>1, <1>2, <1>4, <1>6, Wane

LEMMA ReloadStep ==
  ASSUME Inv, NEW t \in Tab, reload(t), Shape'
  PROVE  Inv'
<1>1. /\ UNCHANGED <<tableVars, issued, login, revoked, at, presented, fresh, stored, ended>>
      /\ \A u \in Tab : u # t => flight'[u] = flight[u] /\ out'[u] = out[u] /\ leaving'[u] = leaving[u]
      /\ flight'[t] = NoExchange /\ out'[t] = "none"
      /\ disturbed \subseteq disturbed'
      /\ flight[t] # NoExchange => Of(flight[t]) \in disturbed'
  <2>1. /\ UNCHANGED <<tableVars, exchangeVars, issued, login, revoked, at, presented, fresh, stored, ended>>
        /\ flight' = [flight EXCEPT ![t] = NoExchange]
        /\ out' = [out EXCEPT ![t] = "none"] /\ leaving' = [leaving EXCEPT ![t] = NoToken]
    BY DEF reload, tableVars, exchangeVars
  <2>2. /\ disturbed \subseteq disturbed'
        /\ flight[t] # NoExchange => login[presented[flight[t]]] \in disturbed'
    BY DEF reload
  <2> QED BY <2>1, <2>2 DEF Inv, Shape, Calm, Of
<1>2. \A d \in Exchange :
        \/ at'[d] = "free"
        \/ /\ Busy(d) /\ at'[d] \in {at[d], "failed"}
           /\ presented'[d] = presented[d] /\ fresh'[d] = fresh[d]
  BY <1>1 DEF Busy
<1>3. StoredOK'
  <2>1. SUFFICES ASSUME stored # NoToken, login[stored] \notin disturbed' PROVE StoredOK'
    BY <1>1 DEF StoredOK, Calm
  <2>2. Calm(login[stored])
    BY <1>1, <2>1 DEF Calm
  <2>3. CASE Tip(stored) /\ (stored \in revoked => login[stored] \in ended)
    BY <1>1, <2>3 DEF StoredOK, Tip
  <2>4. ASSUME NEW u \in Tab, flight[u] # NoExchange, Of(flight[u]) = login[stored]
        PROVE  StoredOK'
    <3>1. u # t
      BY <1>1, <2>1, <2>4
    <3> QED BY <1>1, <2>4, <3>1 DEF StoredOK, Of
  <2> QED BY <2>1, <2>2, <2>3, <2>4 DEF Inv, StoredOK
<1>4. OrphanOK'
  <2>1. SUFFICES ASSUME NEW d \in Exchange, Busy(d), \A u \in Tab : flight'[u] # d, Of(d) \notin disturbed'
                 PROVE  stored = NoToken \/ login[stored] # Of(d)
    BY <1>1 DEF OrphanOK, Busy, Of, Calm
  <2>2. flight[t] # d
    BY <1>1, <2>1 DEF SessionsAssumption
  <2>3. \A u \in Tab : flight[u] # d
    BY <1>1, <2>1, <2>2
  <2>4. Calm(Of(d))
    BY <1>1, <2>1 DEF Calm
  <2> QED BY <2>1, <2>3, <2>4 DEF Inv, OrphanOK
<1> QED BY <1>1, <1>2, <1>3, <1>4, Wane

\* Steps that touch neither an exchange nor the browser's token
LEMMA IdleStep ==
  ASSUME Inv, Shape', UNCHANGED <<tableVars, exchangeVars, stored, flight, ended, disturbed>>,
         \A t \in Tab : out'[t] = "sent" => out[t] = "sent" /\ leaving'[t] = leaving[t]
  PROVE  Inv'
<1>1. \A d \in Exchange :
        \/ at'[d] = "free"
        \/ /\ Busy(d) /\ at'[d] \in {at[d], "failed"}
           /\ presented'[d] = presented[d] /\ fresh'[d] = fresh[d]
  BY DEF exchangeVars, Busy
<1>2. StoredOK' /\ OrphanOK'
  BY DEF Inv, StoredOK, OrphanOK, Of, Calm, Busy, Tip, tableVars, exchangeVars
<1> QED BY <1>1, <1>2, Wane
-----------------------------------------------------------------------------
(* Operations that begin                                                   *)

LEMMA RefreshStep ==
  ASSUME Inv, NEW t \in Tab, NEW k \in Call, start_refresh(t, k), Shape'
  PROVE  Inv'
<1> DEFINE l == login[stored]
<1>1. PICK e \in Exchange :
        at[e] = "free" /\ At(e, "sent")
        /\ presented' = [presented EXCEPT ![e] = stored] /\ flight' = [flight EXCEPT ![t] = e]
  BY DEF start_refresh
<1>2. /\ UNCHANGED <<issued, revoked, login, fresh, stored, out, leaving, ended>>
      /\ flight[t] = NoExchange /\ stored # NoToken
      /\ disturbed' = disturbed \cup {m \in {l} : InProgress(m, Exchange \ {flight[t]})}
  BY DEF start_refresh, Begin, tableVars
<1>3. /\ at'[e] = "sent" /\ presented'[e] = stored /\ flight'[t] = e /\ e # NoExchange
      /\ \A d \in Exchange : d # e => at'[d] = at[d] /\ presented'[d] = presented[d]
      /\ \A u \in Tab : u # t => flight'[u] = flight[u]
  BY <1>1 DEF At, Inv, Shape, SessionsAssumption
<1>4. disturbed \subseteq disturbed'
  BY <1>2
<1>5. ASSUME NEW d \in Exchange, Busy(d), Of(d) = l PROVE l \in disturbed'
  BY <1>2, <1>5 DEF InProgress, Busy, Of, SessionsAssumption
<1>6. ASSUME NEW u \in Tab, out[u] = "sent", login[leaving[u]] = l PROVE l \in disturbed'
  BY <1>2, <1>6 DEF InProgress
<1>7. AloneOK'
  <2>1. ASSUME NEW d \in Exchange, d # e, at'[d] # "free", login[presented'[d]] = l
        PROVE  l \in disturbed'
    BY <1>3, <1>5, <2>1 DEF Busy, Of
  <2>2. ASSUME NEW c \in Exchange, NEW d \in Exchange, at'[c] # "free", at'[d] # "free",
               login[presented'[c]] = login[presented'[d]], login[presented'[c]] \notin disturbed'
        PROVE  c = d
    BY <1>3, <1>4, <2>1, <2>2 DEF Inv, AloneOK, Busy, Of, Calm
  <2>3. ASSUME NEW d \in Exchange, NEW u \in Tab, at'[d] # "free", out[u] = "sent",
               login[leaving[u]] = login[presented'[d]]
        PROVE  login[presented'[d]] \in disturbed'
    <3>1. CASE d = e
      BY <1>3, <1>6, <2>3, <3>1
    <3>2. CASE d # e
      BY <1>3, <1>4, <2>3, <3>2 DEF Inv, AloneOK, Busy, Of, Calm
    <3> QED BY <3>1, <3>2
  <2> QED BY <1>2, <2>2, <2>3 DEF AloneOK, Busy, Of, Calm
<1>8. OlderRevoked' /\ LeavingOK'
  BY <1>2, <1>4 DEF Inv, OlderRevoked, LeavingOK, Calm, Tip
<1>9. l \notin disturbed' => Tip(stored) /\ (stored \in revoked => l \in ended)
  <2>1. SUFFICES ASSUME l \notin disturbed' PROVE Tip(stored) /\ (stored \in revoked => l \in ended)
    OBVIOUS
  <2>2. \A u \in Tab : flight[u] # NoExchange => flight[u] \in Exchange /\ Busy(flight[u])
    BY DEF Inv, Shape
  <2> QED BY <1>2, <1>4, <1>5, <2>1, <2>2 DEF Inv, StoredOK, Calm
<1>10. PresentedOK'
  <2>1. \A x \in 1..issued : Tip(x)' <=> Tip(x)
    BY <1>2 DEF Tip
  <2>2. ASSUME NEW d \in Exchange, d # e
        PROVE  /\ at'[d] \in {"sent", "valid", "revoked"} /\ Calm(Of(d))' => Tip(presented[d])'
               /\ at'[d] = "revoked" => presented'[d] \in revoked'
               /\ at'[d] = "sent" /\ Calm(Of(d))' /\ presented'[d] \in revoked' => Of(d)' \in ended'
    BY <1>2, <1>3, <1>4, <2>2 DEF Inv, PresentedOK, Of, Calm, Tip
  <2>3. /\ Calm(Of(e))' => Tip(presented[e])'
        /\ Calm(Of(e))' /\ presented'[e] \in revoked' => Of(e)' \in ended'
    BY <1>2, <1>3, <1>9 DEF Of, Calm, Tip
  <2> QED BY <1>3, <2>2, <2>3 DEF PresentedOK
<1>11. FreshOK'
  BY <1>2, <1>3, <1>4 DEF Inv, FreshOK, Of, Calm, Tip
<1>12. StoredOK'
  BY <1>2, <1>3 DEF StoredOK, Of
<1>13. EndedOK' /\ RefusalHasReason'
  BY <1>2, <1>3, <1>4 DEF Inv, EndedOK, SignedOutMeansOut, RefusalHasReason, Live, Of, Calm
<1>14. OrphanOK'
  <2>1. SUFFICES ASSUME NEW d \in Exchange, at'[d] # "free", \A u \in Tab : flight'[u] # d,
                        login[presented'[d]] \notin disturbed'
                 PROVE  l # login[presented'[d]]
    BY <1>2 DEF OrphanOK, Busy, Of, Calm
  <2>2. d # e /\ Busy(d) /\ presented'[d] = presented[d] /\ Calm(Of(d))
    BY <1>3, <1>4, <2>1 DEF Busy, Of, Calm
  <2>3. \A u \in Tab : flight[u] # d
    BY <1>2, <1>3, <2>1 DEF SessionsAssumption
  <2> QED BY <1>2, <2>2, <2>3 DEF Inv, OrphanOK, Of
<1> QED BY <1>7, <1>8, <1>10, <1>11, <1>12, <1>13, <1>14 DEF Inv

LEMMA SignOutStep ==
  ASSUME Inv, NEW t \in Tab, log_out(t), Shape'
  PROVE  Inv'
<1>1. CASE stored = NoToken
  BY <1>1, LeaveStep DEF log_out
<1>2. CASE stored # NoToken
  <2> DEFINE l == login[stored]
  <2>1. /\ UNCHANGED <<issued, revoked, login, at, presented, fresh, stored, flight, ended>>
        /\ out'[t] = "sent" /\ leaving'[t] = stored
        /\ \A u \in Tab : u # t => out'[u] = out[u] /\ leaving'[u] = leaving[u]
        /\ disturbed' = disturbed \cup {m \in {l} : InProgress(m, Exchange)}
    BY <1>2 DEF log_out, Begin, Inv, Shape, tableVars, exchangeVars
  <2>2. disturbed \subseteq disturbed'
    BY <2>1
  <2>3. ASSUME NEW d \in Exchange, Busy(d), Of(d) = l PROVE l \in disturbed'
    BY <2>1, <2>3 DEF InProgress, Busy, Of
  <2>4. AloneOK'
    BY <2>1, <2>2, <2>3 DEF Inv, AloneOK, Busy, Of, Calm
  <2>5. OlderRevoked' /\ PresentedOK' /\ FreshOK'
    BY <2>1, <2>2 DEF Inv, OlderRevoked, PresentedOK, FreshOK, Of, Calm, Tip
  <2>6. StoredOK' /\ OrphanOK'
    BY <2>1, <2>2 DEF Inv, StoredOK, OrphanOK, Of, Calm, Tip, Busy
  <2>7. LeavingOK'
    <3>1. l \notin disturbed' => Tip(stored)
      <4>1. \A u \in Tab : flight[u] # NoExchange => flight[u] \in Exchange /\ Busy(flight[u])
        BY DEF Inv, Shape
      <4> QED BY <1>2, <2>2, <2>3, <4>1 DEF Inv, StoredOK, Calm
    <3> QED BY <2>1, <2>2, <3>1 DEF Inv, LeavingOK, Calm, Tip
  <2>8. EndedOK' /\ RefusalHasReason'
    BY <2>1, <2>2 DEF Inv, EndedOK, SignedOutMeansOut, RefusalHasReason, Live, Of, Calm
  <2> QED BY <2>4, <2>5, <2>6, <2>7, <2>8 DEF Inv
<1> QED BY <1>1, <1>2

LEMMA LogInStep ==
  ASSUME Inv, NEW t \in Tab, log_in(t), Shape'
  PROVE  Inv'
<1>1. /\ UNCHANGED <<revoked, login, at, presented, fresh, flight, out, leaving, ended, disturbed>>
      /\ issued \in Nat /\ issued' = issued + 1 /\ stored' = issued'
      /\ issued' \in 1..MaxTokens /\ login[issued'] = issued'
  BY DEF log_in, Inv, Shape, exchangeVars
<1>2. ASSUME NEW x \in 1..issued PROVE login[x] \in 1..issued /\ login[x] # issued'
  BY <1>1, Carried DEF Inv
<1>3. ASSUME NEW x \in 1..issued, Tip(x) PROVE Tip(x)'
  <2>1. ASSUME NEW y \in 1..issued', login[y] = login[x] PROVE y <= x
    BY <1>1, <1>2, <1>3, <2>1 DEF Tip
  <2> QED BY <1>1, <2>1 DEF Tip
<1>4. AloneOK'
  BY <1>1 DEF Inv, AloneOK, Busy, Of, Calm
<1>5. OlderRevoked'
  <2>1. ASSUME NEW x \in 1..issued', NEW y \in 1..issued', login[x] = login[y], x < y,
               login[x] \notin disturbed
        PROVE  x \in revoked
    <3>1. x \in 1..issued
      BY <1>1, <2>1
    <3>2. y \in 1..issued
      BY <1>1, <1>2, <2>1, <3>1
    <3> QED BY <2>1, <3>1, <3>2 DEF Inv, OlderRevoked, Calm
  <2> QED BY <1>1, <2>1 DEF OlderRevoked, Calm
<1>6. PresentedOK'
  <2>1. ASSUME NEW d \in Exchange, at[d] \in {"sent", "valid", "revoked"}, Calm(Of(d))
        PROVE  Tip(presented[d])'
    <3>1. Tip(presented[d]) /\ presented[d] \in 1..issued
      BY <2>1 DEF Inv, PresentedOK, Tip
    <3> QED BY <1>1, <1>3, <3>1 DEF Tip
  <2> QED BY <1>1, <2>1 DEF Inv, PresentedOK, Of, Calm
<1>7. FreshOK'
  <2>1. ASSUME NEW d \in Exchange, at[d] = "answered"
        PROVE  /\ fresh[d] \in 1..issued' /\ login[fresh[d]] = Of(d)
               /\ Calm(Of(d)) => Tip(fresh[d])' /\ (fresh[d] \in revoked => Of(d) \in ended)
    <3>1. /\ fresh[d] \in 1..issued /\ login[fresh[d]] = Of(d)
          /\ Calm(Of(d)) => Tip(fresh[d]) /\ (fresh[d] \in revoked => Of(d) \in ended)
      BY <2>1 DEF Inv, FreshOK
    <3> QED BY <1>1, <1>3, <3>1 DEF Tip
  <2> QED BY <1>1, <2>1 DEF FreshOK, Of, Calm
<1>8. StoredOK'
  <2>1. issued' \notin revoked
    BY <1>1 DEF Inv, Shape
  <2>2. Tip(stored)'
    BY <1>1, <1>2 DEF Tip
  <2> QED BY <1>1, <2>1, <2>2 DEF StoredOK
<1>9. LeavingOK'
  <2>1. ASSUME NEW u \in Tab, out[u] = "sent", Calm(login[leaving[u]]) PROVE Tip(leaving[u])'
    <3>1. Tip(leaving[u]) /\ leaving[u] \in 1..issued
      BY <2>1 DEF Inv, LeavingOK, Tip
    <3> QED BY <1>1, <1>3, <3>1 DEF Tip
  <2> QED BY <1>1, <2>1 DEF LeavingOK, Calm
<1>10. EndedOK'
  <2>1. ASSUME NEW x \in 1..issued', x \notin revoked, login[x] \in ended PROVE login[x] \in disturbed
    <3>1. issued' \notin ended
      BY <1>1 DEF Inv, Shape
    <3>2. x \in 1..issued
      BY <1>1, <2>1, <3>1
    <3> QED BY <2>1, <3>2 DEF Inv, EndedOK, SignedOutMeansOut, Live
  <2> QED BY <1>1, <2>1 DEF Inv, EndedOK, SignedOutMeansOut, Live, Of, Calm
<1>11. OrphanOK'
  <2>1. \A d \in Exchange : Busy(d) => Of(d) # issued'
    BY <1>1, Carried DEF Inv
  <2> QED BY <1>1, <2>1 DEF OrphanOK, Busy, Of
<1>12. RefusalHasReason'
  BY <1>1 DEF Inv, RefusalHasReason
<1> QED BY <1>4, <1>5, <1>6, <1>7, <1>8, <1>9, <1>10, <1>11, <1>12 DEF Inv
-----------------------------------------------------------------------------
(* Logging out                                                             *)

LEMMA LogoutStep ==
  ASSUME Inv, NEW t \in Tab, logout(t), Shape'
  PROVE  Inv'
<1> DEFINE x == leaving[t]
           l == login[x]
<1>1. /\ UNCHANGED <<issued, login, at, presented, fresh, stored, flight, disturbed>>
      /\ out[t] = "sent" /\ out'[t] = "done"
      /\ \A u \in Tab : u # t => out'[u] = out[u] /\ leaving'[u] = leaving[u]
      /\ revoked' = revoked \cup {x} /\ ended' = ended \cup {l}
  BY DEF logout, Inv, Shape, exchangeVars
<1>2. AloneOK' /\ OlderRevoked' /\ LeavingOK' /\ OrphanOK'
  BY <1>1 DEF Inv, AloneOK, OlderRevoked, LeavingOK, OrphanOK, Of, Calm, Busy, Tip
<1>3. PresentedOK'
  BY <1>1 DEF Inv, PresentedOK, Of, Calm, Tip
<1>4. FreshOK'
  <2>1. ASSUME NEW d \in Exchange, at[d] = "answered"
        PROVE  /\ fresh[d] \in 1..issued /\ login[fresh[d]] = Of(d)
               /\ Calm(Of(d)) => Tip(fresh[d]) /\ (fresh[d] \in revoked' => Of(d) \in ended')
    BY <1>1, <2>1 DEF Inv, FreshOK
  <2> QED BY <1>1, <2>1 DEF FreshOK, Of, Calm, Tip
<1>5. StoredOK'
  <2>1. stored \in revoked' => stored \in revoked \/ login[stored] \in ended'
    BY <1>1
  <2> QED BY <1>1, <2>1 DEF Inv, StoredOK, Of, Calm, Tip
<1>6. EndedOK'
  <2>1. ASSUME NEW y \in 1..issued, y \notin revoked', login[y] = l, Calm(l) PROVE FALSE
    <3>1. Tip(x) /\ y # x
      BY <1>1, <2>1 DEF Inv, LeavingOK
    <3>2. y < x
      BY <2>1, <3>1 DEF Tip, Inv, Shape
    <3> QED BY <1>1, <2>1, <3>1, <3>2 DEF Tip, Inv, OlderRevoked
  <2>2. ASSUME NEW d \in Exchange, at[d] \in {"valid", "revoked"}, Of(d) \in ended'
        PROVE  ~ Calm(Of(d))
    <3>1. CASE Of(d) \in ended
      BY <2>2, <3>1 DEF Inv, EndedOK
    <3>2. CASE Of(d) = l
      BY <1>1, <2>2, <3>2 DEF Inv, AloneOK, Busy
    <3> QED BY <1>1, <2>2, <3>1, <3>2
  <2> QED BY <1>1, <2>1, <2>2 DEF Inv, EndedOK, SignedOutMeansOut, Live, Of, Calm
<1>7. RefusalHasReason'
  BY <1>1 DEF Inv, RefusalHasReason
<1> QED BY <1>2, <1>3, <1>4, <1>5, <1>6, <1>7 DEF Inv

LEMMA RevokeAllStep ==
  ASSUME Inv, revoke_all_for_user, Shape'
  PROVE  Inv'
<1> DEFINE all == {login[x] : x \in 1..issued}
<1>1. /\ UNCHANGED <<issued, login, at, presented, fresh, stored, flight, out, leaving>>
      /\ revoked' = 1..issued /\ ended' = ended \cup all
      /\ disturbed' = disturbed \cup {l \in all : InProgress(l, Exchange)}
  BY DEF revoke_all_for_user, Begin, exchangeVars, tabVars
<1>2. \A d \in Exchange : Busy(d) => Of(d) \in all
  BY Carried DEF Inv, Of
<1>3. \A d \in Exchange : Busy(d) => Of(d) \in ended' /\ ~ Calm(Of(d))'
  BY <1>1, <1>2 DEF InProgress, Of, Busy, Calm
<1>4. disturbed \subseteq disturbed'
  BY <1>1
<1>5. AloneOK' /\ OrphanOK'
  BY <1>1, <1>3 DEF AloneOK, OrphanOK, Busy, Of
<1>6. OlderRevoked'
  BY <1>1 DEF OlderRevoked
<1>7. PresentedOK' /\ FreshOK'
  <2>1. \A d \in Exchange : at'[d] = "revoked" => presented'[d] \in revoked'
    BY <1>1, Carried DEF Inv, Busy
  <2>2. \A d \in Exchange : at'[d] = "answered" => fresh'[d] \in 1..issued' /\ login'[fresh'[d]] = Of(d)'
    BY <1>1 DEF Inv, FreshOK, Of
  <2>3. \A d \in Exchange : at'[d] # "free" => ~ Calm(Of(d))'
    BY <1>1, <1>3 DEF Busy
  <2> QED BY <2>1, <2>2, <2>3 DEF PresentedOK, FreshOK
<1>8. StoredOK'
  <2>1. stored # NoToken => login[stored] \in ended'
    BY <1>1, Carried DEF Inv
  <2> QED BY <1>1, <1>4, <2>1 DEF Inv, StoredOK, Of, Calm, Tip
<1>9. LeavingOK'
  BY <1>1, <1>4 DEF Inv, LeavingOK, Calm, Tip
<1>10. EndedOK'
  <2>1. \A x \in 1..issued' : ~ Live(x)'
    BY <1>1 DEF Live
  <2>2. \A d \in Exchange : at'[d] \in {"valid", "revoked"} => ~ Calm(Of(d))'
    BY <1>1, <1>3 DEF Busy
  <2> QED BY <2>1, <2>2 DEF EndedOK, SignedOutMeansOut
<1>11. RefusalHasReason'
  BY <1>1, <1>4 DEF Inv, RefusalHasReason
<1> QED BY <1>5, <1>6, <1>7, <1>8, <1>9, <1>10, <1>11 DEF Inv
-----------------------------------------------------------------------------
(* The theorems                                                            *)

LEMMA InitInv == ASSUME Init PROVE Inv
<1>1. Shape
  BY ShapeInit
<1>2. issued = 0 /\ (\A e \in Exchange : at[e] = "free") /\ stored = NoToken
      /\ \A t \in Tab : out[t] = "none"
  BY DEF Init
<1> QED BY <1>1, <1>2 DEF Inv, AloneOK, OlderRevoked, PresentedOK, FreshOK, StoredOK, LeavingOK,
             EndedOK, SignedOutMeansOut, OrphanOK, RefusalHasReason, Busy, Live

LEMMA InvStep == ASSUME Inv, [Next]_sessionVars PROVE Inv'
<1>1. Shape'
  BY ShapeStep DEF Inv
<1>2. CASE UNCHANGED sessionVars
  BY <1>1, <1>2, IdleStep DEF sessionVars, tabVars
<1>3. CASE revoke_all_for_user
  BY <1>1, <1>3, RevokeAllStep
<1>4. ASSUME NEW e \in Exchange, server(e) PROVE Inv'
  BY <1>1, <1>4, GetValidStep, RevokeStep, IssueStep, FailStep DEF server
<1>5. ASSUME NEW t \in Tab, log_in(t) PROVE Inv'
  BY <1>1, <1>5, LogInStep
<1>6. ASSUME NEW t \in Tab, client(t) PROVE Inv'
  <2>1. ASSUME NEW k \in Call, join_refresh(t, k) \/ replay_answered(t, k) PROVE Inv'
    BY <1>1, <2>1, IdleStep DEF join_refresh, replay_answered
  <2>2. CASE \E k \in Call : start_refresh(t, k)
    BY <1>1, <2>2, RefreshStep
  <2>3. CASE redirect_to_login(t) \/ finish_logout(t)
    BY <1>1, <2>3, LeaveStep DEF redirect_to_login, finish_logout
  <2>4. CASE receive_tokens(t)
    BY <1>1, <2>4, ReceiveStep
  <2>5. CASE log_out(t)
    BY <1>1, <2>5, SignOutStep
  <2>6. CASE logout(t)
    BY <1>1, <2>6, LogoutStep
  <2>7. CASE logout_fails(t)
    <3>1. \A u \in Tab : out'[u] = "sent" => out[u] = "sent" /\ leaving'[u] = leaving[u]
      BY <2>7 DEF logout_fails, Inv, Shape
    <3> QED BY <1>1, <2>7, <3>1, IdleStep DEF logout_fails
  <2>8. CASE reload(t)
    BY <1>1, <2>8, ReloadStep
  <2> QED BY <1>6, <2>1, <2>2, <2>3, <2>4, <2>5, <2>6, <2>7, <2>8 DEF client
<1> QED BY <1>2, <1>3, <1>4, <1>5, <1>6 DEF Next

LEMMA InvHolds == Spec => []Inv
<1> QED BY InitInv, InvStep, PTL DEF Spec

\* However many tabs, calls and tokens, rotation (auth.py:90-113) leaves a
\* login whose operations did not overlap at most one live refresh token.
THEOREM OneLiveAlways == Spec => []OneLivePerLogin
<1>1. Inv => OneLivePerLogin
  <2> SUFFICES ASSUME Inv, NEW x \in 1..issued, NEW y \in 1..issued, Live(x), Live(y),
                      login[x] = login[y], Calm(login[x])
               PROVE  x = y
    BY DEF OneLivePerLogin, Calm
  <2>1. x \notin revoked /\ y \notin revoked /\ issued \in Nat
    BY DEF Live, Inv, Shape
  <2>2. ~ (x < y) /\ ~ (y < x)
    BY <2>1 DEF Inv, OlderRevoked
  <2> QED BY <2>1, <2>2
<1> QED BY <1>1, InvHolds, PTL

\* However many tabs, calls and tokens, no refresh token of such a login
\* survives its logout (auth.py:116-134).
THEOREM SignedOutAlways == Spec => []SignedOutMeansOut
<1>1. Inv => SignedOutMeansOut
  BY DEF Inv, EndedOK
<1> QED BY <1>1, InvHolds, PTL

\* The single flight of client.ts:62-75 and the token kept in localStorage
\* suffice for every number of tabs and calls: the dashboard presents an
\* exchanged token only after operations that overlapped.
THEOREM RefusalsHaveReasons == Spec => []RefusalHasReason
<1>1. Inv => RefusalHasReason
  BY DEF Inv
<1> QED BY <1>1, InvHolds, PTL
-----------------------------------------------------------------------------
(* Types, and the calls that wait                                          *)

States == {"idle", "waiting", "replayed"}

\* The part of the type invariant that Shape leaves open
Typed ==
  /\ at \in [Exchange -> Places]
  /\ presented \in [Exchange -> Nat] /\ fresh \in [Exchange -> Nat]
  /\ page \in [Tab -> {"login", "app"}]
  /\ call \in [Tab -> [Call -> States]]
  /\ flight \in [Tab -> Exchange \cup {NoExchange}]
  /\ out \in [Tab -> {"none", "sent", "done"}]
  /\ leaving \in [Tab -> Nat]
  /\ lost \in 0..MaxLost

LEMMA TypedSuffices == ASSUME Shape, Typed PROVE TypeOK
<1>1. issued \in 0..MaxTokens
  BY DEF Shape
<1>2. presented \in [Exchange -> 0..issued] /\ fresh \in [Exchange -> 0..issued]
      /\ leaving \in [Tab -> 0..issued]
  BY DEF Shape, Typed
<1>3. \A e \in Exchange : at[e] = "free" <=> presented[e] = NoToken
  BY DEF Shape, Busy
<1> QED BY <1>1, <1>2, <1>3 DEF Shape, Typed, TypeOK, States

LEMMA TypedInit == ASSUME Init PROVE Typed
  BY DEF Init, Typed, Places, States, NoToken

\* A step of a handler leaves the dashboard alone.
LEMMA ServerTyped ==
  ASSUME Shape, Typed, NEW e \in Exchange, server(e)
  PROVE  Typed' /\ UNCHANGED tabVars
<1>1. UNCHANGED tabVars
  BY DEF server, get_valid, revoke, issue_tokens, exchange_fails, forget
<1>2. at' \in [Exchange -> Places]
  BY DEF server, get_valid, revoke, issue_tokens, exchange_fails, forget, Free, At, Typed, Places
<1>3. presented' \in [Exchange -> Nat] /\ fresh' \in [Exchange -> Nat]
  <2>1. CASE issue_tokens(e)
    BY <2>1 DEF issue_tokens, Typed, Shape
  <2>2. CASE ~ issue_tokens(e)
    BY <2>2 DEF server, get_valid, revoke, exchange_fails, forget, Free, Typed, NoToken
  <2> QED BY <2>1, <2>2
<1>4. lost' \in 0..MaxLost
  BY DEF server, get_valid, revoke, issue_tokens, exchange_fails, forget, Typed
<1> QED BY <1>1, <1>2, <1>3, <1>4 DEF Typed, tabVars

\* A tab that forgets its refresh forgets the calls that wait for it.
LEMMA LeaveTyped ==
  ASSUME Typed, WaitersAreWoken, NEW t \in Tab,
         call' = [call EXCEPT ![t] = [k \in Call |-> "idle"]],
         flight' = [flight EXCEPT ![t] = NoExchange],
         out' = [out EXCEPT ![t] = "none"],
         leaving' = [leaving EXCEPT ![t] = NoToken],
         page' \in [Tab -> {"login", "app"}],
         lost' \in 0..MaxLost, UNCHANGED exchangeVars
  PROVE  Typed' /\ WaitersAreWoken'
<1>1. Typed'
  BY DEF Typed, States, exchangeVars, NoToken
<1>2. WaitersAreWoken'
  BY DEF Typed, WaitersAreWoken
<1> QED BY <1>1, <1>2

LEMMA ClientTyped ==
  ASSUME Shape, Typed, WaitersAreWoken, NEW t \in Tab, client(t)
  PROVE  Typed' /\ WaitersAreWoken'
<1>1. ASSUME NEW k \in Call, join_refresh(t, k)
      PROVE  Typed' /\ WaitersAreWoken'
  BY <1>1 DEF join_refresh, Wait, Typed, States, WaitersAreWoken, exchangeVars
<1>2. ASSUME NEW k \in Call, start_refresh(t, k)
      PROVE  Typed' /\ WaitersAreWoken'
  <2>1. PICK e \in Exchange :
          /\ At(e, "sent")
          /\ presented' = [presented EXCEPT ![e] = stored]
          /\ flight' = [flight EXCEPT ![t] = e]
    BY <1>2 DEF start_refresh
  <2>2. /\ UNCHANGED <<fresh, page, out, leaving, lost>>
        /\ call' = [call EXCEPT ![t][k] = "waiting"]
    BY <1>2 DEF start_refresh, Wait
  <2>3. stored \in Nat
    BY DEF Shape
  <2>4. Typed'
    BY <2>1, <2>2, <2>3 DEF At, Typed, Places, States
  <2>5. WaitersAreWoken'
    BY <2>1, <2>2 DEF WaitersAreWoken, Typed
  <2> QED BY <2>4, <2>5
<1>3. ASSUME NEW k \in Call, replay_answered(t, k)
      PROVE  Typed' /\ WaitersAreWoken'
  BY <1>3 DEF replay_answered, Typed, States, WaitersAreWoken, exchangeVars
<1>4. ASSUME Leave(t), UNCHANGED <<exchangeVars, lost>>
      PROVE  Typed' /\ WaitersAreWoken'
  <2>1. page' \in [Tab -> {"login", "app"}] /\ lost' \in 0..MaxLost
    BY <1>4 DEF Leave, Typed
  <2> QED BY <1>4, <2>1, LeaveTyped DEF Leave
<1>5. CASE receive_tokens(t)
  <2>1. flight[t] \in Exchange /\ fresh[flight[t]] \in Nat
    BY <1>5 DEF receive_tokens, Typed
  <2>2. Typed'
    BY <1>5, <2>1 DEF receive_tokens, Free, At, Typed, Places, States, NoToken
  <2>3. WaitersAreWoken'
    BY <1>5 DEF receive_tokens, Typed, WaitersAreWoken
  <2> QED BY <2>2, <2>3
<1>6. CASE log_out(t) /\ stored # NoToken
  <2>1. /\ UNCHANGED <<exchangeVars, page, call, flight, lost>>
        /\ out' = [out EXCEPT ![t] = "sent"]
        /\ leaving' = [leaving EXCEPT ![t] = stored]
    BY <1>6 DEF log_out
  <2>2. stored \in Nat
    BY DEF Shape
  <2>3. Typed'
    BY <2>1, <2>2 DEF Typed, exchangeVars
  <2>4. WaitersAreWoken'
    BY <2>1 DEF WaitersAreWoken
  <2> QED BY <2>3, <2>4
<1>7. CASE logout(t) \/ logout_fails(t)
  <2>1. /\ UNCHANGED <<exchangeVars, page, call, flight>>
        /\ out' = [out EXCEPT ![t] = "done"]
        /\ leaving' = [leaving EXCEPT ![t] = NoToken]
    BY <1>7 DEF logout, logout_fails
  <2>2. lost' \in 0..MaxLost
    BY <1>7 DEF logout, logout_fails, Typed
  <2>3. Typed'
    BY <2>1, <2>2 DEF Typed, exchangeVars, NoToken
  <2>4. WaitersAreWoken'
    BY <2>1 DEF WaitersAreWoken
  <2> QED BY <2>3, <2>4
<1>8. CASE reload(t)
  <2>1. page' \in [Tab -> {"login", "app"}] /\ lost' \in 0..MaxLost
    BY <1>8 DEF reload, Typed
  <2> QED BY <1>8, <2>1, LeaveTyped DEF reload
<1> QED BY <1>1, <1>2, <1>3, <1>4, <1>5, <1>6, <1>7, <1>8
        DEF client, redirect_to_login, finish_logout, log_out

LEMMA TypedStep ==
  ASSUME Shape, Typed, WaitersAreWoken, [Next]_sessionVars
  PROVE  Typed' /\ WaitersAreWoken'
<1>1. CASE revoke_all_for_user
  BY <1>1 DEF revoke_all_for_user, Typed, WaitersAreWoken, exchangeVars, tabVars
<1>2. ASSUME NEW t \in Tab, log_in(t) PROVE Typed' /\ WaitersAreWoken'
  BY <1>2 DEF log_in, Typed, WaitersAreWoken, exchangeVars
<1>3. ASSUME NEW e \in Exchange, server(e) PROVE Typed' /\ WaitersAreWoken'
  BY <1>3, ServerTyped DEF WaitersAreWoken, tabVars
<1>4. CASE UNCHANGED sessionVars
  BY <1>4 DEF sessionVars, exchangeVars, tabVars, Typed, WaitersAreWoken
<1> QED BY <1>1, <1>2, <1>3, <1>4, ClientTyped DEF Next

\* Every row, exchange and tab keeps its type: no token is used that was
\* never issued (auth.py:90-134, client.ts:37-108).
THEOREM SessionTypeCorrect == Spec => []TypeOK
<1>1. Init => Shape /\ Typed /\ WaitersAreWoken
  BY ShapeInit, TypedInit DEF Init, WaitersAreWoken
<1>2. Shape /\ Typed /\ WaitersAreWoken /\ [Next]_sessionVars
        => (Shape /\ Typed /\ WaitersAreWoken)'
  BY ShapeStep, TypedStep
<1>3. Shape /\ Typed => TypeOK
  BY TypedSuffices
<1> QED BY <1>1, <1>2, <1>3, PTL DEF Spec

\* Whatever calls are refused and whatever pages are reloaded, a call waits
\* only while its tab has a refresh under way (client.ts:62-75).
THEOREM WaitersWoken == Spec => []WaitersAreWoken
<1>1. Init => Shape /\ Typed /\ WaitersAreWoken
  BY ShapeInit, TypedInit DEF Init, WaitersAreWoken
<1>2. Shape /\ Typed /\ WaitersAreWoken /\ [Next]_sessionVars
        => (Shape /\ Typed /\ WaitersAreWoken)'
  BY ShapeStep, TypedStep
<1> QED BY <1>1, <1>2, PTL DEF Spec
=============================================================================
