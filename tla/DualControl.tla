----------------------------- MODULE DualControl -----------------------------
(***************************************************************************)
(* What approval promises, without cases, requests, runs or logs: people   *)
(* vote on actions, a runner may take a licence for an action when the     *)
(* votes cast so far entitle it to, and only a licence is ever spent on an *)
(* execution.  A licence survives a later rejection (nothing recalls the   *)
(* runner) but not a restart.  Both workflow modes implement this.         *)
(***************************************************************************)
EXTENDS Naturals, TLAPS

CONSTANTS
  User,       \* people and applications that vote
  RoleOf,     \* [User -> role]
  Action,     \* what can be executed
  Required,   \* [Action -> roles that must approve]; {}: needs no approval
  Verdict,    \* decisions; "approved" and "rejected" are among them
  Runner      \* whoever executes

VARIABLES
  votes,      \* triples <<user, action, decision>> cast so far
  licences,   \* pairs <<runner, action>> cleared and not yet spent
  executed    \* how often each action was executed

dcVars == <<votes, licences, executed>>

Init ==
  /\ votes = {}
  /\ licences = {}
  /\ executed = [a \in Action |-> 0]

Backed(a) ==
  \A role \in Required[a] : \E u \in User : RoleOf[u] = role /\ <<u, a, "approved">> \in votes

Refused(a) == \E u \in User : <<u, a, "rejected">> \in votes

Entitled(a) == Required[a] = {} \/ (Backed(a) /\ ~ Refused(a))

Cast(u, a, d) ==
  /\ votes' = votes \cup {<<u, a, d>>}
  /\ UNCHANGED <<licences, executed>>

License(p, a) ==
  /\ Entitled(a)
  /\ licences' = licences \cup {<<p, a>>}
  /\ UNCHANGED <<votes, executed>>

Execute(p, a) ==
  /\ <<p, a>> \in licences
  /\ licences' = licences \ {<<p, a>>}
  /\ executed' = [executed EXCEPT ![a] = @ + 1]
  /\ UNCHANGED votes

Restart ==
  /\ licences' = {}
  /\ UNCHANGED <<votes, executed>>

Next ==
  \/ \E u \in User, a \in Action, d \in Verdict : Cast(u, a, d)
  \/ \E p \in Runner, a \in Action : License(p, a) \/ Execute(p, a)
  \/ Restart

Spec == Init /\ [][Next]_dcVars
-----------------------------------------------------------------------------
(* What follows from it.                                                   *)

Counts == executed \in [Action -> Nat]

\* An action that needs approval was executed, or is about to be, only after
\* each of its roles had approved it.
OnlyBacked ==
  \A a \in Action :
    Required[a] # {} /\ (executed[a] > 0 \/ \E p \in Runner : <<p, a>> \in licences) => Backed(a)

\* Once an action is refused and nobody holds a licence for it, it is never
\* executed again.
RefusalHolds ==
  [][\A a \in Action :
       Required[a] # {} /\ Refused(a) /\ (\A p \in Runner : <<p, a>> \notin licences)
         => /\ executed'[a] = executed[a]
            /\ Refused(a)' /\ \A p \in Runner : <<p, a>> \notin licences']_dcVars

Inv == Counts /\ OnlyBacked

LEMMA InvInit == Init => Inv
BY DEF Init, Inv, Counts, OnlyBacked

LEMMA InvNext == Inv /\ [Next]_dcVars => Inv'
<1> SUFFICES ASSUME Inv, [Next]_dcVars PROVE Inv'
  OBVIOUS
<1> USE DEF Inv, Counts, OnlyBacked, Backed
<1>1. ASSUME NEW u \in User, NEW a \in Action, NEW d \in Verdict, Cast(u, a, d) PROVE Inv'
  BY <1>1 DEF Cast
<1>2. ASSUME NEW p \in Runner, NEW a \in Action, License(p, a) PROVE Inv'
  BY <1>2 DEF License, Entitled
<1>3. ASSUME NEW p \in Runner, NEW a \in Action, Execute(p, a) PROVE Inv'
  BY <1>3 DEF Execute
<1>4. CASE Restart
  BY <1>4 DEF Restart
<1>5. CASE UNCHANGED dcVars
  BY <1>5 DEF dcVars
<1> QED BY <1>1, <1>2, <1>3, <1>4, <1>5 DEF Next

\* Whatever implements dual control executes only what was backed, for any
\* people, roles, actions and runners.
THEOREM BackedBeforeExecution == Spec => []OnlyBacked
<1>1. Inv => OnlyBacked
  BY DEF Inv
<1> QED BY <1>1, InvInit, InvNext, PTL DEF Spec

\* Whatever implements dual control stops at a refusal, except for the
\* licences already given.
THEOREM RefusalStops == Spec => RefusalHolds
<1> DEFINE Stops(a) ==
      Required[a] # {} /\ Refused(a) /\ (\A p \in Runner : <<p, a>> \notin licences)
        => /\ executed'[a] = executed[a]
           /\ Refused(a)' /\ \A p \in Runner : <<p, a>> \notin licences'
<1>1. ASSUME Inv, [Next]_dcVars, NEW a \in Action PROVE Stops(a)
  <2> USE DEF Refused
  <2>1. ASSUME NEW u \in User, NEW b \in Action, NEW d \in Verdict, Cast(u, b, d) PROVE Stops(a)
    BY <2>1 DEF Cast
  <2>2. ASSUME NEW p \in Runner, NEW b \in Action, License(p, b) PROVE Stops(a)
    BY <2>2 DEF License, Entitled
  <2>3. ASSUME NEW p \in Runner, NEW b \in Action, Execute(p, b) PROVE Stops(a)
    BY <1>1, <2>3 DEF Execute, Inv, Counts
  <2>4. CASE Restart
    BY <2>4 DEF Restart
  <2>5. CASE UNCHANGED dcVars
    BY <2>5 DEF dcVars
  <2> QED BY <1>1, <2>1, <2>2, <2>3, <2>4, <2>5 DEF Next
<1>2. Inv /\ [Next]_dcVars => [\A a \in Action : Stops(a)]_dcVars
  BY <1>1
<1> QED BY <1>2, InvInit, InvNext, PTL DEF Spec, RefusalHolds
=============================================================================
