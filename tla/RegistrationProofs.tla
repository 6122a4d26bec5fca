------------------------- MODULE RegistrationProofs -------------------------
(***************************************************************************)
(* A saved registration is whole, for every set of processes and every     *)
(* number of tokens and calls: a proof for Registration.                   *)
(***************************************************************************)
EXTENDS Registration, TLAPS

Records == [agent : Nat, token : Nat, id : Nat]
Tokens == [agent : Nat, status : {"pending", "active", "revoked"}]
Requests == [policy : Policies, loaded : Records, token : Nat]
Calls == {"idle", "rotate", "list", "claim", "create", "register"}

Types ==
  /\ stored \in Records /\ agents \in Nat
  /\ tokens \in Seq(Tokens) /\ Len(tokens) >= 1
  /\ pc \in [Processes -> Calls]
  /\ req \in [Processes -> Requests]

\* A token is pending as long as it has no Agent; that an Agent got it is never undone.
PendingHasNoAgent ==
  \A t \in 1..Len(tokens) : tokens[t].status = "pending" <=> tokens[t].agent = 0

\* What is saved was created at the platform before.
StoredExists == stored.id <= Len(tokens) /\ stored.token <= Len(tokens)

\* What a call was made with: an Agent to rotate the token of, a token to register.
CallsMakeSense ==
  \A p \in Processes :
    /\ pc[p] = "rotate" => req[p].loaded.agent # 0
    /\ pc[p] \in {"register", "claim"} => req[p].token \in 1..Len(tokens)

Inv == Types /\ PendingHasNoAgent /\ StoredExists /\ CallsMakeSense /\ StoredBelongsTogether

\* The stores that a first call may find belong to no saved registration.
LEMMA InitInvariant == Init => Inv
<1> SUFFICES ASSUME Init PROVE Inv
  OBVIOUS
<1>1. tokens \in Seq(Tokens) /\ Len(tokens) = 1 /\ tokens[1] = [agent |-> 0, status |-> "pending"]
  BY DEF Init, Tokens
<1>2. stored \in Records /\ stored.id = 0 /\ stored.token <= 1
  BY DEF Init, Empty, Records
<1>3. NoRequest \in Requests
  BY DEF NoRequest, Requests, Policies, Empty, Records
<1>4. Types
  BY <1>1, <1>2, <1>3 DEF Init, Types, Calls
<1>5. QED
  BY <1>1, <1>2, <1>4 DEF Init, Inv, PendingHasNoAgent, StoredExists, CallsMakeSense, StoredBelongsTogether

\* A process that ends its call, with a result or without, makes no call any more.
LEMMA EndOfCall ==
  ASSUME NEW p \in Processes, Inv,
         pc' = [pc EXCEPT ![p] = "idle"], req' = [req EXCEPT ![p] = NoRequest],
         Len(tokens') >= Len(tokens), Len(tokens') \in Nat, Len(tokens) \in Nat
  PROVE  /\ pc' \in [Processes -> Calls] /\ req' \in [Processes -> Requests]
         /\ CallsMakeSense'
<1>1. NoRequest \in Requests
  BY DEF NoRequest, Requests, Policies, Empty, Records
<1>2. pc' \in [Processes -> Calls] /\ req' \in [Processes -> Requests]
  BY <1>1 DEF Inv, Types, Calls
<1>3. ASSUME NEW o \in Processes
      PROVE  /\ pc'[o] = "rotate" => req'[o].loaded.agent # 0
             /\ pc'[o] \in {"register", "claim"} => req'[o].token \in 1..Len(tokens')
  <2>1. CASE o = p
    BY <2>1 DEF Inv, Types
  <2>2. CASE o # p
    BY <2>2 DEF Inv, Types, CallsMakeSense, Requests
  <2>3. QED
    BY <2>1, <2>2
<1>4. QED
  BY <1>2, <1>3 DEF CallsMakeSense

\* A new token at the platform changes none of the others.
LEMMA TokenCreated ==
  ASSUME NEW agent \in Nat, Inv, tokens' = Append(tokens, NewToken(agent))
  PROVE  /\ tokens' \in Seq(Tokens) /\ Len(tokens') = Last + 1 /\ Last \in Nat
         /\ PendingHasNoAgent'
         /\ \A t \in 1..Last : tokens'[t] = tokens[t]
         /\ tokens'[Last + 1].agent = agent
<1>1. NewToken(agent) \in Tokens /\ NewToken(agent).agent = agent
      /\ (NewToken(agent).status = "pending" <=> agent = 0)
  BY DEF NewToken, Tokens
<1>2. tokens \in Seq(Tokens) /\ Last \in Nat
  BY DEF Inv, Types, Last
<1>3. /\ tokens' \in Seq(Tokens) /\ Len(tokens') = Last + 1
      /\ \A t \in 1..Last : tokens'[t] = tokens[t]
      /\ tokens'[Last + 1] = NewToken(agent)
  BY <1>1, <1>2 DEF Last
<1>4. PendingHasNoAgent'
  BY <1>1, <1>2, <1>3 DEF PendingHasNoAgent, Inv, Last
<1>5. QED
  BY <1>1, <1>2, <1>3, <1>4

\* What a call is made with: `rotate` only with a stored Agent, `claim` only with a token.
LEMMA RouteIsPossible ==
  ASSUME NEW policy \in Policies, NEW r \in Records, NEW token \in Nat, NEW user \in BOOLEAN
  PROVE  /\ Route(policy, r, token, user) \in Calls \cup {"return", "raise"}
         /\ Route(policy, r, token, user) # "register"
         /\ Route(policy, r, token, user) = "rotate" => r.agent # 0
         /\ Route(policy, r, token, user) = "claim" => token # 0
<1> USE DEF Route, Calls
<1>1. CASE policy = "reuse_existing"
  BY <1>1
<1>2. CASE policy = "validate_only"
  BY <1>2
<1>3. CASE policy = "rotate_token"
  BY <1>3
<1>4. CASE policy = "force_new"
  BY <1>4
<1>5. QED
  BY <1>1, <1>2, <1>3, <1>4 DEF Policies

\* The start of a call changes nothing that is shared.
LEMMA EnsureInvariant ==
  ASSUME NEW p \in Processes, Inv, EnsureAgent(p)
  PROVE  Inv'
<1>1. PICK policy \in Policies, given \in {0, 1}, user \in BOOLEAN :
        LET token == First(given, stored)
            route == Route(policy, stored, token, user)
        IN  /\ CASE route = "return" -> Return(p, Effective(stored, token))
                 [] route = "raise" -> Raise(p)
                 [] OTHER ->
                      /\ pc' = [pc EXCEPT ![p] = route]
                      /\ req' = [req EXCEPT ![p] =
                                   [policy |-> policy, loaded |-> stored, token |-> token]]
                      /\ UNCHANGED returned
            /\ UNCHANGED <<stored, platform>>
  BY DEF EnsureAgent
<1> DEFINE token == First(given, stored)
           route == Route(policy, stored, token, user)
           request == [policy |-> policy, loaded |-> stored, token |-> token]
<1>2. UNCHANGED <<stored, tokens, agents>>
  BY <1>1 DEF platform
<1>3. stored \in Records /\ Len(tokens) \in Nat /\ token \in 0..Len(tokens)
  BY DEF Inv, Types, StoredExists, First, Records
<1>4. /\ route \in Calls \cup {"return", "raise"} /\ route # "register"
      /\ route = "rotate" => stored.agent # 0
      /\ route = "claim" => token # 0
  BY <1>3, RouteIsPossible
<1>5. pc' \in [Processes -> Calls] /\ req' \in [Processes -> Requests] /\ CallsMakeSense'
  <2>1. CASE route \in {"return", "raise"}
    <3>1. pc' = [pc EXCEPT ![p] = "idle"] /\ req' = [req EXCEPT ![p] = NoRequest]
      BY <1>1, <2>1 DEF Return, Raise
    <3>2. Len(tokens') >= Len(tokens) /\ Len(tokens') \in Nat
      BY <1>2, <1>3
    <3>3. QED
      BY <1>3, <3>1, <3>2, EndOfCall, Zenon
  <2>2. CASE route \notin {"return", "raise"}
    <3>1. pc' = [pc EXCEPT ![p] = route] /\ req' = [req EXCEPT ![p] = request]
      BY <1>1, <2>2
    <3>2. request \in Requests
      BY <1>3 DEF Requests
    <3>3. pc' \in [Processes -> Calls] /\ req' \in [Processes -> Requests]
      BY <1>4, <2>2, <3>1, <3>2 DEF Inv, Types
    <3>4. pc'[p] = route /\ req'[p] = request
      BY <3>1 DEF Inv, Types
    <3>5. \A o \in Processes : o # p => pc'[o] = pc[o] /\ req'[o] = req[o]
      BY <3>1 DEF Inv, Types
    <3>6. CallsMakeSense'
      BY <1>2, <1>3, <1>4, <3>4, <3>5 DEF CallsMakeSense, Inv
    <3>7. QED
      BY <3>3, <3>6
  <2>3. QED
    BY <2>1, <2>2
<1>6. QED
  BY <1>2, <1>5 DEF Inv, Types, PendingHasNoAgent, StoredExists, StoredBelongsTogether

\* A step that ends a call and leaves the platform and the store alone.
LEMMA EndInvariant ==
  ASSUME NEW p \in Processes, Inv, UNCHANGED <<stored, tokens, agents>>,
         pc' = [pc EXCEPT ![p] = "idle"], req' = [req EXCEPT ![p] = NoRequest]
  PROVE  Inv'
<1>1. Len(tokens) \in Nat /\ Len(tokens') >= Len(tokens) /\ Len(tokens') \in Nat
  BY DEF Inv, Types
<1>2. pc' \in [Processes -> Calls] /\ req' \in [Processes -> Requests] /\ CallsMakeSense'
  BY <1>1, EndOfCall, Zenon
<1>3. QED
  BY <1>2 DEF Inv, Types, PendingHasNoAgent, StoredExists, StoredBelongsTogether

\* The rotated token is saved with the Agent it was created for.
LEMMA RotatedInvariant ==
  ASSUME NEW p \in Processes, Inv, Rotated(p)
  PROVE  Inv'
<1> DEFINE agent == Loaded(p).agent
<1>1. agent \in Nat /\ agent # 0
  BY DEF Rotated, Inv, Types, CallsMakeSense, Loaded, Requests, Records
<1>2. tokens' = Append(tokens, NewToken(agent)) /\ agents' = agents
  BY DEF Rotated
<1>3. /\ tokens' \in Seq(Tokens) /\ Len(tokens') = Last + 1 /\ Last \in Nat
      /\ PendingHasNoAgent'
      /\ \A t \in 1..Last : tokens'[t] = tokens[t]
      /\ tokens'[Last + 1].agent = agent
  BY <1>1, <1>2, TokenCreated
<1>4. pc' = [pc EXCEPT ![p] = "idle"] /\ req' = [req EXCEPT ![p] = NoRequest]
  BY DEF Rotated, Save, AnswerLost, Return, Raise
<1>5. pc' \in [Processes -> Calls] /\ req' \in [Processes -> Requests] /\ CallsMakeSense'
  <2>1. Len(tokens') >= Len(tokens) /\ Len(tokens') \in Nat /\ Len(tokens) \in Nat
    BY <1>3 DEF Last
  <2>2. QED
    BY <1>4, <2>1, EndOfCall, Zenon
<1>6. stored' \in Records /\ StoredExists' /\ StoredBelongsTogether'
  <2>1. CASE stored' = stored
    BY <1>3, <2>1 DEF Inv, Types, Records, StoredExists, StoredBelongsTogether, Last
  <2>2. CASE stored' = [agent |-> agent, token |-> Last + 1, id |-> Last + 1]
    BY <1>1, <1>3, <2>2 DEF Records, StoredExists, StoredBelongsTogether, Last
  <2>3. QED
    BY <2>1, <2>2 DEF Rotated, Save, AnswerLost
<1>7. QED
  BY <1>2, <1>3, <1>5, <1>6 DEF Inv, Types, Last

\* A pending token is known to the process only; the store is not touched.
LEMMA CreatedInvariant ==
  ASSUME NEW p \in Processes, Inv, Created(p)
  PROVE  Inv'
<1>1. tokens' = Append(tokens, NewToken(0)) /\ agents' = agents /\ stored' = stored
  BY DEF Created, AnswerLost
<1>2. /\ tokens' \in Seq(Tokens) /\ Len(tokens') = Last + 1 /\ Last \in Nat
      /\ PendingHasNoAgent'
      /\ \A t \in 1..Last : tokens'[t] = tokens[t]
  BY <1>1, TokenCreated
<1>3. StoredExists' /\ StoredBelongsTogether'
  BY <1>1, <1>2 DEF Inv, Types, Records, StoredExists, StoredBelongsTogether, Last
<1>4. pc' \in [Processes -> Calls] /\ req' \in [Processes -> Requests] /\ CallsMakeSense'
  <2>1. CASE AnswerLost(p)
    <3>1. Len(tokens') >= Len(tokens) /\ Len(tokens') \in Nat /\ Len(tokens) \in Nat
      BY <1>2 DEF Last
    <3>2. pc' = [pc EXCEPT ![p] = "idle"] /\ req' = [req EXCEPT ![p] = NoRequest]
      BY <2>1 DEF AnswerLost, Raise
    <3>3. QED
      BY <3>1, <3>2, EndOfCall, Zenon
  <2>2. CASE pc' = [pc EXCEPT ![p] = "register"] /\ req' = [req EXCEPT ![p].token = Last + 1]
    <3>0. Last + 1 \in Nat /\ req[p] \in Requests
      BY <1>2 DEF Inv, Types
    <3>1. pc' \in [Processes -> Calls] /\ req' \in [Processes -> Requests]
      <4>1. [req[p] EXCEPT !.token = Last + 1] \in Requests
        BY <3>0 DEF Requests
      <4>2. req' = [req EXCEPT ![p] = [req[p] EXCEPT !.token = Last + 1]]
        BY <2>2
      <4>3. QED
        BY <2>2, <4>1, <4>2 DEF Inv, Types, Calls
    <3>2. pc'[p] = "register" /\ req'[p].token = Last + 1
      BY <2>2 DEF Inv, Types, Requests
    <3>3. \A o \in Processes : o # p => pc'[o] = pc[o] /\ req'[o] = req[o]
      BY <2>2 DEF Inv, Types
    <3>4. CallsMakeSense'
      BY <1>2, <3>2, <3>3 DEF CallsMakeSense, Inv, Last
    <3>5. QED
      BY <3>1, <3>4
  <2>3. QED
    BY <2>1, <2>2 DEF Created
<1>5. QED
  BY <1>1, <1>2, <1>3, <1>4 DEF Inv, Types, Last

\* A registered token has an Agent, and that Agent is saved with it; a token that
\* had one keeps it, so no record of another process is broken.
LEMMA RegisteredInvariant ==
  ASSUME NEW p \in Processes, Inv, Registered(p)
  PROVE  Inv'
<1> DEFINE t == req[p].token
           agent == IF tokens[t].status = "pending" THEN agents + 1 ELSE tokens[t].agent
<1>1. /\ tokens \in Seq(Tokens) /\ t \in 1..Len(tokens) /\ tokens[t] \in Tokens /\ Len(tokens) \in Nat
  BY DEF Registered, Inv, Types, CallsMakeSense
<1>2. tokens' = [tokens EXCEPT ![t] = NewToken(agent)] /\ agents' \in Nat
  BY DEF Registered, Inv, Types
<1>3. agent \in Nat /\ agent # 0
  BY <1>1 DEF Inv, Types, PendingHasNoAgent, Tokens
<1>4. NewToken(agent) = [agent |-> agent, status |-> "active"] /\ NewToken(agent) \in Tokens
  BY <1>3 DEF NewToken, Tokens
<1>5. /\ tokens' \in Seq(Tokens) /\ Len(tokens') = Len(tokens)
      /\ tokens'[t] = NewToken(agent)
      /\ \A o \in 1..Len(tokens) : o # t => tokens'[o] = tokens[o]
  BY <1>1, <1>2, <1>4
<1>6. PendingHasNoAgent'
  BY <1>1, <1>3, <1>4, <1>5 DEF PendingHasNoAgent, Inv
<1>7. pc' = [pc EXCEPT ![p] = "idle"] /\ req' = [req EXCEPT ![p] = NoRequest]
  BY DEF Registered, Save, AnswerLost, Return, Raise
<1>8. pc' \in [Processes -> Calls] /\ req' \in [Processes -> Requests] /\ CallsMakeSense'
  <2>1. Len(tokens') >= Len(tokens) /\ Len(tokens') \in Nat
    BY <1>1, <1>5
  <2>2. QED
    BY <1>1, <1>7, <2>1, EndOfCall, Zenon
<1>9. stored' \in Records /\ StoredExists' /\ StoredBelongsTogether'
  <2>1. CASE stored' = stored
    <3>1. stored.id # 0 => tokens'[stored.id].agent = stored.agent
      <4>1. CASE stored.id = t
        <5>1. t # 0 /\ tokens[t].agent = stored.agent /\ stored.agent # 0
          BY <1>1, <4>1 DEF Inv, StoredBelongsTogether
        <5>2. agent = stored.agent
          BY <1>1, <5>1 DEF Inv, PendingHasNoAgent
        <5>3. QED
          BY <1>4, <1>5, <4>1, <5>2
      <4>2. CASE stored.id # t
        BY <1>5, <4>2 DEF Inv, Types, Records, StoredExists, StoredBelongsTogether
      <4>3. QED
        BY <4>1, <4>2
    <3>2. QED
      BY <1>5, <2>1, <3>1 DEF Inv, Types, StoredExists, StoredBelongsTogether
  <2>2. CASE stored' = [agent |-> agent, token |-> t, id |-> t]
    BY <1>1, <1>3, <1>4, <1>5, <2>2 DEF Records, StoredExists, StoredBelongsTogether
  <2>3. QED
    BY <2>1, <2>2 DEF Registered, Save, AnswerLost
<1>10. QED
  BY <1>1, <1>2, <1>5, <1>6, <1>8, <1>9 DEF Inv, Types

\* A revoked token keeps its Agent, so the record still belongs together.
LEMMA RevokeInvariant ==
  ASSUME NEW t \in DOMAIN tokens, Inv, Revoke(t)
  PROVE  Inv'
<1>1. /\ tokens \in Seq(Tokens) /\ t \in 1..Len(tokens) /\ tokens[t] \in Tokens
      /\ Len(tokens) \in Nat /\ tokens[t].status = "active"
  BY DEF Revoke, Inv, Types
<1>2. tokens' = [tokens EXCEPT ![t] = [tokens[t] EXCEPT !.status = "revoked"]]
  BY DEF Revoke
<1>3. UNCHANGED <<stored, agents, pc, req>>
  BY DEF Revoke, processes
<1>4. /\ [tokens[t] EXCEPT !.status = "revoked"] \in Tokens
      /\ [tokens[t] EXCEPT !.status = "revoked"].status = "revoked"
      /\ [tokens[t] EXCEPT !.status = "revoked"].agent = tokens[t].agent
  BY <1>1 DEF Tokens
<1>5. /\ tokens' \in Seq(Tokens) /\ Len(tokens') = Len(tokens)
      /\ tokens'[t].status = "revoked"
      /\ \A o \in 1..Len(tokens) : tokens'[o].agent = tokens[o].agent
      /\ \A o \in 1..Len(tokens) : o # t => tokens'[o] = tokens[o]
  <2> DEFINE new == [tokens[t] EXCEPT !.status = "revoked"]
  <2>1. new \in Tokens /\ new.status = "revoked" /\ new.agent = tokens[t].agent
    BY <1>4
  <2>2. tokens' = [tokens EXCEPT ![t] = new]
    BY <1>2
  <2> HIDE DEF new
  <2>3. /\ tokens' \in Seq(Tokens) /\ Len(tokens') = Len(tokens) /\ tokens'[t] = new
        /\ \A o \in 1..Len(tokens) : o # t => tokens'[o] = tokens[o]
    BY <1>1, <2>1, <2>2
  <2>4. QED
    BY <2>1, <2>3
<1>6. PendingHasNoAgent'
  BY <1>1, <1>5 DEF Inv, PendingHasNoAgent
<1>7. StoredBelongsTogether'
  BY <1>3, <1>5 DEF Inv, Types, Records, StoredExists, StoredBelongsTogether
<1>8. QED
  BY <1>3, <1>5, <1>6, <1>7 DEF Inv, Types, StoredExists, CallsMakeSense

\* Every step keeps the invariant.
LEMMA StepInvariant == Inv /\ [Next]_vars => Inv'
<1> SUFFICES ASSUME Inv, [Next]_vars PROVE Inv'
  OBVIOUS
<1>1. ASSUME NEW p \in Processes, EnsureAgent(p) PROVE Inv'
  BY <1>1, EnsureInvariant
<1>2. ASSUME NEW p \in Processes, Rotated(p) PROVE Inv'
  BY <1>2, RotatedInvariant
<1>3. ASSUME NEW p \in Processes, Created(p) PROVE Inv'
  BY <1>3, CreatedInvariant
<1>4. ASSUME NEW p \in Processes, Registered(p) PROVE Inv'
  BY <1>4, RegisteredInvariant
<1>5. ASSUME NEW p \in Processes, Listed(p) \/ Fails(p) PROVE Inv'
  BY <1>5, EndInvariant DEF Listed, Fails, Return, Raise, platform
<1>6. ASSUME NEW t \in DOMAIN tokens, Revoke(t) PROVE Inv'
  BY <1>6, RevokeInvariant
<1>7. CASE UNCHANGED vars
  BY <1>7 DEF vars, platform, processes, Inv, Types, PendingHasNoAgent, StoredExists,
              CallsMakeSense, StoredBelongsTogether
<1>8. QED
  BY <1>1, <1>2, <1>3, <1>4, <1>5, <1>6, <1>7 DEF Next

\* In every reachable state: what is stored exists at the platform, and a token
\* is pending exactly as long as it has no Agent.
THEOREM InvariantHolds == Spec => []Inv
  BY InitInvariant, StepInvariant, PTL DEF Spec

\* StoredBelongsTogether for every set of processes, number of tokens and of
\* calls (ensure_agent, _registered_response).
THEOREM SavedIsWhole == Spec => []StoredBelongsTogether
<1>1. Inv => StoredBelongsTogether
  BY DEF Inv
<1>2. QED
  BY <1>1, InvariantHolds, PTL

-----------------------------------------------------------------------------
(* One Agent, as long as calls do not overlap and no new Agent is forced *)

\* One process at a time, and what it loaded is still what is stored.
OneAtATime ==
  \A p \in Processes : pc[p] # "idle" =>
    /\ \A o \in Processes : pc[o] # "idle" => o = p
    /\ Loaded(p) = stored
    /\ pc[p] \in {"claim", "create", "register"} /\ req[p].policy # "force_new" => stored.id = 0

\* A saved registration was given to a process: it is of the Agent that is stored.
AgentKept ==
  \A p \in Processes : returned[p].id # 0 => stored.id # 0 /\ returned[p].agent = stored.agent

AgentInv ==
  /\ returned \in [Processes -> Records]
  /\ ~disturbed => OneAtATime /\ AgentKept

LEMMA InitAgent == Init => AgentInv
  BY DEF Init, AgentInv, OneAtATime, AgentKept, Empty, Records

\* A step that ends the only call: what it returns and saves decides.
LEMMA OnlyCallEnds ==
  ASSUME NEW p \in Processes, NEW r, Inv, AgentInv, ~disturbed, pc[p] # "idle",
         pc' = [pc EXCEPT ![p] = "idle"], returned' = [returned EXCEPT ![p] = r],
         \/ stored' = stored
         \/ stored'.id # 0 /\ (stored.id # 0 => stored'.agent = stored.agent),
         r.id # 0 => (r = returned[p] \/ (stored'.id # 0 /\ r.agent = stored'.agent))
  PROVE  OneAtATime' /\ AgentKept'
<1>1. \A o \in Processes : pc'[o] = "idle"
  BY DEF Inv, Types, AgentInv, OneAtATime
<1>2. \A o \in Processes : returned'[o] = IF o = p THEN r ELSE returned[o]
  BY DEF AgentInv
<1>3. \A o \in Processes :
        returned[o].id # 0 => stored'.id # 0 /\ returned[o].agent = stored'.agent
  BY DEF AgentInv, AgentKept
<1>4. AgentKept'
  BY <1>2, <1>3 DEF AgentKept
<1>5. QED
  BY <1>1, <1>4 DEF OneAtATime

\* A call without a result returns what the process had before.
LEMMA OnlyCallFails ==
  ASSUME NEW p \in Processes, Inv, AgentInv, pc[p] # "idle", Raise(p), UNCHANGED stored,
         disturbed => disturbed'
  PROVE  AgentInv'
<1>1. pc' = [pc EXCEPT ![p] = "idle"] /\ returned' = returned
  BY DEF Raise
<1>2. returned' = [returned EXCEPT ![p] = returned[p]]
  BY <1>1 DEF AgentInv
<1>3. ~disturbed' => OneAtATime' /\ AgentKept'
  BY <1>1, <1>2, OnlyCallEnds
<1>4. QED
  BY <1>1, <1>3 DEF AgentInv

\* A call that makes a new Agent without being forced to finds no saved registration.
LEMMA RouteFindsNothing ==
  ASSUME NEW policy \in Policies, NEW r \in Records, NEW given \in {0, 1}, NEW user \in BOOLEAN,
         r.id # 0 => r.token = r.id,
         Route(policy, r, First(given, r), user) \in {"claim", "create"}, policy # "force_new"
  PROVE  r.id = 0
<1>1. CASE policy = "reuse_existing"
  BY <1>1 DEF Route, First, HasRecord, Records
<1>2. CASE policy = "validate_only"
  BY <1>2 DEF Route
<1>3. CASE policy = "rotate_token"
  BY <1>3 DEF Route, First, HasRecord, Records
<1>4. QED
  BY <1>1, <1>2, <1>3 DEF Policies

LEMMA EnsureAgentKept ==
  ASSUME NEW p \in Processes, Inv, AgentInv, EnsureAgent(p)
  PROVE  AgentInv'
<1>1. PICK policy \in Policies, given \in {0, 1}, user \in BOOLEAN :
        LET token == First(given, stored)
            route == Route(policy, stored, token, user)
        IN  /\ pc[p] = "idle"
            /\ disturbed' = (disturbed \/ \E o \in Processes : pc[o] # "idle")
            /\ CASE route = "return" -> Return(p, Effective(stored, token))
                 [] route = "raise" -> Raise(p)
                 [] OTHER ->
                      /\ pc' = [pc EXCEPT ![p] = route]
                      /\ req' = [req EXCEPT ![p] =
                                   [policy |-> policy, loaded |-> stored, token |-> token]]
                      /\ UNCHANGED returned
            /\ stored' = stored
  BY DEF EnsureAgent
<1> DEFINE token == First(given, stored)
           route == Route(policy, stored, token, user)
           request == [policy |-> policy, loaded |-> stored, token |-> token]
           result == Effective(stored, token)
<1>2. stored \in Records /\ token \in Nat /\ (stored.id # 0 => stored.token = stored.id)
  BY DEF Inv, Types, First, Records, StoredBelongsTogether
<1>3. result \in Records /\ result.id = stored.id /\ result.agent = stored.agent
  BY <1>2 DEF Effective, Records
<1>4. route \in Calls \cup {"return", "raise"} /\ route # "register"
  BY <1>2, RouteIsPossible
<1>5. route \in {"claim", "create"} /\ policy # "force_new" => stored.id = 0
  BY <1>2, RouteFindsNothing
<1>6. /\ disturbed' = (disturbed \/ \E o \in Processes : pc[o] # "idle") /\ stored' = stored
      /\ route = "return" => Return(p, result)
      /\ route = "raise" => Raise(p)
      /\ route \notin {"return", "raise"} =>
           /\ pc' = [pc EXCEPT ![p] = route] /\ req' = [req EXCEPT ![p] = request]
           /\ UNCHANGED returned
  BY <1>1
<1> HIDE DEF token, route, result
<1>7. returned' \in [Processes -> Records]
      /\ \A o \in Processes : returned'[o] \in {returned[o], result}
  BY <1>3, <1>4, <1>6 DEF AgentInv, Return, Raise
<1>8. SUFFICES ASSUME ~disturbed' PROVE OneAtATime' /\ AgentKept'
  BY <1>7 DEF AgentInv
<1>9. \A o \in Processes : pc[o] = "idle"
  BY <1>6, <1>8
<1>10. AgentKept'
  BY <1>3, <1>6, <1>7, <1>8 DEF AgentInv, AgentKept
<1>11. CASE route \in {"return", "raise"}
  <2>1. \A o \in Processes : pc'[o] = "idle"
    BY <1>6, <1>9, <1>11 DEF Return, Raise, Inv, Types
  <2>2. QED
    BY <1>10, <2>1 DEF OneAtATime
<1>12. CASE route \notin {"return", "raise"}
  <2>1. \A o \in Processes : o # p => pc'[o] = "idle"
    BY <1>6, <1>9, <1>12 DEF Inv, Types
  <2>2. pc'[p] = route /\ req'[p] = request
    BY <1>6, <1>12 DEF Inv, Types
  <2>3. OneAtATime'
    BY <1>4, <1>5, <1>6, <2>1, <2>2 DEF OneAtATime, Loaded
  <2>4. QED
    BY <1>10, <2>3
<1>13. QED
  BY <1>11, <1>12

LEMMA RotatedAgentKept ==
  ASSUME NEW p \in Processes, Inv, AgentInv, Rotated(p)
  PROVE  AgentInv'
<1> DEFINE r == [agent |-> Loaded(p).agent, token |-> Last + 1, id |-> Last + 1]
<1>1. pc[p] = "rotate" /\ UNCHANGED disturbed /\ (Save(p, r) \/ AnswerLost(p))
  BY DEF Rotated
<1>2. r \in Records /\ r.id # 0
  BY DEF Inv, Types, Loaded, Requests, Records, Last
<1>3. CASE AnswerLost(p)
  BY <1>1, <1>3, OnlyCallFails DEF AnswerLost
<1>4. CASE Save(p, r)
  <2>1. stored' = r /\ pc' = [pc EXCEPT ![p] = "idle"] /\ returned' = [returned EXCEPT ![p] = r]
    BY <1>4 DEF Save, Return
  <2>2. ~disturbed => r.agent = stored.agent
    BY <1>1 DEF AgentInv, OneAtATime
  <2>3. returned' \in [Processes -> Records]
    BY <1>2, <2>1 DEF AgentInv
  <2> HIDE DEF r
  <2>4. ~disturbed => OneAtATime' /\ AgentKept'
    BY <1>1, <1>2, <2>1, <2>2, OnlyCallEnds
  <2>5. QED
    BY <1>1, <2>3, <2>4 DEF AgentInv
<1>5. QED
  BY <1>1, <1>3, <1>4

LEMMA CreatedAgentKept ==
  ASSUME NEW p \in Processes, Inv, AgentInv, Created(p)
  PROVE  AgentInv'
<1>1. pc[p] = "create" /\ UNCHANGED disturbed
  BY DEF Created
<1>2. CASE AnswerLost(p)
  BY <1>1, <1>2, OnlyCallFails DEF AnswerLost
<1>3. CASE /\ pc' = [pc EXCEPT ![p] = "register"] /\ req' = [req EXCEPT ![p].token = Last + 1]
           /\ UNCHANGED <<stored, returned>>
  <2>1. /\ pc'[p] = "register" /\ req'[p].loaded = req[p].loaded /\ req'[p].policy = req[p].policy
        /\ \A o \in Processes : o # p => pc'[o] = pc[o] /\ req'[o] = req[o]
    BY <1>3 DEF Inv, Types, Requests
  <2>2. ~disturbed => OneAtATime'
    BY <1>1, <1>3, <2>1 DEF AgentInv, OneAtATime, Loaded
  <2>3. QED
    BY <1>1, <1>3, <2>2 DEF AgentInv, AgentKept
<1>4. QED
  BY <1>2, <1>3 DEF Created

LEMMA RegisteredAgentKept ==
  ASSUME NEW p \in Processes, Inv, AgentInv, Registered(p)
  PROVE  AgentInv'
<1> DEFINE t == req[p].token
           agent == IF tokens[t].status = "pending" THEN agents + 1 ELSE tokens[t].agent
           r == [agent |-> agent, token |-> t, id |-> t]
<1>1. /\ pc[p] \in {"register", "claim"}
      /\ \/ Save(p, r) /\ disturbed' = (disturbed \/ req[p].policy = "force_new")
         \/ AnswerLost(p) /\ UNCHANGED disturbed
  BY DEF Registered
<1>2. r \in Records /\ r.id # 0
  <2>1. t \in 1..Len(tokens) /\ tokens[t] \in Tokens /\ agents \in Nat
    BY <1>1 DEF Inv, Types, CallsMakeSense
  <2>2. QED
    BY <2>1 DEF Records, Tokens
<1> HIDE DEF r
<1>3. CASE AnswerLost(p) /\ UNCHANGED disturbed
  BY <1>1, <1>3, OnlyCallFails DEF AnswerLost
<1>4. CASE Save(p, r) /\ disturbed' = (disturbed \/ req[p].policy = "force_new")
  <2>1. stored' = r /\ pc' = [pc EXCEPT ![p] = "idle"] /\ returned' = [returned EXCEPT ![p] = r]
    BY <1>4 DEF Save, Return
  <2>2. ~disturbed' => stored.id = 0
    BY <1>1, <1>4 DEF AgentInv, OneAtATime
  <2>3. returned' \in [Processes -> Records]
    BY <1>2, <2>1 DEF AgentInv
  <2>4. ~disturbed' => OneAtATime' /\ AgentKept'
    BY <1>1, <1>2, <1>4, <2>1, <2>2, OnlyCallEnds
  <2>5. QED
    BY <2>3, <2>4 DEF AgentInv
<1>5. QED
  BY <1>1, <1>3, <1>4

LEMMA ListedAgentKept ==
  ASSUME NEW p \in Processes, Inv, AgentInv, Listed(p)
  PROVE  AgentInv'
<1> DEFINE r == Effective(Loaded(p), req[p].token)
<1>1. pc[p] = "list" /\ UNCHANGED <<stored, disturbed>> /\ (Return(p, r) \/ Raise(p))
  BY DEF Listed
<1>2. r \in Records /\ r.id = Loaded(p).id /\ r.agent = Loaded(p).agent
  BY DEF Inv, Types, Loaded, Requests, Records, Effective
<1> HIDE DEF r
<1>3. CASE Raise(p)
  BY <1>1, <1>3, OnlyCallFails
<1>4. CASE Return(p, r)
  <2>1. pc' = [pc EXCEPT ![p] = "idle"] /\ returned' = [returned EXCEPT ![p] = r]
    BY <1>4 DEF Return
  <2>2. ~disturbed => r.id = stored.id /\ r.agent = stored.agent
    BY <1>1, <1>2 DEF AgentInv, OneAtATime
  <2>3. returned' \in [Processes -> Records]
    BY <1>2, <2>1 DEF AgentInv
  <2>4. ~disturbed => OneAtATime' /\ AgentKept'
    BY <1>1, <2>1, <2>2, OnlyCallEnds
  <2>5. QED
    BY <1>1, <2>3, <2>4 DEF AgentInv
<1>5. QED
  BY <1>1, <1>3, <1>4

LEMMA StepAgent == Inv /\ AgentInv /\ [Next]_vars => AgentInv'
<1> SUFFICES ASSUME Inv, AgentInv, [Next]_vars PROVE AgentInv'
  OBVIOUS
<1>1. ASSUME NEW p \in Processes,
             EnsureAgent(p) \/ Rotated(p) \/ Created(p) \/ Registered(p) \/ Listed(p)
      PROVE  AgentInv'
  BY <1>1, EnsureAgentKept, RotatedAgentKept, CreatedAgentKept, RegisteredAgentKept, ListedAgentKept
<1>2. ASSUME NEW p \in Processes, Fails(p) PROVE AgentInv'
  BY <1>2, OnlyCallFails DEF Fails
<1>3. CASE (\E t \in DOMAIN tokens : Revoke(t)) \/ UNCHANGED vars
  <2>1. UNCHANGED <<stored, pc, req, returned, disturbed>>
    BY <1>3 DEF Revoke, vars, processes
  <2>2. QED
    BY <2>1 DEF AgentInv, OneAtATime, AgentKept, Loaded
<1>4. QED
  BY <1>1, <1>2, <1>3 DEF Next

\* OneAgentIsKept for every set of processes and any number of calls: a call that is not
\* forced to make a new Agent makes one only when no registration is saved (ensure_agent).
THEOREM AgentIsKept == Spec => []OneAgentIsKept
<1>1. AgentInv => OneAgentIsKept
  BY DEF AgentInv, AgentKept, OneAgentIsKept
<1>2. QED
  BY <1>1, InvariantHolds, InitAgent, StepAgent, PTL DEF Spec
=============================================================================
