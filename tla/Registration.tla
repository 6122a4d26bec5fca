---------------------------- MODULE Registration ----------------------------
(***************************************************************************)
(* ensure_agent: processes that find, create or renew the registration of  *)
(* an Agent.  Each loads the stored record, decides, calls the platform    *)
(* and saves what it got; a process may be gone, and an answer lost,       *)
(* between the call and the save.  Tokens and Agents are numbered in the   *)
(* order the platform creates them, 0 stands for an empty field; token 1   *)
(* is one the user made at the platform.                                   *)
(***************************************************************************)
EXTENDS Naturals, Sequences

CONSTANTS
  Processes,
  MaxTokens,   \* bound: tokens the platform has created
  MaxStarts    \* bound: calls of ensure_agent

ASSUME RegistrationAssumption == MaxTokens \in Nat /\ MaxStarts \in Nat

VARIABLES
  stored,     \* the record in the store: agent, token, token_id
  tokens,     \* platform: each token's agent (0 while pending) and status
  agents,     \* platform: how many Agents were created
  pc,         \* each process: "idle", or the call it waits for
  req,        \* its policy, the record it loaded, the token it works with
  returned,   \* what its last ensure_agent returned
  starts,
  disturbed   \* history: two calls at a time, or a new Agent was forced

platform == <<tokens, agents>>
processes == <<pc, req, returned>>
vars == <<stored, platform, processes, starts, disturbed>>

Empty == [agent |-> 0, token |-> 0, id |-> 0]
Policies == {"reuse_existing", "rotate_token", "force_new", "validate_only"}
NoRequest == [policy |-> "reuse_existing", loaded |-> Empty, token |-> 0]

\* A store that is empty, or an .env to which the user gave the token, or an
\* Agent of another time whose token is not kept.
Init ==
  /\ stored \in {Empty, [Empty EXCEPT !.token = 1], [Empty EXCEPT !.agent = 1]}
  /\ tokens = <<[agent |-> 0, status |-> "pending"]>>
  /\ agents = 1
  /\ pc = [p \in Processes |-> "idle"]
  /\ req = [p \in Processes |-> NoRequest]
  /\ returned = [p \in Processes |-> Empty]
  /\ starts = 0 /\ disturbed = FALSE

-----------------------------------------------------------------------------
Loaded(p) == req[p].loaded
HasRecord(r) == r.agent # 0 \/ r.token # 0

\* _first(request or environment, stored)
First(given, r) == IF given # 0 THEN given ELSE r.token

\* _effective_registration: a token that is given takes the place of the
\* stored one; its id does not.
Effective(r, token) == [r EXCEPT !.token = token]

Return(p, r) ==
  /\ pc' = [pc EXCEPT ![p] = "idle"]
  /\ returned' = [returned EXCEPT ![p] = r]
  /\ req' = [req EXCEPT ![p] = NoRequest]

Raise(p) ==
  /\ pc' = [pc EXCEPT ![p] = "idle"]
  /\ req' = [req EXCEPT ![p] = NoRequest]
  /\ UNCHANGED returned

\* The call that a policy makes, or what it does without one.
Route(policy, r, token, user) ==
  CASE policy = "reuse_existing" /\ HasRecord(r) /\ token # 0 -> "return"
    [] policy = "validate_only" ->
         IF HasRecord(r) /\ token # 0 /\ user THEN "list" ELSE "raise"
    [] policy = "rotate_token" /\ HasRecord(r) ->
         IF r.agent # 0 THEN "rotate" ELSE "raise"
    [] policy = "reuse_existing" /\ ~HasRecord(r) /\ token # 0 -> "claim"
    [] OTHER -> IF user THEN "create" ELSE "raise"

\* From the load of the record to the first call; `user`: a user token, a
\* slug and a name are there.
EnsureAgent(p) ==
  \E policy \in Policies, given \in {0, 1}, user \in BOOLEAN :
    LET token == First(given, stored)
        route == Route(policy, stored, token, user)
    IN  /\ pc[p] = "idle" /\ starts < MaxStarts
        /\ starts' = starts + 1
        /\ disturbed' = (disturbed \/ \E o \in Processes : pc[o] # "idle")
        /\ CASE route = "return" -> Return(p, Effective(stored, token))
             [] route = "raise" -> Raise(p)
             [] OTHER ->
                  /\ pc' = [pc EXCEPT ![p] = route]
                  /\ req' = [req EXCEPT ![p] =
                               [policy |-> policy, loaded |-> stored, token |-> token]]
                  /\ UNCHANGED returned
        /\ UNCHANGED <<stored, platform>>

-----------------------------------------------------------------------------
(* The platform acts on a call; the process saves the answer, or never gets it *)

NewToken(agent) == [agent |-> agent, status |-> IF agent = 0 THEN "pending" ELSE "active"]
Last == Len(tokens)

\* save_agent_registration replaces all fields of the record, in one file.
Save(p, r) == stored' = r /\ Return(p, r)

\* The answer is lost, or the process dies before it saves.
AnswerLost(p) == Raise(p) /\ UNCHANGED stored

\* Mutant: the rotated token is saved without the Agent it is for.
RotatedAlone(p) ==
  /\ pc[p] = "rotate" /\ Last < MaxTokens
  /\ tokens' = Append(tokens, NewToken(Loaded(p).agent)) /\ UNCHANGED agents
  /\ \/ Save(p, [agent |-> 0, token |-> Last + 1, id |-> Last + 1])
     \/ AnswerLost(p)
  /\ UNCHANGED <<starts, disturbed>>

\* create_agent_token for the stored Agent; the old token stays valid.
Rotated(p) ==
  /\ pc[p] = "rotate" /\ Last < MaxTokens
  /\ tokens' = Append(tokens, NewToken(Loaded(p).agent)) /\ UNCHANGED agents
  /\ \/ Save(p, [agent |-> Loaded(p).agent, token |-> Last + 1, id |-> Last + 1])
     \/ AnswerLost(p)
  /\ UNCHANGED <<starts, disturbed>>

\* Mutant: the pending token is saved before it is registered.
CreatedSaved(p) ==
  /\ pc[p] = "create" /\ Last < MaxTokens
  /\ tokens' = Append(tokens, NewToken(0)) /\ UNCHANGED agents
  /\ \/ /\ pc' = [pc EXCEPT ![p] = "register"]
        /\ req' = [req EXCEPT ![p].token = Last + 1]
        /\ stored' = [agent |-> Loaded(p).agent, token |-> Last + 1, id |-> Last + 1]
        /\ UNCHANGED returned
     \/ AnswerLost(p)
  /\ UNCHANGED <<starts, disturbed>>

\* create_agent_token without an Agent: a pending token, registered next.
Created(p) ==
  /\ pc[p] = "create" /\ Last < MaxTokens
  /\ tokens' = Append(tokens, NewToken(0)) /\ UNCHANGED agents
  /\ \/ /\ pc' = [pc EXCEPT ![p] = "register"]
        /\ req' = [req EXCEPT ![p].token = Last + 1]
        /\ UNCHANGED <<stored, returned>>
     \/ AnswerLost(p)
  /\ UNCHANGED <<starts, disturbed>>

\* register_agent_via_token: a pending token becomes the token of a new Agent.
\* A token that is active already names its Agent again (external).
Registered(p) ==
  /\ pc[p] \in {"register", "claim"}
  /\ LET t == req[p].token
         new == tokens[t].status = "pending"
         agent == IF new THEN agents + 1 ELSE tokens[t].agent
     IN  /\ tokens[t].status # "revoked"
         /\ tokens' = [tokens EXCEPT ![t] = NewToken(agent)]
         /\ agents' = IF new THEN agents + 1 ELSE agents
         /\ \/ /\ Save(p, [agent |-> agent, token |-> t, id |-> t])
               /\ disturbed' = (disturbed \/ req[p].policy = "force_new")
            \/ AnswerLost(p) /\ UNCHANGED disturbed
  /\ UNCHANGED starts

\* list_agent_tokens: the stored id has to be an active token; which token
\* is returned does not matter.
Listed(p) ==
  /\ pc[p] = "list"
  /\ LET r == Loaded(p) IN
       IF r.id # 0 /\ tokens[r.id].status = "active"
       THEN Return(p, Effective(r, req[p].token)) \/ Raise(p)
       ELSE Raise(p)
  /\ UNCHANGED <<stored, platform, starts, disturbed>>

\* Refused, not reached, no plaintext in the answer, or the process dies.
Fails(p) ==
  /\ pc[p] # "idle"
  /\ Raise(p)
  /\ UNCHANGED <<stored, platform, starts, disturbed>>

\* The user revokes a token at the platform.
Revoke(t) ==
  /\ tokens[t].status = "active"
  /\ tokens' = [tokens EXCEPT ![t].status = "revoked"]
  /\ UNCHANGED <<stored, agents, processes, starts, disturbed>>

Next ==
  \/ \E p \in Processes :
       \/ EnsureAgent(p) \/ Rotated(p) \/ Created(p) \/ Registered(p)
       \/ Listed(p) \/ Fails(p)
  \/ \E t \in DOMAIN tokens : Revoke(t)

Spec == Init /\ [][Next]_vars

-----------------------------------------------------------------------------
(* Properties *)

\* A record that ensure_agent has saved is whole: its token is the one its id
\* names, and it belongs to the Agent of the record, whatever process died
\* between the calls and whatever other process saved meanwhile
\* (ensure_agent, _registered_response).
StoredBelongsTogether ==
  stored.id # 0 =>
    /\ stored.token = stored.id
    /\ stored.agent # 0 /\ tokens[stored.id].agent = stored.agent

\* "registers pending token then reuses store" (tests/test_registration.py:32):
\* every process that was given a saved registration is of the Agent that is
\* stored, across failed calls, lost answers and rotations, as long as calls do
\* not overlap and nobody forces a new Agent.
OneAgentIsKept ==
  ~disturbed =>
    \A p \in Processes :
      returned[p].id # 0 => returned[p].agent = stored.agent
=============================================================================
