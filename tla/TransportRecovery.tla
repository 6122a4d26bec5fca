------------------------- MODULE TransportRecovery -------------------------
(***************************************************************************)
(* How the worker changes its transport (runtime/worker.py): a connection  *)
(* that fails is replaced by long polling, a probe goes back to WebSocket, *)
(* and a policy signal of Core makes the worker discover its Runtime again.*)
(*                                                                         *)
(* Any loop of the worker may find itself doing this.  The loops are       *)
(*   Loops   the heartbeat, command and spool loops and the lease renewals,*)
(*   Claimer the claim loop, whose call holds the switch lock,             *)
(*   Prober  the WebSocket probe.                                          *)
(* Two locks order them: _policy_recovery_lock and _claim_switch_lock.  An *)
(* await is a step of its own; what lies between two awaits is one step.   *)
(*                                                                         *)
(* The configured transport is "auto" with long polling as the fallback.   *)
(* A transport object is a record with its identity.  Core's policy is a   *)
(* number; Core answers a transport built under an older one with the      *)
(* policy signal.  An HTTP transport that was closed fails every call;     *)
(* attaching it is tried for ever.  A call in flight on a WebSocket that   *)
(* is closed may still be answered here.  Attaching a Session and resuming *)
(* it is one answer of Core; RuntimeWorker has what a resume does.         *)
(***************************************************************************)
EXTENDS Naturals

CONSTANTS
  Loops, Claimer, Prober,
  Cancelable,     \* the lease renewals: ended with their attempt at any await
  NoTask,
  MaxPolicy,      \* how often Core changes its policy
  MaxLosses,      \* calls and connections that fail
  MaxCancels      \* renewals that are cancelled

ASSUME TasksAssumption ==
  /\ Cancelable \subseteq Loops
  /\ Claimer # Prober /\ NoTask \notin {Claimer, Prober}
  /\ {Claimer, Prober, NoTask} \intersect Loops = {}
  /\ MaxPolicy \in Nat /\ MaxLosses \in Nat /\ MaxCancels \in Nat

VARIABLES
  policy,          \* Core: the version of its policy
  transport,       \* _transport
  http,            \* _http_transport
  made,            \* transport objects made so far: the next identity
  origin,          \* runtime_url: the policy it was last discovered under
  shut,            \* the HTTP transports that were closed, by identity
  policyLock,      \* _policy_recovery_lock
  switchLock,      \* _claim_switch_lock
  transitioning,   \* _transport_transitioning
  revision,        \* _policy_revision
  lastObserved,    \* _policy_last_observed
  terminal,        \* _policy_terminal_error: "none", "failed" or "persisted"
  task,            \* where each loop is
  fatal,           \* _fatal
  budget           \* failures and cancellations left

link == <<transport, http, made, origin, shut>>
locks == <<policyLock, switchLock>>
incident == <<revision, lastObserved, terminal>>
vars == <<policy, link, locks, transitioning, incident, task, fatal, budget>>

Tasks == Loops \union {Claimer, Prober}

Transport(kind, id, version) == [kind |-> kind, id |-> id, policy |-> version]
NoTransport == Transport("none", 0, 0)

\* observed: the revision read before the call; used: the transport of the call;
\* stale: used was attached again since; from: what to return to after a rediscovery;
\* next: the transport a switch, a probe or a rediscovery puts in; before: the HTTP
\* transport a rediscovery took out.
Idle == [pc |-> "idle", second |-> FALSE, observed |-> 0, used |-> NoTransport,
         stale |-> FALSE, from |-> "none", next |-> NoTransport, before |-> NoTransport]

Init ==
  /\ policy = 0 /\ made = 2 /\ origin = 0 /\ shut = {}
  /\ http = Transport("pull", 1, 0)
  /\ transport = Transport("ws", 2, 0)
  /\ policyLock = NoTask /\ switchLock = NoTask /\ transitioning = FALSE
  /\ revision = 0 /\ lastObserved = 0 /\ terminal = "none"
  /\ task = [t \in Tasks |-> IF t = Prober THEN [Idle EXCEPT !.pc = "off"] ELSE Idle]
  /\ fatal = "none"
  /\ budget = [losses |-> MaxLosses, cancels |-> MaxCancels]

\* _report_fatal ends every loop.
Up == fatal = "none"
At(t, pc) == Up /\ task[t].pc = pc
Outdated(x) == x.policy < policy
Open(x) == x.id \notin shut
Lose == budget.losses > 0 /\ budget' = [budget EXCEPT !.losses = @ - 1]

\* create_session moves the attachment of an HTTP transport: calls in flight on it
\* are refused when they return.
Reattached(x, tasks) ==
  [t \in Tasks |-> IF tasks[t].pc = "call" /\ tasks[t].used = x
                     THEN [tasks[t] EXCEPT !.stale = TRUE] ELSE tasks[t]]
Goto(t, state) == [task EXCEPT ![t] = state]

\* _ensure_websocket_probe_loop, after current was put in.
Probing(tasks, current) ==
  IF current.kind = "pull" /\ task[Prober].pc = "off" THEN [tasks EXCEPT ![Prober] = Idle] ELSE tasks

-----------------------------------------------------------------------------
(* An operation: _policy_operation and the loops that call it *)

\* A loop comes to _policy_operation while a rediscovery holds the lock.
OperationWaits(t) ==
  /\ At(t, "idle") /\ t # Prober /\ ~transitioning /\ policyLock # NoTask
  /\ task' = Goto(t, [Idle EXCEPT !.pc = "gate", !.used = transport])
  /\ UNCHANGED <<policy, link, locks, transitioning, incident, fatal, budget>>

\* A RuntimePolicyRecoveryError out of an operation: a loop forgives any error while
\* the transport changes, the claim loop does not.
OperationRaises(t, used) ==
  /\ task' = Goto(t, Idle)
  /\ fatal' = IF t # Claimer /\ (transitioning' \/ used # transport)
                THEN fatal ELSE "policy recovery failed"

\* The request leaves; the claim waits for the switch lock first.
Calling(t, state) ==
  IF t = Claimer THEN [state EXCEPT !.pc = "claim"]
  ELSE [state EXCEPT !.pc = "call", !.used = transport, !.stale = FALSE]

\* Mutant: an operation does not look at the error of an earlier incident.
OperationStartsAnyway(t) ==
  /\ \/ At(t, "gate")
     \/ At(t, "idle") /\ t # Prober /\ ~transitioning
  /\ policyLock = NoTask
  /\ task' = Goto(t, Calling(t, [Idle EXCEPT !.observed = revision]))
  /\ UNCHANGED <<policy, link, locks, transitioning, incident, fatal, budget>>

OperationStarts(t) ==
  /\ \/ At(t, "gate")
     \/ At(t, "idle") /\ t # Prober /\ ~transitioning
  /\ policyLock = NoTask
  /\ UNCHANGED <<policy, link, locks, transitioning, incident, budget>>
  /\ IF terminal # "none"
       THEN OperationRaises(t, IF task[t].pc = "gate" THEN task[t].used ELSE transport)
       ELSE /\ task' = Goto(t, Calling(t, [Idle EXCEPT !.observed = revision]))
            /\ UNCHANGED fatal

\* The claim reads the transport once it has the switch lock.
ClaimLocks ==
  /\ At(Claimer, "claim") /\ switchLock = NoTask
  /\ switchLock' = Claimer
  /\ task' = Goto(Claimer, [task[Claimer] EXCEPT !.pc = "call", !.used = transport, !.stale = FALSE])
  /\ UNCHANGED <<policy, link, policyLock, transitioning, incident, fatal, budget>>

\* A call that returns gives up the switch lock.
Unlocked(t) == IF switchLock = t THEN NoTask ELSE switchLock

CallSucceeds(t) ==
  /\ At(t, "call") /\ Open(task[t].used) /\ ~task[t].stale /\ ~Outdated(task[t].used)
  /\ task' = Goto(t, Idle)
  /\ switchLock' = Unlocked(t)
  /\ UNCHANGED <<policy, link, policyLock, transitioning, incident, fatal, budget>>

\* The policy signal: the first time rediscover, the second time give up.
CallMeetsPolicy(t) ==
  /\ At(t, "call") /\ Open(task[t].used) /\ ~task[t].stale /\ Outdated(task[t].used)
  /\ task' = Goto(t, [task[t] EXCEPT !.pc = IF task[t].second THEN "persist" ELSE "join",
                                     !.from = "operation"])
  /\ switchLock' = Unlocked(t)
  /\ UNCHANGED <<policy, link, policyLock, transitioning, incident, fatal, budget>>

\* A failure that is not fatal: of the network, or because the transport was closed.
\* A WebSocket that failed is replaced.
CallFails(t) ==
  /\ At(t, "call")
  /\ \/ Lose
     \/ ~Open(task[t].used) /\ UNCHANGED budget
  /\ task' = Goto(t,
       IF task[t].used.kind = "ws" /\ (t = Claimer \/ (~transitioning /\ task[t].used = transport))
         THEN [Idle EXCEPT !.pc = "switch", !.used = task[t].used, !.observed = revision]
         ELSE Idle)
  /\ switchLock' = Unlocked(t)
  /\ UNCHANGED <<policy, link, policyLock, transitioning, incident, fatal>>

\* "Runtime attachment changed while a request was in flight".
CallIsStale(t) ==
  /\ At(t, "call") /\ Open(task[t].used) /\ task[t].stale
  /\ task' = Goto(t, Idle)
  /\ fatal' = IF t # Claimer /\ (transitioning \/ task[t].used # transport)
                THEN fatal ELSE "attachment changed"
  /\ switchLock' = Unlocked(t)
  /\ UNCHANGED <<policy, link, policyLock, transitioning, incident, budget>>

-----------------------------------------------------------------------------
(* _recover_transport *)

\* Under the switch lock, a transport another loop has replaced is left alone; otherwise
\* the HTTP transport of that moment is attached.
SwitchLocks(t) ==
  /\ At(t, "switch") /\ switchLock = NoTask
  /\ IF task[t].used = transport
       THEN /\ switchLock' = t /\ transitioning' = TRUE
            /\ task' = Goto(t, [task[t] EXCEPT !.pc = "replace", !.next = http])
       ELSE task' = Goto(t, Idle) /\ UNCHANGED <<switchLock, transitioning>>
  /\ UNCHANGED <<policy, link, policyLock, incident, fatal, budget>>

SwitchSucceeds(t) ==
  /\ At(t, "replace") /\ Open(task[t].next) /\ ~Outdated(task[t].next)
  /\ transport' = task[t].next
  /\ task' = Probing(Reattached(task[t].next, Goto(t, Idle)), task[t].next)
  /\ switchLock' = NoTask /\ transitioning' = FALSE
  /\ UNCHANGED <<policy, http, made, origin, shut, policyLock, incident, fatal, budget>>

\* Mutant: the policy is recovered with the switch lock still held.
SwitchMeetsPolicyLocked(t) ==
  /\ At(t, "replace") /\ Open(task[t].next) /\ Outdated(task[t].next)
  /\ shut' = shut \union {task[t].next.id}
  /\ task' = Goto(t, [task[t] EXCEPT !.pc = "join", !.from = "switch"])
  /\ transitioning' = FALSE
  /\ UNCHANGED <<policy, transport, http, made, origin, locks, incident, fatal, budget>>

\* The HTTP transport is closed but stays _http_transport until it is discovered anew.
SwitchMeetsPolicy(t) ==
  /\ At(t, "replace") /\ Open(task[t].next) /\ Outdated(task[t].next)
  /\ shut' = shut \union {task[t].next.id}
  /\ task' = Goto(t, [task[t] EXCEPT !.pc = "join", !.from = "switch"])
  /\ switchLock' = NoTask /\ transitioning' = FALSE
  /\ UNCHANGED <<policy, transport, http, made, origin, policyLock, incident, fatal, budget>>

-----------------------------------------------------------------------------
(* _websocket_probe_loop *)

\* The probe announces itself before it waits for the switch lock.
ProbeStarts ==
  /\ At(Prober, "idle")
  /\ IF transport.kind = "pull"
       THEN /\ task' = Goto(Prober, [Idle EXCEPT !.pc = "probe", !.observed = revision])
            /\ transitioning' = TRUE
       ELSE task' = Goto(Prober, [Idle EXCEPT !.pc = "off"]) /\ UNCHANGED transitioning
  /\ UNCHANGED <<policy, link, locks, incident, fatal, budget>>

ProbeLocks ==
  /\ At(Prober, "probe") /\ switchLock = NoTask
  /\ IF transport.kind = "pull"
       THEN /\ switchLock' = Prober
            /\ task' = Goto(Prober, [task[Prober] EXCEPT !.pc = "test", !.used = transport,
                                                         !.next = Transport("ws", 0, origin)])
            /\ UNCHANGED transitioning
       ELSE /\ task' = Goto(Prober, [Idle EXCEPT !.pc = "off"])
            /\ transitioning' = FALSE /\ UNCHANGED switchLock
  /\ UNCHANGED <<policy, link, policyLock, incident, fatal, budget>>

ProbeSucceeds ==
  /\ At(Prober, "test") /\ ~Outdated(task[Prober].next)
  /\ transport' = [task[Prober].next EXCEPT !.id = made + 1]
  /\ made' = made + 1
  /\ task' = Goto(Prober, [Idle EXCEPT !.pc = "off"])
  /\ switchLock' = NoTask /\ transitioning' = FALSE
  /\ UNCHANGED <<policy, http, origin, shut, policyLock, incident, fatal, budget>>

\* The WebSocket is still unavailable: the transport it was to replace is attached again.
ProbeFails ==
  /\ At(Prober, "test") /\ Lose
  /\ task' = Goto(Prober, [task[Prober] EXCEPT !.pc = "restore"])
  /\ UNCHANGED <<policy, link, locks, transitioning, incident, fatal>>

ProbeRestores ==
  /\ At(Prober, "restore") /\ Open(transport) /\ ~Outdated(transport)
  /\ task' = Reattached(transport, Goto(Prober, Idle))
  /\ switchLock' = NoTask /\ transitioning' = FALSE
  /\ UNCHANGED <<policy, link, policyLock, incident, fatal, budget>>

\* The flag stays set while the probe recovers the policy.
ProbeMeetsPolicy ==
  /\ \/ At(Prober, "test") /\ Outdated(task[Prober].next)
     \/ At(Prober, "restore") /\ Open(transport) /\ Outdated(transport)
  /\ task' = Goto(Prober, [task[Prober] EXCEPT !.pc = "join", !.from = "probe"])
  /\ switchLock' = NoTask
  /\ UNCHANGED <<policy, link, policyLock, transitioning, incident, fatal, budget>>

-----------------------------------------------------------------------------
(* _recover_runtime_policy *)

\* Back from a rediscovery: an operation is tried once more, a switch is done, the probe
\* goes on while the transport is still long polling.
Returned(t, current) ==
  LET back == IF task[t].from = "operation"
                THEN IF t = Claimer
                       THEN [task[t] EXCEPT !.pc = "claim", !.second = TRUE]
                       ELSE [task[t] EXCEPT !.pc = "call", !.second = TRUE, !.used = current,
                                            !.stale = FALSE]
              ELSE IF task[t].from = "probe" /\ current.kind # "pull"
                THEN [Idle EXCEPT !.pc = "off"]
              ELSE Idle
  IN Goto(t, [back EXCEPT !.from = "none", !.next = NoTransport, !.before = NoTransport])

\* Or it raised.  In the mode "auto" the claim loop outlives a switch that failed.
Raised(t) ==
  CASE task[t].from = "operation" -> OperationRaises(t, task[t].used)
    [] task[t].from = "switch" /\ t = Claimer -> task' = Goto(t, Idle) /\ fatal' = fatal
    [] OTHER -> task' = Goto(t, Idle) /\ fatal' = "policy recovery failed"

\* The flag the probe leaves behind when its recovery is over.
ProbeEnds(t) == transitioning' = (transitioning /\ task[t].from # "probe")

\* Somebody else's rediscovery answers this signal, or its failure does.
JoinsIncident(t) ==
  /\ At(t, "join") /\ policyLock = NoTask
  /\ ProbeEnds(t)
  /\ \/ terminal # "none" /\ Raised(t)
     \/ terminal = "none" /\ task[t].observed # revision
        /\ task' = Returned(t, transport) /\ UNCHANGED fatal
  /\ UNCHANGED <<policy, link, locks, incident, budget>>

\* Mutant: the revision the signal was observed under is not compared.
RediscoveryStartsAlways(t) ==
  /\ At(t, "join") /\ policyLock = NoTask
  /\ terminal = "none"
  /\ policyLock' = t
  /\ revision' = revision + 1 /\ lastObserved' = task[t].observed
  /\ task' = Goto(t, [task[t] EXCEPT !.pc = "discover"])
  /\ UNCHANGED <<policy, link, switchLock, transitioning, terminal, fatal, budget>>

RediscoveryStarts(t) ==
  /\ At(t, "join") /\ policyLock = NoTask
  /\ terminal = "none" /\ task[t].observed = revision
  /\ policyLock' = t
  /\ revision' = revision + 1 /\ lastObserved' = task[t].observed
  /\ task' = Goto(t, [task[t] EXCEPT !.pc = "discover"])
  /\ UNCHANGED <<policy, link, switchLock, transitioning, terminal, fatal, budget>>

\* The manifest: a new HTTP transport takes the place of the old at once, and so does the
\* address the probe connects to, which nothing puts back.
Discovered(t) ==
  /\ At(t, "discover")
  /\ http' = Transport("pull", made + 1, policy)
  /\ made' = made + 1 /\ origin' = policy
  /\ task' = Goto(t, [task[t] EXCEPT !.pc = "connect", !.before = http])
  /\ UNCHANGED <<policy, transport, shut, locks, transitioning, incident, fatal, budget>>

\* A WebSocket, or long polling when it cannot be had; then the switch is announced.
Connected(t) ==
  /\ At(t, "connect")
  /\ \/ /\ ~Outdated(http)
        /\ task' = Goto(t, [task[t] EXCEPT !.pc = "turn",
                                           !.next = Transport("ws", made + 1, http.policy)])
        /\ made' = made + 1 /\ UNCHANGED budget
     \/ /\ Lose
        /\ task' = Goto(t, [task[t] EXCEPT !.pc = "turn", !.next = http])
        /\ UNCHANGED made
  /\ transitioning' = TRUE
  /\ UNCHANGED <<policy, transport, http, origin, shut, locks, incident, fatal>>

\* Mutant: a rediscovery switches without the switch lock.
RediscoveryLocksNothing(t) ==
  /\ At(t, "turn")
  /\ task' = Goto(t, [task[t] EXCEPT !.pc = "attach"])
  /\ UNCHANGED <<policy, link, locks, transitioning, incident, fatal, budget>>

RediscoveryLocks(t) ==
  /\ At(t, "turn") /\ switchLock = NoTask
  /\ switchLock' = t
  /\ task' = Goto(t, [task[t] EXCEPT !.pc = "attach"])
  /\ UNCHANGED <<policy, link, policyLock, transitioning, incident, fatal, budget>>

RediscoverySucceeds(t) ==
  /\ At(t, "attach") /\ Open(task[t].next) /\ ~Outdated(task[t].next)
  /\ transport' = task[t].next
  /\ task' = Goto(t, [task[t] EXCEPT !.pc = "retire"])
  /\ switchLock' = Unlocked(t) /\ transitioning' = FALSE
  /\ UNCHANGED <<policy, http, made, origin, shut, policyLock, incident, fatal, budget>>

\* The transports that were replaced are closed with the policy lock still held.
RediscoveryRetires(t) ==
  /\ At(t, "retire")
  /\ ProbeEnds(t)
  /\ task' = Probing(Returned(t, transport), transport)
  /\ shut' = shut \union {task[t].before.id}
  /\ policyLock' = NoTask
  /\ UNCHANGED <<policy, transport, http, made, origin, switchLock, incident, fatal, budget>>

\* What a rediscovery that does not get its transports attached leaves: it closes them and
\* puts back the HTTP transport it took out.
PutsBack(t) ==
  IF task[t].pc \in {"connect", "turn", "attach"}
    THEN http' = task[t].before /\ shut' = shut \union {http.id, task[t].next.id}
    ELSE UNCHANGED <<http, shut>>

\* Discovery failed, Core signalled once more, or a transport that was replaced cannot be
\* closed: the error ends every later operation.
RediscoveryFails(t) ==
  /\ \/ At(t, "discover") /\ Lose
     \/ At(t, "retire") /\ Lose
     \/ At(t, "connect") /\ Outdated(http) /\ UNCHANGED budget
     \/ At(t, "attach") /\ Open(task[t].next) /\ Outdated(task[t].next) /\ UNCHANGED budget
  /\ PutsBack(t)
  /\ terminal' = "failed"
  /\ policyLock' = NoTask /\ switchLock' = Unlocked(t)
  /\ transitioning' =
       (transitioning /\ task[t].pc \in {"discover", "retire"} /\ task[t].from # "probe")
  /\ Raised(t)
  /\ UNCHANGED <<policy, transport, made, origin, revision, lastObserved>>

\* _fail_runtime_policy_recovery.
SignalPersists(t) ==
  /\ At(t, "persist") /\ policyLock = NoTask
  /\ terminal' = IF terminal = "none" THEN "persisted" ELSE terminal
  /\ UNCHANGED <<policy, link, locks, transitioning, revision, lastObserved, budget>>
  /\ OperationRaises(t, task[t].used)

-----------------------------------------------------------------------------
(* Cancellation, and Core *)

\* Mutant: a cancelled rediscovery keeps the policy lock.
RenewalCancelledLocked(t) ==
  /\ t \in Cancelable /\ Up /\ task[t].pc # "idle" /\ budget.cancels > 0
  /\ budget' = [budget EXCEPT !.cancels = @ - 1]
  /\ transitioning' = (transitioning /\ task[t].pc \notin {"replace", "connect", "turn", "attach"})
  /\ switchLock' = Unlocked(t)
  /\ task' = Goto(t, Idle)
  /\ UNCHANGED <<policy, link, policyLock, incident, fatal>>

\* Mutant: the flag is reset after an Exception only, and a cancellation is none.
RenewalCancelledFlagged(t) ==
  /\ t \in Cancelable /\ Up /\ task[t].pc # "idle" /\ budget.cancels > 0
  /\ budget' = [budget EXCEPT !.cancels = @ - 1]
  /\ PutsBack(t)
  /\ policyLock' = IF policyLock = t THEN NoTask ELSE policyLock
  /\ switchLock' = Unlocked(t)
  /\ task' = Goto(t, Idle)
  /\ UNCHANGED <<policy, transport, made, origin, transitioning, incident, fatal>>

\* The attempt of a renewal ends: its task is cancelled wherever it waits, and gives back
\* what it holds.  A rediscovery it was doing leaves its revision behind.
RenewalCancelled(t) ==
  /\ t \in Cancelable /\ Up /\ task[t].pc # "idle" /\ budget.cancels > 0
  /\ budget' = [budget EXCEPT !.cancels = @ - 1]
  /\ PutsBack(t)
  /\ transitioning' = (transitioning /\ task[t].pc \notin {"replace", "connect", "turn", "attach"})
  /\ policyLock' = IF policyLock = t THEN NoTask ELSE policyLock
  /\ switchLock' = Unlocked(t)
  /\ task' = Goto(t, Idle)
  /\ UNCHANGED <<policy, transport, made, origin, incident, fatal>>

CoreChangesPolicy ==
  /\ Up /\ policy < MaxPolicy
  /\ policy' = policy + 1
  /\ UNCHANGED <<link, locks, transitioning, incident, task, fatal, budget>>

-----------------------------------------------------------------------------
WaitsPolicyLock(t) == JoinsIncident(t) \/ RediscoveryStarts(t) \/ SignalPersists(t)

WaitsSwitchLock(t) ==
  \/ t = Claimer /\ ClaimLocks
  \/ t = Prober /\ ProbeLocks
  \/ SwitchLocks(t) \/ RediscoveryLocks(t)

Answered(t) ==
  \/ CallSucceeds(t) \/ CallMeetsPolicy(t) \/ CallIsStale(t)
  \/ ~Open(task[t].used) /\ CallFails(t)
  \/ SwitchSucceeds(t) \/ SwitchMeetsPolicy(t)
  \/ Discovered(t) \/ Connected(t) \/ RediscoverySucceeds(t) \/ RediscoveryRetires(t)
  \/ RediscoveryFails(t)
  \/ t = Prober /\ (ProbeSucceeds \/ ProbeRestores \/ ProbeMeetsPolicy)

Next ==
  \/ \E t \in Tasks :
       \/ OperationWaits(t) \/ OperationStarts(t)
       \/ WaitsPolicyLock(t) \/ WaitsSwitchLock(t) \/ Answered(t)
       \/ CallFails(t) \/ RenewalCancelled(t)
  \/ ProbeStarts \/ ProbeFails \/ CoreChangesPolicy

Spec == Init /\ [][Next]_vars

\* asyncio.Lock hands itself on in the order of the waiters, so a loop that waits for a
\* lock that is given back again and again gets it; Core or the client's timeout answers
\* every call; a loop that is idle goes round.
FairSpec ==
  /\ Spec
  /\ \A t \in Tasks :
       /\ SF_vars(OperationStarts(t) \/ WaitsPolicyLock(t) \/ WaitsSwitchLock(t))
       /\ WF_vars(Answered(t))

-----------------------------------------------------------------------------
(* Properties *)

Versions == 0 .. MaxPolicy

TypeOK ==
  /\ policy \in Versions
  /\ transport.kind \in {"ws", "pull"} /\ http.kind = "pull" /\ origin \in 0 .. policy
  /\ {transport.id, http.id} \subseteq 1 .. made
  /\ policyLock \in Tasks \union {NoTask} /\ switchLock \in Tasks \union {NoTask}
  /\ transitioning \in BOOLEAN
  /\ terminal \in {"none", "failed", "persisted"}
  /\ \A t \in Tasks : policyLock = t <=> task[t].pc \in {"discover", "connect", "turn", "attach", "retire"}

\* A claim is answered by the transport in use, attached as it was when the claim left: no
\* switch, probe or rediscovery comes between, and no assignment is offered to a
\* transport the worker has left (the reason for _claim_switch_lock).
ClaimsOnCurrent ==
  At(Claimer, "call") => task[Claimer].used = transport /\ ~task[Claimer].stale

\* The flag that makes every loop stand still is never left behind by a switch that
\* succeeded, failed, was not needed any more or was cancelled.
FlagHasOwner ==
  transitioning /\ Up =>
    \E t \in Tasks : task[t].pc \in {"replace", "connect", "turn", "attach", "probe", "test", "restore"}
                     \/ task[t].from = "probe"

\* "Operations already in flight [...] join the same single-flight incident"
\* (_policy_operation): the signal of an operation starts a rediscovery only while the
\* transport in use is one Core no longer accepts, whatever was switched meanwhile; or
\* while the rediscovery before it was abandoned halfway, with its renewal cancelled.
Abandoned == http.policy < origin

RediscoversOnlyOutdated ==
  [][\A t \in Tasks : task[t].from = "operation" /\ policyLock # t /\ policyLock' = t
                        => Outdated(transport) \/ Abandoned]_vars

Waiting == {"gate", "join", "persist", "claim", "switch", "turn", "probe"}

\* A loop attaches, again and again, a transport that was closed under its hands.
AttachesClosed ==
  \E t \in Tasks : \/ task[t].pc \in {"replace", "attach"} /\ ~Open(task[t].next)
                   \/ task[t].pc = "restore" /\ ~Open(transport)

\* The two locks never hold everybody up: whoever waits for one of them gets on, unless
\* some loop attaches a closed transport for ever (see SwitchEnds).
Unblocked ==
  \A t \in Tasks :
    Up /\ task[t].pc \in Waiting ~> (~Up \/ task[t].pc \notin Waiting \/ []AttachesClosed)

\* An incident that could not be recovered ends the worker: it does not go on with a
\* policy that failed.  The same loop without an end is excepted.
TerminalEndsWorker == terminal # "none" ~> (~Up \/ []AttachesClosed)

\* "WebSocket, long-poll and automatic transport recovery" (PARITY.md:31): a switch to
\* long polling comes to an end.  It does not when a loop that waited for the switch lock
\* attaches the HTTP transport that the switch before it closed: the policy signal that
\* ended that one has not been answered by a rediscovery yet.
SwitchEnds == \A t \in Tasks : At(t, "replace") ~> ~At(t, "replace")
=============================================================================
