----------------------- MODULE TransportRecoveryProofs -----------------------
(***************************************************************************)
(* Proofs about TransportRecovery, for every set of loops and every bound  *)
(* on the policies, failures and cancellations.                            *)
(***************************************************************************)
EXTENDS TransportRecovery, TLAPS

Transports == [kind : {"none", "ws", "pull"}, id : Nat, policy : Nat]
Rediscovering == {"discover", "connect", "turn", "attach", "retire"}
Switching == {"replace", "test", "restore", "attach"}
Owning == {"replace", "connect", "turn", "attach", "probe", "test", "restore"}
Labels == {"idle", "off", "gate", "claim", "call", "switch", "join", "persist", "discover",
           "replace", "connect", "turn", "attach", "retire", "probe", "test", "restore"}
TaskRecords ==
  [pc : Labels, second : BOOLEAN, observed : Nat, used : Transports, stale : BOOLEAN,
   from : {"none", "operation", "switch", "probe"}, next : Transports, before : Transports]
Budgets == [losses : Nat, cancels : Nat]

Real(x, kinds) == x.kind \in kinds /\ x.id \in 1..made /\ x.policy <= policy

Types ==
  /\ policy \in 0..MaxPolicy /\ made \in Nat /\ origin \in 0..policy
  /\ transport \in Transports /\ http \in Transports
  /\ policyLock \in Tasks \union {NoTask} /\ switchLock \in Tasks \union {NoTask}
  /\ transitioning \in BOOLEAN
  /\ revision \in Nat
  /\ terminal \in {"none", "failed", "persisted"}
  /\ task \in [Tasks -> TaskRecords]
  /\ budget \in Budgets

\* The transports in use are real, and so are those a switch or a rediscovery keeps for
\* later; none was discovered after the address in use.
Keeps(r) ==
  /\ r.pc \in {"replace", "test"} => r.next.policy <= origin
  /\ r.pc = "replace" => Real(r.next, {"pull"})
  /\ r.pc = "test" => r.next.kind = "ws"
  /\ r.pc \in {"connect", "turn", "attach"} => Real(r.before, {"pull"}) /\ r.before.policy <= origin
  /\ r.pc \in {"turn", "attach"} => Real(r.next, {"ws", "pull"}) /\ r.next.policy = http.policy

Transported ==
  /\ Real(transport, {"ws", "pull"}) /\ Real(http, {"pull"}) /\ http.policy <= origin
  /\ \A t \in Tasks : Keeps(task[t])

\* Each lock and the places in which it is held.
SwitchesAt(t, pc) == pc \in Switching \/ (t = Claimer /\ pc = "call")

Locked ==
  \A t \in Tasks :
    /\ policyLock = t <=> task[t].pc \in Rediscovering
    /\ switchLock = t <=> SwitchesAt(t, task[t].pc)

\* Who may be where, and what it was doing when it came to a rediscovery.
PlaceOf(t, r) ==
  /\ r.pc \in {"join", "persist"} \union Rediscovering <=> r.from # "none"
  /\ r.pc = "persist" => r.from = "operation"
  /\ r.from = "probe" \/ r.pc \in {"probe", "test", "restore"} => t = Prober
  /\ t = Prober => /\ r.pc \notin {"gate", "claim", "call", "switch", "replace", "persist"}
                   /\ r.from # "operation"

Places == \A t \in Tasks : PlaceOf(t, task[t])

\* A signal that was observed under the present revision was met on a transport
\* no older than the one in use, unless a rediscovery was abandoned; nobody has observed a rediscovery in progress.
Operating(r) ==
  r.pc \in {"claim", "call"} \/ (r.pc = "join" /\ r.from = "operation")

SignalOf(r) ==
  /\ r.observed <= revision
  /\ Operating(r) /\ policyLock # NoTask => r.observed < revision
  /\ Operating(r) /\ r.pc # "claim" /\ terminal = "none" /\ policyLock = NoTask
       /\ r.observed = revision => transport.policy <= r.used.policy \/ Abandoned
  /\ r.pc = "join" /\ r.from = "operation" => Outdated(r.used)

Signals == \A t \in Tasks : SignalOf(task[t])

\* Until a rediscovery has replaced it, the HTTP transport is no newer than the
\* transport in use; then that holds of the one that was taken out.
Older(r) ==
  r.pc \in {"connect", "turn", "attach"} =>
    r.before.policy <= transport.policy /\ r.before.policy <= http.policy

Policies ==
  terminal = "none" =>
    /\ (\A t \in Tasks : task[t].pc \notin {"connect", "turn", "attach"})
         => http.policy <= transport.policy
    /\ \A t \in Tasks : Older(task[t])

IInv ==
  /\ Types /\ Transported /\ Locked /\ Places /\ Signals /\ Policies
  /\ ClaimsOnCurrent /\ FlagHasOwner

-----------------------------------------------------------------------------
(* What the actions have in common *)

held == <<transport, http, made, origin>>

LEMMA TaskFacts ==
  /\ NoTask \notin Tasks /\ Claimer \in Tasks /\ Prober \in Tasks /\ Claimer # Prober
  /\ Prober \notin Loops /\ Claimer \notin Loops
  /\ \A t \in Cancelable : t \in Tasks /\ t # Prober /\ t # Claimer
BY TasksAssumption DEF Tasks

LEMMA IdleFacts ==
  /\ NoTransport \in Transports /\ Idle \in TaskRecords
  /\ Idle.pc = "idle" /\ Idle.from = "none" /\ Idle.observed = 0
  /\ Idle.next = NoTransport /\ Idle.before = NoTransport /\ Idle.used = NoTransport
  /\ NoTransport.policy = 0
BY DEF Idle, NoTransport, Transport, Transports, TaskRecords, Labels

\* What a step of one task does to the others: a transport they use is attached
\* again, or the probe is started.
Left(u) ==
  \/ /\ task'[u].pc = task[u].pc /\ task'[u].observed = task[u].observed
     /\ task'[u].used = task[u].used /\ task'[u].from = task[u].from
     /\ task'[u].next = task[u].next /\ task'[u].before = task[u].before
  \/ u = Prober /\ task[u].pc = "off" /\ task'[u] = Idle

LEMMA LockedKept ==
  ASSUME IInv, NEW t \in Tasks, \A u \in Tasks \ {t} : Left(u),
         policyLock' = t <=> task'[t].pc \in Rediscovering,
         switchLock' = t <=> SwitchesAt(t, task'[t].pc),
         \A u \in Tasks \ {t} : (policyLock' = u <=> policyLock = u)
                                /\ (switchLock' = u <=> switchLock = u)
  PROVE  Locked'
BY IdleFacts DEF IInv, Locked, Left, SwitchesAt, Rediscovering, Switching

LEMMA PlacesKept ==
  ASSUME IInv, NEW t \in Tasks, \A u \in Tasks \ {t} : Left(u), PlaceOf(t, task'[t])
  PROVE  Places'
BY IdleFacts DEF IInv, Places, PlaceOf, Left, Rediscovering

LEMMA TransportedKept ==
  ASSUME IInv, NEW t \in Tasks, \A u \in Tasks \ {t} : Left(u), Keeps(task[t])',
         Real(transport, {"ws", "pull"})', Real(http, {"pull"})',
         made' \in Nat, made' >= made, policy' \in Nat, policy' >= policy,
         origin' \in Nat, origin' >= origin, http'.policy <= origin',
         http' = http \/ \A u \in Tasks \ {t} : task[u].pc \notin {"connect", "turn", "attach"}
  PROVE  Transported'
<1> SUFFICES ASSUME NEW u \in Tasks \ {t}
             PROVE  Keeps(task[u])'
  BY DEF Transported
<1>1. Keeps(task[u]) /\ made \in Nat /\ policy \in Nat /\ origin \in Nat /\ task[u] \in TaskRecords
  BY DEF IInv, Types, Transported
<1>2. task[u].before.policy \in Nat /\ task[u].next.policy \in Nat
  BY <1>1 DEF TaskRecords, Transports
<1>3. CASE u = Prober /\ task'[u] = Idle
  BY <1>3, IdleFacts DEF Keeps
<1>4. CASE ~(u = Prober /\ task'[u] = Idle)
  <2>1. /\ task'[u].pc = task[u].pc /\ task'[u].next = task[u].next
        /\ task'[u].before = task[u].before
    BY <1>4 DEF Left
  <2> QED
    BY <1>1, <1>2, <2>1 DEF Keeps, Real
<1> QED
  BY <1>3, <1>4

LEMMA SignalsKept ==
  ASSUME IInv, NEW t \in Tasks, \A u \in Tasks \ {t} : Left(u), SignalOf(task[t])',
         policy' \in Nat, policy' >= policy,
         \/ /\ revision' = revision
            /\ policyLock' # NoTask => policyLock # NoTask
            /\ terminal' = "none" => terminal = "none"
            /\ terminal' = "none" /\ policyLock' = NoTask /\ policyLock # NoTask
                 => \A u \in Tasks \ {t} : Operating(task[u]) => task[u].observed < revision
            /\ terminal' = "none" /\ policyLock' = NoTask /\ policyLock = NoTask
                 => /\ transport'.policy \in Nat /\ (Abandoned => Abandoned')
                    /\ transport'.policy <= transport.policy \/ Abandoned'
         \/ revision' = revision + 1 /\ policyLock' # NoTask
  PROVE  Signals'
<1> SUFFICES ASSUME NEW u \in Tasks \ {t}
             PROVE  SignalOf(task[u])'
  BY DEF Signals
<1>1. /\ SignalOf(task[u]) /\ revision \in Nat /\ policy \in Nat /\ task[u] \in TaskRecords
      /\ transport.policy \in Nat
  BY DEF IInv, Types, Signals, Transports
<1>2. task[u].observed \in Nat /\ task[u].used.policy \in Nat
  BY <1>1 DEF TaskRecords, Transports
<1>3. CASE u = Prober /\ task'[u] = Idle
  BY <1>1, <1>3, IdleFacts DEF SignalOf, Operating
<1>4. CASE ~(u = Prober /\ task'[u] = Idle)
  <2>1. /\ task'[u].pc = task[u].pc /\ task'[u].observed = task[u].observed
        /\ task'[u].used = task[u].used /\ task'[u].from = task[u].from
    BY <1>4 DEF Left
  <2>2. Operating(task[u])' <=> Operating(task[u])
    BY <2>1 DEF Operating
  <2>3. Outdated(task[u].used) => Outdated(task[u].used)'
    BY <1>1, <1>2, <2>1 DEF Outdated
  <2> HIDE DEF Operating
  <2>4. CASE revision' = revision + 1 /\ policyLock' # NoTask
    BY <1>1, <1>2, <2>1, <2>2, <2>3, <2>4 DEF SignalOf
  <2>5. CASE ~(revision' = revision + 1 /\ policyLock' # NoTask)
    BY <1>1, <1>2, <2>1, <2>2, <2>3, <2>5 DEF SignalOf
  <2> QED
    BY <2>4, <2>5
<1> QED
  BY <1>3, <1>4

LEMMA PoliciesKept ==
  ASSUME IInv, NEW t \in Tasks, \A u \in Tasks \ {t} : Left(u),
         terminal' = "none" => terminal = "none",
         terminal' = "none" => Older(task[t])',
         \/ http' = http /\ transport' \in {transport, http}
         \/ policyLock = t,
         policyLock = t /\ terminal' = "none" /\ task'[t].pc \notin {"connect", "turn", "attach"}
           => http'.policy <= transport'.policy,
         policyLock # t => task'[t].pc \notin {"connect", "turn", "attach"}
  PROVE  Policies'
<1> SUFFICES ASSUME terminal' = "none"
             PROVE  Policies'
  BY DEF Policies
<1>1. /\ terminal = "none" /\ Locked /\ Places /\ Policies
      /\ http.policy \in Nat /\ transport.policy \in Nat
  BY DEF IInv, Types, Transports
<1>2. ASSUME NEW u \in Tasks \ {t}
      PROVE  task'[u].pc \in {"connect", "turn", "attach"}
                <=> task[u].pc \in {"connect", "turn", "attach"}
  BY <1>2, IdleFacts DEF Left
<1>3. CASE policyLock = t
  <2>1. \A u \in Tasks \ {t} : task[u].pc \notin {"connect", "turn", "attach"}
    BY <1>1, <1>3 DEF Locked, Rediscovering
  <2> QED
    BY <1>2, <1>3, <2>1 DEF Policies, Older
<1>4. CASE policyLock # t
  <2>1. http' = http /\ transport' \in {transport, http}
    BY <1>4
  <2>2. task[t].pc \notin {"connect", "turn", "attach"}
    BY <1>1, <1>4 DEF Locked, Rediscovering
  <2>3. ASSUME NEW u \in Tasks \ {t}
        PROVE  Older(task[u])'
    BY <1>1, <1>2, <2>1, <2>3, IdleFacts DEF Policies, Older, Left
  <2>4. (\A u \in Tasks : task'[u].pc \notin {"connect", "turn", "attach"})
          => http'.policy <= transport'.policy
    BY <1>1, <1>2, <2>1, <2>2 DEF Policies
  <2> QED
    BY <2>3, <2>4 DEF Policies
<1> QED
  BY <1>3, <1>4

\* The claim in flight is not disturbed without the switch lock.
LEMMA ClaimsKept ==
  ASSUME IInv, NEW t \in Tasks,
         t = Claimer /\ task'[t].pc = "call" => task'[t].used = transport' /\ ~task'[t].stale,
         fatal = "none",
         t # Claimer => \/ switchLock = t /\ task'[Claimer].pc = task[Claimer].pc
                        \/ transport' = transport /\ task'[Claimer] = task[Claimer]
  PROVE  ClaimsOnCurrent'
BY TaskFacts, IdleFacts DEF IInv, ClaimsOnCurrent, Locked, SwitchesAt, Switching, At, Up

\* The flag outlives a step of a task only with another owner, or when the task
\* owns it now.
Owns(r) == r.pc \in Owning \/ r.from = "probe"

LEMMA FlagKept ==
  ASSUME IInv, NEW t \in Tasks, \A u \in Tasks \ {t} : Left(u), fatal = "none",
         transitioning' => Owns(task'[t]) \/ (transitioning /\ ~Owns(task[t]))
  PROVE  FlagHasOwner'
<1> SUFFICES ASSUME transitioning', Up'
             PROVE  \E u \in Tasks : Owns(task'[u])
  BY DEF FlagHasOwner, Owns, Owning
<1>1. CASE Owns(task'[t])
  BY <1>1
<1>2. CASE ~Owns(task'[t])
  <2>1. PICK u \in Tasks : Owns(task[u])
    BY <1>2 DEF IInv, FlagHasOwner, Owns, Owning, Up
  <2>2. u # t
    BY <1>2, <2>1
  <2>3. Owns(task'[u])
    <3>1. PlaceOf(u, task[u])
      BY DEF IInv, Places
    <3> QED
      BY <2>1, <2>2, <3>1 DEF Left, Owns, Owning, PlaceOf, Rediscovering
  <2> QED
    BY <2>3
<1> QED
  BY <1>1, <1>2

-----------------------------------------------------------------------------
(* Steps of one task outside a rediscovery that change no transport *)

\* The switch lock goes with the task from where it is to where it goes.
Switches(t, r) ==
  /\ switchLock' = IF SwitchesAt(t, r.pc) THEN t
                   ELSE IF switchLock = t THEN NoTask ELSE switchLock
  /\ SwitchesAt(t, r.pc) => switchLock \in {t, NoTask}

LEMMA SwitchesKept ==
  ASSUME IInv, NEW t \in Tasks, Switches(t, task'[t])
  PROVE  /\ switchLock' \in Tasks \union {NoTask}
         /\ switchLock' = t <=> SwitchesAt(t, task'[t].pc)
         /\ \A u \in Tasks \ {t} : switchLock' = u <=> switchLock = u
<1>1. switchLock \in Tasks \union {NoTask}
  BY DEF IInv, Types
<1> QED
  BY <1>1, TaskFacts DEF Switches

LEMMA MoveKeeps ==
  ASSUME IInv, NEW t \in Tasks, NEW r \in TaskRecords, task' = Goto(t, r), fatal = "none",
         UNCHANGED <<policy, held, policyLock, revision>>,
         task[t].pc \notin Rediscovering, r.pc \notin Rediscovering,
         r.pc \in {"replace", "test"} => Keeps(r),
         Switches(t, r), PlaceOf(t, r), r.observed <= revision,
         Operating(r) => /\ policyLock # NoTask => r.observed < revision
                         /\ r.observed = revision /\ r.pc # "claim" /\ terminal' = "none"
                              => transport.policy <= r.used.policy \/ Abandoned,
         r.pc = "join" /\ r.from = "operation" => Outdated(r.used),
         terminal' \in {"none", "failed", "persisted"}, terminal' = "none" => terminal = "none",
         transitioning' \in BOOLEAN, budget' \in Budgets,
         transitioning' => Owns(r) \/ (transitioning /\ ~Owns(task[t])),
         t = Claimer /\ r.pc = "call" => r.used = transport /\ ~r.stale
  PROVE  IInv'
<1>1. /\ task \in [Tasks -> TaskRecords] /\ task' = [task EXCEPT ![t] = r]
      /\ task'[t] = r /\ \A u \in Tasks \ {t} : task'[u] = task[u]
  BY DEF IInv, Types, Goto
<1>2. \A u \in Tasks \ {t} : Left(u)
  BY <1>1 DEF Left
<1>3. /\ transport' = transport /\ http' = http /\ made' = made /\ policy' = policy
      /\ origin' = origin
      /\ revision' = revision /\ policyLock' = policyLock
  BY DEF held
<1>4. /\ policy \in Nat /\ made \in Nat /\ transport.policy \in Nat /\ http.policy \in Nat
      /\ policy \in 0..MaxPolicy /\ origin \in Nat
  BY TasksAssumption DEF IInv, Types, Transports
<1>5. /\ switchLock' \in Tasks \union {NoTask}
      /\ switchLock' = t <=> SwitchesAt(t, task'[t].pc)
      /\ \A u \in Tasks \ {t} : switchLock' = u <=> switchLock = u
  BY <1>1, SwitchesKept
<1>6. policyLock # t
  BY DEF IInv, Locked
<1>7. Types'
  BY <1>1, <1>3, <1>5 DEF IInv, Types
<1>8. Locked'
  BY <1>1, <1>2, <1>3, <1>5, <1>6, LockedKept
<1>9. Places'
  BY <1>1, <1>2, PlacesKept
<1>10. Transported'
  <2>1. Keeps(task[t])'
    BY <1>1, <1>3 DEF Keeps, Rediscovering, Real
  <2>2. Real(transport, {"ws", "pull"})' /\ Real(http, {"pull"})' /\ http.policy <= origin
    BY <1>3 DEF IInv, Transported, Real
  <2> QED
    BY <1>2, <1>3, <1>4, <2>1, <2>2, TransportedKept
<1>11. Signals'
  <2>1. SignalOf(task[t])'
    BY <1>1, <1>3 DEF SignalOf, Operating, Outdated, Abandoned
  <2>2. transport'.policy <= transport.policy /\ policy' >= policy /\ (Abandoned => Abandoned')
    BY <1>3, <1>4 DEF Abandoned
  <2> QED
    BY <1>2, <1>3, <1>4, <2>1, <2>2, SignalsKept
<1>12. Policies'
  <2>1. Older(task[t])'
    BY <1>1 DEF Older, Rediscovering
  <2>2. task'[t].pc \notin {"connect", "turn", "attach"}
    BY <1>1 DEF Rediscovering
  <2> QED
    BY <1>2, <1>3, <1>6, <2>1, <2>2, PoliciesKept
<1>13. ClaimsOnCurrent'
  BY <1>1, <1>3, ClaimsKept, TaskFacts
<1>14. FlagHasOwner'
  BY <1>1, <1>2, FlagKept
<1> QED
  BY <1>7, <1>8, <1>9, <1>10, <1>11, <1>12, <1>13, <1>14 DEF IInv

-----------------------------------------------------------------------------
(* An operation *)

\* The record of a task, one field or several changed.
LEMMA RecordTypes ==
  ASSUME IInv, NEW t \in Tasks, NEW label \in Labels,
         NEW from \in {"none", "operation", "switch", "probe"}
  PROVE  /\ task[t] \in TaskRecords /\ task[t].observed \in Nat /\ task[t].used \in Transports
         /\ [task[t] EXCEPT !.pc = label] \in TaskRecords
         /\ [task[t] EXCEPT !.pc = label, !.from = from] \in TaskRecords
         /\ [task[t] EXCEPT !.pc = label, !.used = transport, !.stale = FALSE] \in TaskRecords
         /\ [task[t] EXCEPT !.pc = label, !.used = transport] \in TaskRecords
         /\ [Idle EXCEPT !.pc = label] \in TaskRecords
         /\ [Idle EXCEPT !.pc = label, !.used = transport] \in TaskRecords
         /\ [Idle EXCEPT !.pc = label, !.observed = revision] \in TaskRecords
         /\ [Idle EXCEPT !.pc = label, !.used = task[t].used, !.observed = revision] \in TaskRecords
<1>1. task[t] \in TaskRecords /\ transport \in Transports /\ revision \in Nat
  BY DEF IInv, Types
<1>2. Idle \in TaskRecords
  BY IdleFacts
<1> QED
  BY <1>1, <1>2 DEF TaskRecords

LEMMA Naturals ==
  ASSUME IInv
  PROVE  /\ revision \in Nat /\ policy \in Nat /\ made \in Nat /\ origin \in Nat /\ transport \in Transports
         /\ transport.policy \in Nat /\ http.policy \in Nat
         /\ budget \in Budgets /\ transitioning \in BOOLEAN
         /\ terminal \in {"none", "failed", "persisted"}
BY TasksAssumption DEF IInv, Types, Transports

LEMMA LoseTypes ==
  ASSUME IInv, Lose
  PROVE  budget' \in Budgets
BY DEF IInv, Types, Lose, Budgets

\* The task is back in its loop, and gives up the switch lock if it has it.
LEMMA EndKeeps ==
  ASSUME IInv, NEW t \in Tasks, task' = Goto(t, Idle), fatal = "none",
         task[t].pc \notin Rediscovering,
         UNCHANGED <<policy, held, policyLock, revision>>,
         switchLock' = Unlocked(t),
         terminal' \in {"none", "failed", "persisted"}, terminal' = "none" => terminal = "none",
         transitioning' \in BOOLEAN, budget' \in Budgets,
         transitioning' => transitioning /\ ~Owns(task[t])
  PROVE  IInv'
<1>1. /\ Idle \in TaskRecords /\ Idle.pc \notin Rediscovering /\ ~Operating(Idle)
      /\ PlaceOf(t, Idle) /\ ~SwitchesAt(t, Idle.pc) /\ Idle.pc = "idle"
      /\ Idle.observed = 0
  BY IdleFacts DEF PlaceOf, Operating, SwitchesAt, Switching, Rediscovering
<1>2. Switches(t, Idle)
  BY <1>1 DEF Switches, Unlocked
<1>3. Idle.observed <= revision
  BY <1>1, Naturals
<1> QED
  BY <1>1, <1>2, <1>3, MoveKeeps

LEMMA OperationWaitsKeeps ==
  ASSUME IInv, NEW t \in Tasks, OperationWaits(t)
  PROVE  IInv'
<1> DEFINE r == [Idle EXCEPT !.pc = "gate", !.used = transport]
<1>1. /\ task[t].pc = "idle" /\ t # Prober /\ fatal = "none" /\ ~transitioning
      /\ task' = Goto(t, r)
      /\ UNCHANGED <<policy, held, policyLock, switchLock, revision, terminal, transitioning, budget>>
  BY DEF OperationWaits, At, Up, locks, incident, link, held
<1>2. r \in TaskRecords
  BY RecordTypes DEF Labels
<1>3. r.pc = "gate" /\ r.from = "none" /\ r.observed = 0
  BY IdleFacts DEF Idle
<1> HIDE DEF r
<1>4. /\ PlaceOf(t, r) /\ ~Operating(r) /\ r.pc \notin Rediscovering /\ ~SwitchesAt(t, r.pc)
      /\ task[t].pc \notin Rediscovering /\ ~SwitchesAt(t, task[t].pc) /\ r.pc # "join" /\ r.pc # "call"
  BY <1>1, <1>3 DEF PlaceOf, Operating, SwitchesAt, Switching, Rediscovering
<1>5. switchLock # t
  BY <1>4 DEF IInv, Locked
<1>6. Switches(t, r)
  BY <1>1, <1>4, <1>5 DEF Switches
<1>7. r.observed <= revision
  BY <1>3, Naturals
<1> QED
  BY <1>1, <1>2, <1>3, <1>4, <1>6, <1>7, Naturals, MoveKeeps

LEMMA OperationStartsKeeps ==
  ASSUME IInv, NEW t \in Tasks, OperationStarts(t)
  PROVE  IInv'
<1>1. /\ task[t].pc \in {"gate", "idle"} /\ t # Prober /\ fatal = "none" /\ policyLock = NoTask
      /\ UNCHANGED <<policy, held, policyLock, switchLock, revision, terminal, transitioning, budget>>
  BY DEF OperationStarts, At, Up, locks, incident, IInv, Places, PlaceOf, link, held
<1>2. /\ task[t].pc \notin Rediscovering /\ switchLock # t /\ ~Owns(task[t])
  BY <1>1 DEF IInv, Locked, SwitchesAt, Switching, Rediscovering, Owns, Owning, Places, PlaceOf
<1>3. CASE terminal # "none"
  <2>1. task' = Goto(t, Idle)
    BY <1>3 DEF OperationStarts, OperationRaises
  <2> QED
    BY <1>1, <1>2, <2>1, Naturals, EndKeeps DEF Unlocked
<1>4. CASE terminal = "none"
  <2> DEFINE state == [Idle EXCEPT !.observed = revision]
             r == Calling(t, state)
  <2>1. task' = Goto(t, r)
    BY <1>4 DEF OperationStarts
  <2>2. CASE t = Claimer
    <3>1. r = [Idle EXCEPT !.pc = "claim", !.observed = revision]
      BY <2>2 DEF Calling, Idle
    <3>2. r \in TaskRecords /\ r.pc = "claim" /\ r.from = "none" /\ r.observed = revision
      BY <3>1, RecordTypes DEF Labels, Idle
    <3> HIDE DEF r
    <3>3. /\ PlaceOf(t, r) /\ r.pc \notin Rediscovering /\ ~SwitchesAt(t, r.pc)
          /\ r.pc # "join" /\ r.pc # "call"
      BY <1>1, <3>2 DEF PlaceOf, SwitchesAt, Switching, Rediscovering
    <3>4. Switches(t, r) /\ r.observed <= revision
      BY <1>1, <1>2, <3>2, <3>3, Naturals DEF Switches
    <3> QED
      BY <1>1, <1>2, <2>1, <3>2, <3>3, <3>4, Naturals, MoveKeeps
  <2>3. CASE t # Claimer
    <3>1. r = [[Idle EXCEPT !.pc = "call", !.observed = revision]
                 EXCEPT !.used = transport, !.stale = FALSE]
      BY <2>3 DEF Calling, Idle
    <3>2. [Idle EXCEPT !.pc = "call", !.observed = revision] \in TaskRecords
      BY RecordTypes DEF Labels
    <3>3. /\ r \in TaskRecords /\ r.pc = "call" /\ r.from = "none" /\ r.observed = revision
          /\ r.used = transport
      BY <3>1, <3>2, Naturals DEF TaskRecords, Idle
    <3> HIDE DEF r
    <3>4. /\ PlaceOf(t, r) /\ r.pc \notin Rediscovering /\ ~SwitchesAt(t, r.pc)
          /\ r.pc # "join"
      BY <1>1, <2>3, <3>3 DEF PlaceOf, SwitchesAt, Switching, Rediscovering
    <3>5. Switches(t, r) /\ r.observed <= revision /\ transport.policy <= r.used.policy
      BY <1>1, <1>2, <3>3, <3>4, Naturals DEF Switches
    <3> QED
      BY <1>1, <1>2, <2>1, <2>3, <3>3, <3>4, <3>5, Naturals, MoveKeeps
  <2> QED
    BY <2>2, <2>3
<1> QED
  BY <1>3, <1>4

LEMMA ClaimLocksKeeps ==
  ASSUME IInv, ClaimLocks
  PROVE  IInv'
<1> DEFINE r == [task[Claimer] EXCEPT !.pc = "call", !.used = transport, !.stale = FALSE]
<1>1. /\ task[Claimer].pc = "claim" /\ fatal = "none" /\ switchLock = NoTask /\ switchLock' = Claimer
      /\ task' = Goto(Claimer, r)
      /\ UNCHANGED <<policy, held, policyLock, revision, terminal, transitioning, budget>>
  BY DEF ClaimLocks, At, Up, incident, link, held
<1>2. r \in TaskRecords /\ task[Claimer] \in TaskRecords
  BY RecordTypes, TaskFacts DEF Labels
<1>3. /\ r.pc = "call" /\ r.from = task[Claimer].from /\ r.observed = task[Claimer].observed
      /\ r.used = transport /\ ~r.stale
  BY <1>2 DEF TaskRecords
<1> HIDE DEF r
<1>4. task[Claimer].from = "none"
  BY <1>1, TaskFacts DEF IInv, Places, PlaceOf, Rediscovering
<1>5. /\ PlaceOf(Claimer, r) /\ r.pc \notin Rediscovering /\ SwitchesAt(Claimer, r.pc) /\ r.pc # "join"
      /\ task[Claimer].pc \notin Rediscovering /\ ~Owns(task[Claimer])
  BY <1>1, <1>3, <1>4, TaskFacts DEF PlaceOf, SwitchesAt, Switching, Rediscovering, Owns, Owning
<1>6. Switches(Claimer, r)
  BY <1>1, <1>5 DEF Switches
<1>7. /\ r.observed <= revision /\ transport.policy <= r.used.policy
      /\ policyLock # NoTask => r.observed < revision
  BY <1>1, <1>3, Naturals, TaskFacts DEF IInv, Signals, SignalOf, Operating
<1> QED
  BY <1>1, <1>2, <1>3, <1>5, <1>6, <1>7, Naturals, TaskFacts, MoveKeeps

\* A call that ended leaves the task idle.
LEMMA CallEndsKeeps ==
  ASSUME IInv, NEW t \in Tasks, CallSucceeds(t) \/ CallIsStale(t)
  PROVE  IInv'
<1>1. /\ task[t].pc = "call" /\ fatal = "none" /\ task' = Goto(t, Idle) /\ switchLock' = Unlocked(t)
      /\ UNCHANGED <<policy, held, policyLock, revision, terminal, transitioning, budget>>
  BY DEF CallSucceeds, CallIsStale, At, Up, incident, link, held
<1>2. task[t].pc \notin Rediscovering /\ ~Owns(task[t])
  BY <1>1 DEF Rediscovering, Owns, Owning, IInv, Places, PlaceOf
<1> QED
  BY <1>1, <1>2, Naturals, EndKeeps

LEMMA CallMeetsPolicyKeeps ==
  ASSUME IInv, NEW t \in Tasks, CallMeetsPolicy(t)
  PROVE  IInv'
<1> DEFINE label == IF task[t].second THEN "persist" ELSE "join"
           r == [task[t] EXCEPT !.pc = label, !.from = "operation"]
<1>1. /\ task[t].pc = "call" /\ fatal = "none" /\ Outdated(task[t].used) /\ task' = Goto(t, r)
      /\ switchLock' = Unlocked(t)
      /\ UNCHANGED <<policy, held, policyLock, revision, terminal, transitioning, budget>>
  BY DEF CallMeetsPolicy, At, Up, incident, link, held
<1>2. label \in {"persist", "join"}
  OBVIOUS
<1> HIDE DEF label
<1>3. r \in TaskRecords /\ task[t] \in TaskRecords
  BY <1>2, RecordTypes DEF Labels
<1>4. r.pc = label /\ r.from = "operation" /\ r.observed = task[t].observed /\ r.used = task[t].used
  BY <1>3 DEF TaskRecords
<1> HIDE DEF r
<1>5. t # Prober /\ task[t].from = "none"
  BY <1>1, TaskFacts DEF IInv, Places, PlaceOf, Rediscovering
<1>6. /\ PlaceOf(t, r) /\ r.pc \notin Rediscovering /\ ~SwitchesAt(t, r.pc) /\ r.pc # "call"
      /\ task[t].pc \notin Rediscovering /\ ~Owns(task[t]) /\ Operating(task[t])
  BY <1>1, <1>2, <1>4, <1>5 DEF PlaceOf, SwitchesAt, Switching, Rediscovering, Owns, Owning, Operating
<1>7. Switches(t, r)
  BY <1>1, <1>6 DEF Switches, Unlocked
<1>8. SignalOf(task[t])
  BY DEF IInv, Signals
<1>9. /\ r.observed <= revision
      /\ policyLock # NoTask => r.observed < revision
      /\ terminal = "none" /\ r.observed = revision => transport.policy <= r.used.policy \/ Abandoned
  BY <1>1, <1>4, <1>6, <1>8, Naturals DEF SignalOf
<1> QED
  BY <1>1, <1>2, <1>3, <1>4, <1>6, <1>7, <1>9, Naturals, MoveKeeps

\* The record a task starts a switch or a probe with.
LEMMA AnewKeeps ==
  ASSUME IInv, NEW t \in Tasks, NEW r \in TaskRecords, task' = Goto(t, r), fatal = "none",
         UNCHANGED <<policy, held, policyLock, revision, terminal>>,
         task[t].pc \notin Rediscovering, ~Owns(task[t]),
         r.from = "none", r.observed \in {0, revision},
         \/ r.pc = "switch" /\ t # Prober
         \/ r.pc = "probe" /\ t = Prober,
         Switches(t, r), budget' \in Budgets,
         transitioning' \in BOOLEAN, transitioning' => Owns(r) \/ transitioning
  PROVE  IInv'
<1>1. /\ PlaceOf(t, r) /\ r.pc \notin Rediscovering /\ r.pc # "call" /\ ~Operating(r) /\ r.pc # "join"
  BY DEF PlaceOf, Rediscovering, Operating
<1>2. r.observed <= revision
  BY Naturals
<1> QED
  BY <1>1, <1>2, Naturals, MoveKeeps

LEMMA CallFailsKeeps ==
  ASSUME IInv, NEW t \in Tasks, CallFails(t)
  PROVE  IInv'
<1> DEFINE r == [Idle EXCEPT !.pc = "switch", !.used = task[t].used, !.observed = revision]
<1>1. /\ task' = Goto(t, r) \/ task' = Goto(t, Idle)
      /\ UNCHANGED <<policy, held, policyLock, revision, terminal, transitioning>>
      /\ switchLock' = Unlocked(t)
  BY DEF CallFails, At, Up, incident, link, held
<1>5. budget' \in Budgets
  BY LoseTypes, Naturals DEF CallFails
<1>0. task[t].pc = "call" /\ fatal = "none"
  BY DEF CallFails, At, Up
<1>2. /\ task[t].pc \notin Rediscovering /\ ~Owns(task[t]) /\ t # Prober
  BY <1>0, TaskFacts DEF Rediscovering, Owns, Owning, IInv, Places, PlaceOf
<1>3. CASE task' = Goto(t, Idle)
  BY <1>0, <1>1, <1>2, <1>3, <1>5, Naturals, EndKeeps
<1>4. CASE task' = Goto(t, r)
  <2>1. r \in TaskRecords /\ r.pc = "switch" /\ r.from = "none" /\ r.observed = revision
    BY RecordTypes DEF Labels, Idle
  <2> HIDE DEF r
  <2>2. Switches(t, r)
    BY <1>1, <2>1 DEF Switches, Unlocked, SwitchesAt, Switching
  <2>3. UNCHANGED <<policy, held, policyLock, revision, terminal>>
    BY <1>1
  <2>4. transitioning' \in BOOLEAN /\ (transitioning' => Owns(r) \/ transitioning)
    BY <1>1, Naturals
  <2>5. r.observed \in {0, revision}
    BY <2>1
  <2> HIDE DEF r
  <2> QED
    BY <1>0, <1>1, <1>2, <1>4, <1>5, <2>1, <2>2, <2>3, <2>4, <2>5, AnewKeeps
<1> QED
  BY <1>1, <1>3, <1>4

LEMMA SwitchLocksKeeps ==
  ASSUME IInv, NEW t \in Tasks, SwitchLocks(t)
  PROVE  IInv'
<1> DEFINE r == [task[t] EXCEPT !.pc = "replace", !.next = http]
<1>1. /\ task[t].pc = "switch" /\ fatal = "none" /\ switchLock = NoTask
      /\ UNCHANGED <<policy, held, policyLock, revision, terminal, budget>>
  BY DEF SwitchLocks, At, Up, incident, link, held
<1>2. /\ task[t].pc \notin Rediscovering /\ ~Owns(task[t]) /\ t # Prober
      /\ task[t].from = "none"
  BY <1>1, TaskFacts DEF Rediscovering, Owns, Owning, IInv, Places, PlaceOf
<1>3. CASE task[t].used = transport
  <2>1. switchLock' = t /\ transitioning' = TRUE /\ task' = Goto(t, r)
    BY <1>3 DEF SwitchLocks
  <2>2. task[t] \in TaskRecords /\ http \in Transports
    BY DEF IInv, Types
  <2>3. /\ r \in TaskRecords /\ r.pc = "replace" /\ r.from = task[t].from
        /\ r.observed = task[t].observed /\ r.next = http
    BY <2>2 DEF TaskRecords, Labels
  <2> HIDE DEF r
  <2>6. Keeps(r)
    BY <2>3 DEF Keeps, IInv, Transported
  <2>4. /\ PlaceOf(t, r) /\ r.pc \notin Rediscovering /\ r.pc # "call" /\ ~Operating(r)
        /\ r.pc # "join" /\ Owns(r)
    BY <1>2, <2>3 DEF PlaceOf, Rediscovering, Operating, Owns, Owning
  <2>5. Switches(t, r) /\ r.observed <= revision
    BY <1>1, <2>1, <2>3 DEF Switches, SwitchesAt, Switching, IInv, Signals, SignalOf
  <2> QED
    BY <1>1, <1>2, <2>1, <2>3, <2>4, <2>5, <2>6, Naturals, MoveKeeps
<1>4. CASE task[t].used # transport
  <2>1. task' = Goto(t, Idle) /\ switchLock' = switchLock /\ transitioning' = transitioning
    BY <1>4 DEF SwitchLocks
  <2>2. switchLock' = Unlocked(t)
    BY <1>1, <2>1, TaskFacts DEF Unlocked
  <2> QED
    BY <1>1, <1>2, <2>1, <2>2, Naturals, EndKeeps
<1> QED
  BY <1>3, <1>4

LEMMA ProbeStartsKeeps ==
  ASSUME IInv, ProbeStarts
  PROVE  IInv'
<1>1. /\ task[Prober].pc = "idle" /\ fatal = "none" /\ Prober \in Tasks
      /\ UNCHANGED <<policy, held, policyLock, switchLock, revision, terminal, budget>>
  BY TaskFacts DEF ProbeStarts, At, Up, incident, locks, link, held
<1>2. /\ task[Prober].pc \notin Rediscovering /\ ~Owns(task[Prober]) /\ switchLock # Prober
  BY <1>1, TaskFacts DEF Rediscovering, Owns, Owning, IInv, Places, PlaceOf, Locked, SwitchesAt, Switching
<1>3. CASE transport.kind = "pull"
  <2> DEFINE r == [Idle EXCEPT !.pc = "probe", !.observed = revision]
  <2>1. task' = Goto(Prober, r) /\ transitioning' = TRUE
    BY <1>3 DEF ProbeStarts
  <2>2. r \in TaskRecords /\ r.pc = "probe" /\ r.from = "none" /\ r.observed = revision
    BY <1>1, RecordTypes DEF Labels, Idle
  <2> HIDE DEF r
  <2>3. Switches(Prober, r) /\ Owns(r)
    BY <1>1, <1>2, <2>2, TaskFacts DEF Switches, SwitchesAt, Switching, Owns, Owning
  <2> QED
    BY <1>1, <1>2, <2>1, <2>2, <2>3, Naturals, AnewKeeps
<1>4. CASE transport.kind # "pull"
  <2> DEFINE r == [Idle EXCEPT !.pc = "off"]
  <2>1. task' = Goto(Prober, r) /\ transitioning' = transitioning
    BY <1>4 DEF ProbeStarts
  <2>2. r \in TaskRecords /\ r.pc = "off" /\ r.from = "none" /\ r.observed = 0
    BY <1>1, RecordTypes DEF Labels, Idle
  <2> HIDE DEF r
  <2>3. /\ PlaceOf(Prober, r) /\ r.pc \notin Rediscovering /\ r.pc # "call" /\ ~Operating(r)
        /\ r.pc # "join"
    BY <2>2 DEF PlaceOf, Rediscovering, Operating
  <2>4. Switches(Prober, r) /\ r.observed <= revision
    BY <1>1, <1>2, <2>2, TaskFacts, Naturals DEF Switches, SwitchesAt, Switching
  <2> QED
    BY <1>1, <1>2, <2>1, <2>2, <2>3, <2>4, Naturals, MoveKeeps
<1> QED
  BY <1>3, <1>4

LEMMA ProbeLocksKeeps ==
  ASSUME IInv, ProbeLocks
  PROVE  IInv'
<1>1. /\ task[Prober].pc = "probe" /\ fatal = "none" /\ Prober \in Tasks /\ switchLock = NoTask
      /\ UNCHANGED <<policy, held, policyLock, revision, terminal, budget>>
  BY TaskFacts DEF ProbeLocks, At, Up, incident, link, held
<1>2. task[Prober].pc \notin Rediscovering /\ switchLock # Prober /\ task[Prober].from = "none"
  BY <1>1, TaskFacts DEF Rediscovering, IInv, Places, PlaceOf
<1>3. CASE transport.kind = "pull"
  <2> DEFINE r == [task[Prober] EXCEPT !.pc = "test", !.used = transport,
                                       !.next = Transport("ws", 0, origin)]
  <2>1. task' = Goto(Prober, r) /\ transitioning' = transitioning /\ switchLock' = Prober
    BY <1>3 DEF ProbeLocks
  <2>2. /\ r \in TaskRecords /\ r.pc = "test" /\ r.from = "none" /\ r.observed = task[Prober].observed
        /\ r.next = Transport("ws", 0, origin)
    <3>1. /\ task[Prober] \in TaskRecords /\ transport \in Transports
          /\ Transport("ws", 0, origin) \in Transports
      BY <1>1, Naturals DEF IInv, Types, Transport, Transports
    <3> QED
      BY <1>2, <3>1 DEF TaskRecords, Labels
  <2>5. Keeps(r)
    BY <2>2, Naturals DEF Keeps, Transport
  <2> HIDE DEF r
  <2>3. /\ PlaceOf(Prober, r) /\ r.pc \notin Rediscovering /\ r.pc # "call" /\ ~Operating(r)
        /\ r.pc # "join" /\ Owns(r)
    BY <2>2 DEF PlaceOf, Rediscovering, Operating, Owns, Owning
  <2>4. Switches(Prober, r) /\ r.observed <= revision
    BY <1>1, <1>2, <2>1, <2>2, TaskFacts
       DEF Switches, SwitchesAt, Switching, IInv, Signals, SignalOf
  <2> QED
    BY <1>1, <1>2, <2>1, <2>2, <2>3, <2>4, <2>5, Naturals, TaskFacts, MoveKeeps
<1>4. CASE transport.kind # "pull"
  <2> DEFINE r == [Idle EXCEPT !.pc = "off"]
  <2>1. task' = Goto(Prober, r) /\ transitioning' = FALSE /\ switchLock' = switchLock
    BY <1>4 DEF ProbeLocks
  <2>2. r \in TaskRecords /\ r.pc = "off" /\ r.from = "none" /\ r.observed = 0
    BY <1>1, RecordTypes DEF Labels, Idle
  <2> HIDE DEF r
  <2>3. /\ PlaceOf(Prober, r) /\ r.pc \notin Rediscovering /\ r.pc # "call" /\ ~Operating(r)
        /\ r.pc # "join"
    BY <2>2 DEF PlaceOf, Rediscovering, Operating
  <2>4. Switches(Prober, r) /\ r.observed <= revision
    BY <1>1, <1>2, <2>1, <2>2, TaskFacts, Naturals DEF Switches, SwitchesAt, Switching
  <2> QED
    BY <1>1, <1>2, <2>1, <2>2, <2>3, <2>4, Naturals, MoveKeeps
<1> QED
  BY <1>3, <1>4

LEMMA ProbeFailsKeeps ==
  ASSUME IInv, ProbeFails
  PROVE  IInv'
<1> DEFINE r == [task[Prober] EXCEPT !.pc = "restore"]
<1>1. /\ task[Prober].pc = "test" /\ fatal = "none" /\ Prober \in Tasks /\ task' = Goto(Prober, r)
      /\ UNCHANGED <<policy, held, policyLock, switchLock, revision, terminal, transitioning>>
      /\ budget' \in Budgets
  BY TaskFacts, LoseTypes DEF ProbeFails, At, Up, incident, locks, link, held
<1>2. /\ task[Prober].pc \notin Rediscovering /\ switchLock = Prober /\ task[Prober].from = "none"
  BY <1>1, TaskFacts DEF Rediscovering, IInv, Places, PlaceOf, Locked, SwitchesAt, Switching
<1>6. r \in TaskRecords /\ task[Prober] \in TaskRecords
  BY <1>1, RecordTypes DEF Labels
<1>3. r \in TaskRecords /\ r.pc = "restore" /\ r.from = "none" /\ r.observed = task[Prober].observed
  BY <1>2, <1>6 DEF TaskRecords
<1> HIDE DEF r
<1>4. /\ PlaceOf(Prober, r) /\ r.pc \notin Rediscovering /\ r.pc # "call" /\ ~Operating(r)
      /\ r.pc # "join" /\ Owns(r)
  BY <1>3 DEF PlaceOf, Rediscovering, Operating, Owns, Owning
<1>5. Switches(Prober, r) /\ r.observed <= revision
  BY <1>1, <1>2, <1>3 DEF Switches, SwitchesAt, Switching, IInv, Signals, SignalOf
<1> QED
  BY <1>1, <1>2, <1>3, <1>4, <1>5, Naturals, MoveKeeps

\* A switch or a probe meets the policy signal and gives the switch lock back.
LEMMA MeetsPolicyKeeps ==
  ASSUME IInv, NEW t \in Tasks, NEW from \in {"switch", "probe"},
         task[t].pc \in Switching \ Rediscovering, fatal = "none",
         from = "probe" <=> t = Prober,
         task' = Goto(t, [task[t] EXCEPT !.pc = "join", !.from = from]),
         switchLock' = NoTask,
         UNCHANGED <<policy, held, policyLock, revision, terminal, budget>>,
         transitioning' \in BOOLEAN, transitioning' => t = Prober
  PROVE  IInv'
<1> DEFINE r == [task[t] EXCEPT !.pc = "join", !.from = from]
<1>1. r \in TaskRecords /\ task[t] \in TaskRecords
  BY RecordTypes DEF Labels
<1>2. r.pc = "join" /\ r.from = from /\ r.observed = task[t].observed
  BY <1>1 DEF TaskRecords
<1>3. task' = Goto(t, r)
  OBVIOUS
<1> HIDE DEF r
<1>4. switchLock = t
  BY DEF IInv, Locked, SwitchesAt
<1>5. /\ PlaceOf(t, r) /\ r.pc \notin Rediscovering /\ r.pc # "call" /\ ~Operating(r)
      /\ r.from # "operation" /\ (t = Prober => Owns(r)) /\ task[t].pc \notin Rediscovering
  BY <1>2 DEF PlaceOf, Rediscovering, Operating, Owns
<1>6. Switches(t, r) /\ r.observed <= revision
  BY <1>2, <1>4 DEF Switches, SwitchesAt, Switching, IInv, Signals, SignalOf
<1> QED
  BY <1>1, <1>2, <1>3, <1>5, <1>6, Naturals, MoveKeeps

LEMMA SwitchMeetsPolicyKeeps ==
  ASSUME IInv, NEW t \in Tasks, SwitchMeetsPolicy(t)
  PROVE  IInv'
<1>1. /\ task[t].pc = "replace" /\ fatal = "none" /\ switchLock' = NoTask /\ transitioning' = FALSE
      /\ task' = Goto(t, [task[t] EXCEPT !.pc = "join", !.from = "switch"])
      /\ UNCHANGED <<policy, held, policyLock, revision, terminal, budget>>
  BY DEF SwitchMeetsPolicy, At, Up, incident, link, held
<1>2. t # Prober /\ task[t].pc \in Switching \ Rediscovering
  BY <1>1 DEF IInv, Places, PlaceOf, Switching, Rediscovering
<1> QED
  BY <1>1, <1>2, MeetsPolicyKeeps

LEMMA ProbeMeetsPolicyKeeps ==
  ASSUME IInv, ProbeMeetsPolicy
  PROVE  IInv'
<1>1. /\ task[Prober].pc \in {"test", "restore"} /\ fatal = "none" /\ switchLock' = NoTask
      /\ task' = Goto(Prober, [task[Prober] EXCEPT !.pc = "join", !.from = "probe"])
      /\ UNCHANGED <<policy, held, policyLock, revision, terminal, budget, transitioning>>
  BY DEF ProbeMeetsPolicy, At, Up, incident, link, held
<1>2. Prober \in Tasks /\ task[Prober].pc \in Switching \ Rediscovering
  BY <1>1, TaskFacts DEF Switching, Rediscovering
<1> QED
  BY <1>1, <1>2, Naturals, MeetsPolicyKeeps

-----------------------------------------------------------------------------
(* What comes after an incident *)

\* Every way to raise leaves the task idle.
LEMMA RaisedEnds ==
  ASSUME NEW t \in Tasks, Raised(t), PlaceOf(t, task[t])
  PROVE  task' = Goto(t, Idle)
BY DEF Raised, OperationRaises, PlaceOf

\* The record of a task that comes back from a rediscovery.
LEMMA ReturnedFacts ==
  ASSUME IInv, NEW t \in Tasks, NEW current \in Transports, task[t].from # "none"
  PROVE  \E r \in TaskRecords :
           /\ Returned(t, current) = Goto(t, r) /\ r.from = "none" /\ r.observed \in {0, task[t].observed}
           /\ r.pc = "call" => r.used = current /\ t # Claimer
           /\ r.pc \in {"idle", "off", "claim", "call"}
           /\ r.pc \in {"claim", "call"} => t # Prober
<1> DEFINE back == IF task[t].from = "operation"
                     THEN IF t = Claimer
                            THEN [task[t] EXCEPT !.pc = "claim", !.second = TRUE]
                            ELSE [task[t] EXCEPT !.pc = "call", !.second = TRUE, !.used = current,
                                                 !.stale = FALSE]
                   ELSE IF task[t].from = "probe" /\ current.kind # "pull"
                     THEN [Idle EXCEPT !.pc = "off"]
                   ELSE Idle
           r == [back EXCEPT !.from = "none", !.next = NoTransport, !.before = NoTransport]
<1>1. Returned(t, current) = Goto(t, r)
  BY DEF Returned
<1>2. task[t] \in TaskRecords /\ Idle \in TaskRecords /\ NoTransport \in Transports
      /\ Idle.pc = "idle" /\ Idle.observed = 0 /\ PlaceOf(t, task[t])
  BY IdleFacts DEF IInv, Types, Places
<1>3. /\ back \in TaskRecords /\ back.observed \in {0, task[t].observed}
      /\ back.pc = "call" => back.used = current /\ t # Claimer
      /\ back.pc \in {"idle", "off", "claim", "call"}
      /\ back.pc \in {"claim", "call"} => task[t].from = "operation"
  <2>1. CASE task[t].from = "operation" /\ t = Claimer
    BY <1>2, <2>1 DEF TaskRecords, Labels
  <2>2. CASE task[t].from = "operation" /\ t # Claimer
    BY <1>2, <2>2 DEF TaskRecords, Labels
  <2>3. CASE task[t].from # "operation"
    BY <1>2, <2>3 DEF TaskRecords, Labels
  <2> QED
    BY <2>1, <2>2, <2>3
<1> HIDE DEF back
<1>4. /\ r \in TaskRecords /\ r.from = "none" /\ r.observed = back.observed
      /\ r.pc = back.pc /\ r.used = back.used
  BY <1>2, <1>3 DEF TaskRecords
<1> HIDE DEF r
<1>5. task[t].from = "operation" => t # Prober
  BY <1>2 DEF PlaceOf
<1> QED
  BY <1>1, <1>3, <1>4, <1>5

LEMMA JoinsIncidentKeeps ==
  ASSUME IInv, NEW t \in Tasks, JoinsIncident(t)
  PROVE  IInv'
<1>1. /\ task[t].pc = "join" /\ fatal = "none" /\ policyLock = NoTask
      /\ transitioning' = (transitioning /\ task[t].from # "probe")
      /\ UNCHANGED <<policy, held, policyLock, switchLock, revision, terminal, budget>>
  BY DEF JoinsIncident, At, Up, incident, locks, ProbeEnds, link, held
<1>2. /\ task[t].pc \notin Rediscovering /\ switchLock # t /\ PlaceOf(t, task[t])
      /\ task[t].from # "none"
      /\ Owns(task[t]) => task[t].from = "probe"
  BY <1>1 DEF IInv, Locked, SwitchesAt, Switching, Rediscovering, Places, PlaceOf, Owns, Owning
<1>3. CASE terminal # "none" /\ Raised(t)
  <2>1. task' = Goto(t, Idle) /\ switchLock' = Unlocked(t)
    BY <1>1, <1>2, <1>3, RaisedEnds DEF Unlocked
  <2> QED
    BY <1>1, <1>2, <2>1, Naturals, EndKeeps
<1>4. CASE task[t].observed # revision /\ task' = Returned(t, transport)
  <2>1. PICK r \in TaskRecords :
           /\ Returned(t, transport) = Goto(t, r) /\ r.from = "none" /\ r.observed \in {0, task[t].observed}
           /\ r.pc = "call" => r.used = transport /\ t # Claimer
           /\ r.pc \in {"idle", "off", "claim", "call"}
           /\ r.pc \in {"claim", "call"} => t # Prober
    BY <1>2, Naturals, ReturnedFacts
  <2>7. task' = Goto(t, r)
    BY <1>4, <2>1
  <2>2. /\ PlaceOf(t, r) /\ r.pc \notin Rediscovering /\ ~SwitchesAt(t, r.pc) /\ r.pc # "join"
    BY <2>1 DEF PlaceOf, SwitchesAt, Switching, Rediscovering
  <2>3. Switches(t, r)
    BY <1>1, <1>2, <2>2 DEF Switches
  <2>4. task[t].observed <= revision
    BY DEF IInv, Signals, SignalOf
  <2>5. r.observed <= revision /\ transport.policy <= transport.policy
    BY <2>1, <2>4, Naturals
  <2>6. Operating(r) => /\ policyLock # NoTask => r.observed < revision
                        /\ r.observed = revision /\ r.pc # "claim" /\ terminal' = "none"
                              => transport.policy <= r.used.policy
    BY <1>1, <2>1, <2>2, <2>5 DEF Operating
  <2> QED
    BY <1>1, <1>2, <2>1, <2>2, <2>3, <2>5, <2>6, <2>7, Naturals, MoveKeeps
<1> QED
  BY <1>3, <1>4 DEF JoinsIncident

LEMMA SignalPersistsKeeps ==
  ASSUME IInv, NEW t \in Tasks, SignalPersists(t)
  PROVE  IInv'
<1>1. /\ task[t].pc = "persist" /\ fatal = "none" /\ task' = Goto(t, Idle)
      /\ terminal' = IF terminal = "none" THEN "persisted" ELSE terminal
      /\ UNCHANGED <<policy, held, policyLock, switchLock, revision, transitioning, budget>>
  BY DEF SignalPersists, At, Up, locks, OperationRaises, link, held
<1>2. task[t].pc \notin Rediscovering /\ switchLock # t /\ ~Owns(task[t])
  BY <1>1 DEF IInv, Locked, SwitchesAt, Switching, Rediscovering, Places, PlaceOf, Owns, Owning
<1> QED
  BY <1>1, <1>2, Naturals, EndKeeps DEF Unlocked

-----------------------------------------------------------------------------
(* Steps that put another transport in use *)

\* Two records of a task that differ in `stale` at most.
Alike(r, s) ==
  /\ r.pc = s.pc /\ r.observed = s.observed /\ r.used = s.used
  /\ r.from = s.from /\ r.next = s.next /\ r.before = s.before

LEMMA GotoFacts ==
  ASSUME IInv, NEW t \in Tasks, NEW r \in TaskRecords
  PROVE  /\ Goto(t, r) \in [Tasks -> TaskRecords] /\ Goto(t, r)[t] = r
         /\ \A u \in Tasks \ {t} : Goto(t, r)[u] = task[u]
BY DEF Goto, IInv, Types

LEMMA ReattachedFacts ==
  ASSUME NEW f \in [Tasks -> TaskRecords], NEW x
  PROVE  /\ Reattached(x, f) \in [Tasks -> TaskRecords]
         /\ \A u \in Tasks : Alike(Reattached(x, f)[u], f[u])
         /\ \A u \in Tasks : f[u].pc # "call" => Reattached(x, f)[u] = f[u]
<1>1. ASSUME NEW u \in Tasks
      PROVE  /\ f[u] \in TaskRecords /\ [f[u] EXCEPT !.stale = TRUE] \in TaskRecords
             /\ Alike([f[u] EXCEPT !.stale = TRUE], f[u]) /\ Alike(f[u], f[u])
  BY DEF TaskRecords, Alike
<1> QED
  BY <1>1 DEF Reattached

LEMMA ProbingFacts ==
  ASSUME IInv, NEW t \in Tasks, NEW r \in TaskRecords, NEW f \in [Tasks -> TaskRecords], NEW x,
         task' = Probing(f, x), f[t] = r, \A u \in Tasks \ {t} : Alike(f[u], task[u]),
         t = Prober => task[t].pc # "off"
  PROVE  /\ task' \in [Tasks -> TaskRecords] /\ task'[t] = r
         /\ \A u \in Tasks \ {t} : Left(u)
         /\ \A u \in Tasks \ {t} : task'[u].pc = f[u].pc \/ u = Prober
<1>1. Idle \in TaskRecords
  BY IdleFacts
<1>2. CASE x.kind = "pull" /\ task[Prober].pc = "off"
  <2>1. task' = [f EXCEPT ![Prober] = Idle] /\ t # Prober
    BY <1>2 DEF Probing
  <2> QED
    BY <1>1, <1>2, <2>1, TaskFacts DEF Left, Alike
<1>3. CASE ~(x.kind = "pull" /\ task[Prober].pc = "off")
  <2>1. task' = f
    BY <1>3 DEF Probing
  <2> QED
    BY <2>1 DEF Left, Alike
<1> QED
  BY <1>2, <1>3

\* A switch or a probe that ends with a transport Core accepts, or with the same.
LEMMA SwitchedKeeps ==
  ASSUME IInv, NEW t \in Tasks, fatal = "none", task[t].pc \in Switching \ Rediscovering,
         task' \in [Tasks -> TaskRecords], \A u \in Tasks \ {t} : Left(u),
         t # Claimer => task'[Claimer].pc = task[Claimer].pc,
         task'[t].pc \in {"idle", "off"}, task'[t].from = "none", task'[t].observed = 0,
         transport' \in Transports, Real(transport, {"ws", "pull"})',
         transport' = transport \/ (transport'.policy = policy /\ policy <= origin),
         made' \in Nat, made' >= made, switchLock' = NoTask, transitioning' = FALSE,
         UNCHANGED <<policy, http, origin, policyLock, revision, terminal, budget>>
  PROVE  IInv'
<1>1. /\ policy \in Nat /\ made \in Nat /\ transport.policy \in Nat /\ http.policy \in Nat
      /\ policy' \in Nat /\ policy' >= policy /\ transport'.policy \in Nat /\ revision \in Nat
      /\ origin \in Nat /\ http.policy <= origin /\ http.policy <= policy
  BY Naturals DEF Transports, IInv, Transported, Real
<1>2. switchLock = t /\ policyLock # t
  BY DEF IInv, Locked, SwitchesAt
<1>3. /\ PlaceOf(t, task'[t]) /\ task'[t].pc \notin Rediscovering /\ ~SwitchesAt(t, task'[t].pc)
      /\ ~Operating(task'[t])
  BY DEF PlaceOf, Rediscovering, SwitchesAt, Switching, Operating
<1>4. Types'
  BY <1>1 DEF IInv, Types
<1>5. Locked'
  BY <1>2, <1>3, TaskFacts, LockedKept
<1>6. Places'
  BY <1>3, PlacesKept
<1>7. Transported'
  <2>1. Keeps(task[t])'
    BY <1>3 DEF Keeps, Rediscovering
  <2>2. Real(http, {"pull"})'
    BY <1>1 DEF IInv, Transported, Real, Types, Transports
  <2> QED
    BY <1>1, <2>1, <2>2, TransportedKept
<1>8. Policies'
  <2>1. Older(task[t])' /\ task'[t].pc \notin {"connect", "turn", "attach"}
    BY <1>3 DEF Older, Rediscovering
  <2>2. ASSUME terminal = "none", NEW u \in Tasks
        PROVE  Older(task[u])'
    <3>1. Older(task[u])
      BY <2>2 DEF IInv, Policies
    <3>2. CASE u = t
      BY <2>1, <3>2
    <3>3. CASE u # t
      <4>1. task'[u].pc \in {"connect", "turn", "attach"}
               => task'[u].pc = task[u].pc /\ task'[u].before = task[u].before
        BY <3>3, IdleFacts DEF Left
      <4>2. /\ task[u] \in TaskRecords /\ task[u].before.policy \in Nat
            /\ task[u].pc \in {"connect", "turn", "attach"} => task[u].before.policy <= policy
        BY DEF IInv, Types, Transported, Keeps, Real, TaskRecords, Transports
      <4> QED
        BY <1>1, <3>1, <4>1, <4>2 DEF Older
    <3> QED
      BY <3>2, <3>3
  <2>3. ASSUME terminal = "none", \A u \in Tasks : task'[u].pc \notin {"connect", "turn", "attach"}
        PROVE  http.policy <= transport'.policy
    <3>1. task[t].pc \notin {"connect", "turn", "attach"}
      BY DEF Rediscovering
    <3>2. \A u \in Tasks : task[u].pc \notin {"connect", "turn", "attach"}
      BY <2>3, <3>1, IdleFacts DEF Left
    <3>3. http.policy <= transport.policy
      BY <2>3, <3>2 DEF IInv, Policies
    <3> QED
      BY <1>1, <3>3
  <2> QED
    BY <2>2, <2>3 DEF Policies
<1>9. Signals'
  <2>1. SignalOf(task[t])'
    BY <1>1, <1>3 DEF SignalOf, Operating
  <2>2. terminal = "none" /\ policyLock = NoTask => transport'.policy <= transport.policy \/ Abandoned'
    <3> SUFFICES ASSUME terminal = "none", policyLock = NoTask
                 PROVE  transport'.policy <= transport.policy \/ Abandoned'
      OBVIOUS
    <3>1. \A u \in Tasks : task[u].pc \notin {"connect", "turn", "attach"}
      BY TaskFacts DEF IInv, Locked, Rediscovering
    <3>2. http.policy <= transport.policy
      BY <3>1 DEF IInv, Policies
    <3> QED
      BY <1>1, <3>2 DEF Abandoned
  <2>3. Abandoned => Abandoned'
    BY DEF Abandoned
  <2> QED
    BY <1>1, <2>1, <2>2, <2>3, SignalsKept
<1>10. ClaimsOnCurrent'
  BY <1>2, ClaimsKept
<1>11. FlagHasOwner'
  BY FlagKept
<1> QED
  BY <1>4, <1>5, <1>6, <1>7, <1>8, <1>9, <1>10, <1>11 DEF IInv

LEMMA SwitchSucceedsKeeps ==
  ASSUME IInv, NEW t \in Tasks, SwitchSucceeds(t)
  PROVE  IInv'
<1> DEFINE next == task[t].next
           f == Reattached(next, Goto(t, Idle))
<1>1. /\ task[t].pc = "replace" /\ fatal = "none" /\ transport' = next /\ task' = Probing(f, next)
      /\ ~Outdated(next) /\ switchLock' = NoTask /\ transitioning' = FALSE
      /\ UNCHANGED <<policy, http, made, origin, policyLock, revision, terminal, budget>>
  BY DEF SwitchSucceeds, At, Up, incident
<1>2. t # Prober /\ task[t].pc \in Switching \ Rediscovering
  BY <1>1 DEF IInv, Places, PlaceOf, Switching, Rediscovering
<1>3. /\ Idle \in TaskRecords /\ Idle.pc = "idle" /\ Idle.from = "none" /\ Idle.observed = 0
  BY IdleFacts
<1>4. /\ Goto(t, Idle) \in [Tasks -> TaskRecords] /\ Goto(t, Idle)[t] = Idle
      /\ \A u \in Tasks \ {t} : Goto(t, Idle)[u] = task[u]
  BY <1>3, GotoFacts
<1>5. /\ f \in [Tasks -> TaskRecords] /\ f[t] = Idle
      /\ \A u \in Tasks \ {t} : Alike(f[u], task[u])
  BY <1>3, <1>4, ReattachedFacts
<1>8. /\ next \in Transports /\ Real(next, {"pull"}) /\ next.policy <= origin /\ next.policy \in Nat
  BY <1>1 DEF IInv, Types, Transported, Keeps, TaskRecords, Transports
<1> HIDE DEF f, next
<1>6. /\ task' \in [Tasks -> TaskRecords] /\ task'[t] = Idle
      /\ \A u \in Tasks \ {t} : Left(u)
      /\ \A u \in Tasks \ {t} : task'[u].pc = f[u].pc \/ u = Prober
  BY <1>1, <1>2, <1>3, <1>5, ProbingFacts
<1>7. t # Claimer => task'[Claimer].pc = task[Claimer].pc
  BY <1>5, <1>6, TaskFacts DEF Alike
<1>9. Real(transport, {"ws", "pull"})' /\ made' >= made /\ made' \in Nat
  BY <1>1, <1>8, Naturals DEF Real
<1>10. transport'.policy = policy /\ policy <= origin
  BY <1>1, <1>8, Naturals DEF Real, Outdated
<1> QED
  BY <1>1, <1>2, <1>3, <1>6, <1>7, <1>8, <1>9, <1>10, SwitchedKeeps

LEMMA ProbeSucceedsKeeps ==
  ASSUME IInv, ProbeSucceeds
  PROVE  IInv'
<1> DEFINE r == [Idle EXCEPT !.pc = "off"]
<1>1. /\ task[Prober].pc = "test" /\ fatal = "none" /\ task' = Goto(Prober, r)
      /\ transport' = [task[Prober].next EXCEPT !.id = made + 1] /\ made' = made + 1
      /\ ~Outdated(task[Prober].next) /\ switchLock' = NoTask /\ transitioning' = FALSE
      /\ UNCHANGED <<policy, http, origin, policyLock, revision, terminal, budget>>
  BY DEF ProbeSucceeds, At, Up, incident
<1>2. Prober \in Tasks /\ Prober # Claimer /\ task[Prober].pc \in Switching \ Rediscovering
  BY <1>1, TaskFacts DEF Switching, Rediscovering
<1>3. r \in TaskRecords /\ r.pc = "off" /\ r.from = "none" /\ r.observed = 0
  BY <1>2, RecordTypes DEF Labels, Idle
<1> HIDE DEF r
<1>4. /\ task' \in [Tasks -> TaskRecords] /\ task'[Prober] = r
      /\ \A u \in Tasks \ {Prober} : task'[u] = task[u]
  BY <1>1, <1>2, <1>3, GotoFacts
<1>5. \A u \in Tasks \ {Prober} : Left(u)
  BY <1>4 DEF Left
<1>6. /\ task[Prober].next \in Transports /\ task[Prober].next.kind = "ws"
      /\ task[Prober].next.policy <= origin /\ task[Prober].next.policy \in Nat
      /\ origin \in 0..policy /\ policy \in Nat /\ made \in Nat
  BY <1>1, <1>2, Naturals DEF IInv, Types, Transported, Keeps, TaskRecords, Transports
<1>7. /\ transport' \in Transports /\ transport'.kind = "ws" /\ transport'.id = made + 1
      /\ transport'.policy = task[Prober].next.policy
  BY <1>1, <1>6 DEF Transports
<1>8. transport'.policy = policy /\ policy <= origin
  BY <1>1, <1>6, <1>7 DEF Outdated
<1>9. Real(transport, {"ws", "pull"})' /\ made' \in Nat /\ made' >= made
  BY <1>1, <1>6, <1>7, <1>8 DEF Real
<1> QED
  BY <1>1, <1>2, <1>3, <1>4, <1>5, <1>7, <1>8, <1>9, TaskFacts, SwitchedKeeps

LEMMA ProbeRestoresKeeps ==
  ASSUME IInv, ProbeRestores
  PROVE  IInv'
<1>1. /\ task[Prober].pc = "restore" /\ fatal = "none" /\ task' = Reattached(transport, Goto(Prober, Idle))
      /\ switchLock' = NoTask /\ transitioning' = FALSE
      /\ UNCHANGED <<policy, transport, http, made, origin, policyLock, revision, terminal, budget>>
  BY DEF ProbeRestores, At, Up, incident, link
<1>2. Prober \in Tasks /\ Prober # Claimer /\ task[Prober].pc \in Switching \ Rediscovering
  BY <1>1, TaskFacts DEF Switching, Rediscovering
<1>3. /\ Idle \in TaskRecords /\ Idle.pc = "idle" /\ Idle.from = "none" /\ Idle.observed = 0
  BY IdleFacts
<1>4. /\ Goto(Prober, Idle) \in [Tasks -> TaskRecords] /\ Goto(Prober, Idle)[Prober] = Idle
      /\ \A u \in Tasks \ {Prober} : Goto(Prober, Idle)[u] = task[u]
  BY <1>2, <1>3, GotoFacts
<1>5. /\ task' \in [Tasks -> TaskRecords] /\ task'[Prober] = Idle
      /\ \A u \in Tasks \ {Prober} : Alike(task'[u], task[u])
  BY <1>1, <1>2, <1>3, <1>4, ReattachedFacts
<1>6. \A u \in Tasks \ {Prober} : Left(u)
  BY <1>5 DEF Left, Alike
<1>7. task'[Claimer].pc = task[Claimer].pc
  BY <1>5, TaskFacts DEF Alike
<1>8. transport' \in Transports /\ Real(transport, {"ws", "pull"})' /\ made' >= made /\ made' \in Nat
  BY <1>1, Naturals DEF IInv, Types, Transported, Real
<1> QED
  BY <1>1, <1>2, <1>3, <1>5, <1>6, <1>7, <1>8, SwitchedKeeps

-----------------------------------------------------------------------------
(* A rediscovery *)

LEMMA RediscoveryStartsKeeps ==
  ASSUME IInv, NEW t \in Tasks, RediscoveryStarts(t)
  PROVE  IInv'
<1> DEFINE r == [task[t] EXCEPT !.pc = "discover"]
<1>1. /\ task[t].pc = "join" /\ fatal = "none" /\ policyLock = NoTask /\ policyLock' = t
      /\ revision' = revision + 1 /\ task' = Goto(t, r)
      /\ UNCHANGED <<policy, transport, http, made, origin, switchLock, transitioning, terminal, budget>>
  BY DEF RediscoveryStarts, At, Up, link
<1>2. r \in TaskRecords /\ task[t] \in TaskRecords
  BY RecordTypes DEF Labels
<1>3. r.pc = "discover" /\ r.from = task[t].from /\ r.observed = task[t].observed
  BY <1>2 DEF TaskRecords
<1> HIDE DEF r
<1>4. /\ task' \in [Tasks -> TaskRecords] /\ task'[t] = r
      /\ \A u \in Tasks \ {t} : task'[u] = task[u]
  BY <1>1, <1>2, GotoFacts
<1>5. \A u \in Tasks \ {t} : Left(u)
  BY <1>4 DEF Left
<1>6. /\ PlaceOf(t, r) /\ ~SwitchesAt(t, r.pc) /\ switchLock # t /\ ~Operating(r)
  BY <1>1, <1>3 DEF IInv, Places, PlaceOf, Locked, SwitchesAt, Switching, Rediscovering, Operating
<1>7. Types'
  BY <1>1, <1>4, Naturals DEF IInv, Types
<1>8. Locked'
  BY <1>1, <1>3, <1>4, <1>5, <1>6, TaskFacts, LockedKept DEF Rediscovering
<1>9. Places'
  BY <1>4, <1>5, <1>6, PlacesKept
<1>10. Transported'
  <2>1. Keeps(task[t])'
    BY <1>3, <1>4 DEF Keeps
  <2>2. Real(transport, {"ws", "pull"})' /\ Real(http, {"pull"})' /\ http.policy <= origin
    BY <1>1 DEF IInv, Transported, Real
  <2> QED
    BY <1>1, <1>5, <2>1, <2>2, Naturals, TransportedKept
<1>11. Signals'
  <2>1. SignalOf(task[t])
    BY DEF IInv, Signals
  <2>2. SignalOf(task[t])'
    BY <1>1, <1>3, <1>4, <1>6, <2>1, Naturals DEF SignalOf, Operating, TaskRecords
  <2> QED
    BY <1>1, <1>5, <2>2, TaskFacts, Naturals, SignalsKept
<1>12. Policies'
  <2>1. Older(task[t])' /\ task'[t].pc \notin {"connect", "turn", "attach"}
    BY <1>3, <1>4 DEF Older
  <2>2. policyLock # t
    BY <1>1, TaskFacts
  <2> QED
    BY <1>1, <1>5, <2>1, <2>2, PoliciesKept
<1>13. ClaimsOnCurrent'
  BY <1>1, <1>3, <1>4, ClaimsKept, TaskFacts
<1>14. FlagHasOwner'
  <2>1. Owns(task[t]) => Owns(r)
    BY <1>1, <1>3 DEF Owns, Owning
  <2> QED
    BY <1>1, <1>4, <1>5, <2>1, FlagKept
<1> QED
  BY <1>7, <1>8, <1>9, <1>10, <1>11, <1>12, <1>13, <1>14 DEF IInv

\* The task that rediscovers goes on to its next call.
LEMMA InsideKeeps ==
  ASSUME IInv, NEW t \in Tasks, NEW r \in TaskRecords, task' = Goto(t, r), fatal = "none",
         task[t].pc \in Rediscovering, r.pc \in Rediscovering, r.from = task[t].from,
         r.observed = task[t].observed, Switches(t, r),
         UNCHANGED <<policy, policyLock, revision, terminal>>,
         \/ transport' = transport
         \/ switchLock = t /\ transport' \in Transports /\ Real(transport, {"ws", "pull"})',
         made' \in Nat, made' >= made, http' \in Transports, Real(http, {"pull"})',
         origin' \in 0..policy, origin' >= origin, http'.policy <= origin',
         Keeps(task[t])', terminal = "none" => Older(task[t])',
         r.pc # "discover",
         r.pc = "retire" /\ terminal = "none" => http'.policy <= transport'.policy,
         transitioning' \in BOOLEAN, budget' \in Budgets,
         transitioning' => Owns(r)
  PROVE  IInv'
<1>1. /\ task' \in [Tasks -> TaskRecords] /\ task'[t] = r
      /\ \A u \in Tasks \ {t} : task'[u] = task[u]
  BY GotoFacts
<1>2. \A u \in Tasks \ {t} : Left(u)
  BY <1>1 DEF Left
<1>3. policyLock = t /\ policyLock # NoTask
  BY TaskFacts DEF IInv, Locked
<1>4. /\ PlaceOf(t, r) /\ ~Operating(r) /\ r.pc # "call" /\ r.pc # "join"
  BY DEF IInv, Places, PlaceOf, Rediscovering, Operating
<1>5. /\ switchLock' \in Tasks \union {NoTask}
      /\ switchLock' = t <=> SwitchesAt(t, task'[t].pc)
      /\ \A u \in Tasks \ {t} : switchLock' = u <=> switchLock = u
  BY <1>1, SwitchesKept
<1>6. policy' >= policy /\ policy' \in Nat /\ transport' \in Transports
  BY Naturals
<1>7. Types'
  BY <1>1, <1>5, <1>6 DEF IInv, Types
<1>8. Locked'
  BY <1>1, <1>2, <1>3, <1>5, LockedKept
<1>9. Places'
  BY <1>1, <1>2, <1>4, PlacesKept
<1>10. Transported'
  <2>1. \A u \in Tasks \ {t} : task[u].pc \notin {"connect", "turn", "attach"}
    BY <1>3 DEF IInv, Locked, Rediscovering
  <2>2. Real(transport, {"ws", "pull"})'
    BY Naturals DEF IInv, Transported, Real
  <2> QED
    BY <1>2, <1>6, <2>1, <2>2, TransportedKept
<1>11. Signals'
  <2>1. SignalOf(task[t])
    BY DEF IInv, Signals
  <2>2. SignalOf(task[t])'
    BY <1>1, <1>4, <2>1 DEF SignalOf, Operating
  <2> QED
    BY <1>2, <1>3, <1>6, <2>2, SignalsKept
<1>12. Policies'
  BY <1>1, <1>2, <1>3, PoliciesKept DEF Rediscovering
<1>13. ClaimsOnCurrent'
  BY <1>1, <1>4, ClaimsKept, TaskFacts
<1>14. FlagHasOwner'
  BY <1>1, <1>2, FlagKept
<1> QED
  BY <1>7, <1>8, <1>9, <1>10, <1>11, <1>12, <1>13, <1>14 DEF IInv

LEMMA DiscoveredKeeps ==
  ASSUME IInv, NEW t \in Tasks, Discovered(t)
  PROVE  IInv'
<1> DEFINE r == [task[t] EXCEPT !.pc = "connect", !.before = http]
<1>1. /\ task[t].pc = "discover" /\ fatal = "none" /\ task' = Goto(t, r)
      /\ http' = Transport("pull", made + 1, policy) /\ made' = made + 1 /\ origin' = policy
      /\ UNCHANGED <<policy, transport, policyLock, switchLock, revision, terminal, transitioning, budget>>
  BY DEF Discovered, At, Up, incident, locks
<1>2. r \in TaskRecords /\ task[t] \in TaskRecords
  <2>1. task[t] \in TaskRecords /\ http \in Transports
    BY DEF IInv, Types
  <2> QED
    BY <2>1 DEF TaskRecords, Labels
<1>3. /\ r.pc = "connect" /\ r.from = task[t].from /\ r.observed = task[t].observed
      /\ r.before = http
  BY <1>2 DEF TaskRecords
<1> HIDE DEF r
<1>4. /\ http' \in Transports /\ http'.policy = policy /\ Real(http, {"pull"})'
      /\ made' \in Nat /\ made' >= made
  BY <1>1, Naturals DEF Transport, Transports, Real
<1>5. task'[t] = r
  BY <1>1, <1>2, GotoFacts
<1>6. Real(http, {"pull"}) /\ http.policy <= policy /\ origin \in 0..policy
  BY DEF IInv, Types, Transported, Real
<1>7. Keeps(task[t])'
  BY <1>1, <1>3, <1>5, <1>6, Naturals DEF Keeps, Real
<1>8. ASSUME terminal = "none"
      PROVE  Older(task[t])'
  <2>1. policyLock = t
    BY <1>1 DEF IInv, Locked, Rediscovering
  <2>2. \A u \in Tasks : task[u].pc \notin {"connect", "turn", "attach"}
    BY <1>1, <2>1 DEF IInv, Locked, Rediscovering
  <2>3. http.policy <= transport.policy
    BY <1>8, <2>2 DEF IInv, Policies
  <2> QED
    BY <1>1, <1>3, <1>4, <1>5, <1>6, <2>3 DEF Older
<1>9. switchLock # t /\ ~SwitchesAt(t, r.pc)
  BY <1>1, <1>3 DEF IInv, Locked, SwitchesAt, Switching
<1>10. Switches(t, r)
  BY <1>1, <1>9 DEF Switches
<1>11. /\ task[t].pc \in Rediscovering /\ r.pc \in Rediscovering /\ Owns(r)
  BY <1>1, <1>3 DEF Rediscovering, Owns, Owning
<1>12. origin' \in 0..policy /\ origin' >= origin /\ http'.policy <= origin'
  BY <1>1, <1>4, <1>6, Naturals
<1> QED
  BY <1>1, <1>2, <1>3, <1>4, <1>7, <1>12, <1>8, <1>10, <1>11, Naturals, InsideKeeps

LEMMA ConnectedKeeps ==
  ASSUME IInv, NEW t \in Tasks, Connected(t)
  PROVE  IInv'
<1>1. /\ task[t].pc = "connect" /\ fatal = "none" /\ transitioning' = TRUE
      /\ UNCHANGED <<policy, transport, http, origin, policyLock, switchLock, revision, terminal>>
  BY DEF Connected, At, Up, incident, locks
<1>2. /\ http \in Transports /\ Real(http, {"pull"}) /\ Keeps(task[t])
      /\ task[t] \in TaskRecords
      /\ terminal = "none" => Older(task[t])
  BY DEF IInv, Types, Transported, Policies
<1>3. PICK next \in Transports :
        /\ task' = Goto(t, [task[t] EXCEPT !.pc = "turn", !.next = next])
        /\ next.policy = http.policy /\ Real(next, {"ws", "pull"})'
        /\ made' \in Nat /\ made' >= made /\ budget' \in Budgets
  <2> DEFINE ws == Transport("ws", made + 1, http.policy)
  <2>1. CASE /\ task' = Goto(t, [task[t] EXCEPT !.pc = "turn", !.next = ws])
             /\ made' = made + 1 /\ budget' = budget
    <3>1. ws \in Transports
      BY Naturals DEF Transport, Transports
    <3>2. PICK next \in Transports : next = ws
      BY <3>1
    <3>3. next.policy = http.policy /\ next.kind = "ws" /\ next.id = made + 1
      BY <3>2 DEF Transport
    <3>4. Real(next, {"ws", "pull"})'
      BY <1>1, <1>2, <2>1, <3>3, Naturals DEF Real
    <3>5. made' \in Nat /\ made' >= made /\ budget' \in Budgets
      BY <2>1, Naturals
    <3> QED
      BY <2>1, <3>2, <3>3, <3>4, <3>5
  <2>2. CASE /\ task' = Goto(t, [task[t] EXCEPT !.pc = "turn", !.next = http])
             /\ made' = made /\ Lose
    <3>1. Real(http, {"ws", "pull"})'
      BY <1>1, <1>2, <2>2, Naturals DEF Real
    <3>2. made' \in Nat /\ made' >= made /\ budget' \in Budgets
      BY <2>2, Naturals, LoseTypes
    <3> QED
      BY <1>1, <1>2, <2>2, <3>1, <3>2 DEF Real
  <2> QED
    BY <2>1, <2>2 DEF Connected
<1> DEFINE r == [task[t] EXCEPT !.pc = "turn", !.next = next]
<1>4. r \in TaskRecords
  BY <1>2 DEF TaskRecords, Labels
<1>5. /\ r.pc = "turn" /\ r.from = task[t].from /\ r.observed = task[t].observed
      /\ r.before = task[t].before /\ r.next = next
  BY <1>2 DEF TaskRecords
<1>6. task' = Goto(t, r)
  BY <1>3
<1> HIDE DEF r
<1>7. task'[t] = r
  BY <1>4, <1>6, GotoFacts
<1>8. /\ http' \in Transports /\ Real(http, {"pull"})' /\ Keeps(task[t])'
      /\ terminal = "none" => Older(task[t])'
  BY <1>1, <1>2, <1>3, <1>5, <1>7, Naturals DEF Keeps, Real, Older
<1>9. switchLock # t /\ ~SwitchesAt(t, r.pc)
  BY <1>1, <1>5 DEF IInv, Locked, SwitchesAt, Switching
<1>10. Switches(t, r)
  BY <1>1, <1>9 DEF Switches
<1>11. /\ task[t].pc \in Rediscovering /\ r.pc \in Rediscovering /\ Owns(r)
  BY <1>1, <1>5 DEF Rediscovering, Owns, Owning
<1>20. origin' \in 0..policy /\ origin' >= origin /\ http'.policy <= origin'
  BY <1>1, Naturals DEF IInv, Types, Transported
<1> QED
  BY <1>1, <1>20, <1>3, <1>4, <1>5, <1>6, <1>8, <1>10, <1>11, InsideKeeps

LEMMA RediscoveryLocksKeeps ==
  ASSUME IInv, NEW t \in Tasks, RediscoveryLocks(t)
  PROVE  IInv'
<1> DEFINE r == [task[t] EXCEPT !.pc = "attach"]
<1>1. /\ task[t].pc = "turn" /\ fatal = "none" /\ switchLock = NoTask /\ switchLock' = t
      /\ task' = Goto(t, r)
      /\ UNCHANGED <<policy, transport, http, made, origin, policyLock, revision, terminal, transitioning, budget>>
  BY DEF RediscoveryLocks, At, Up, incident, link
<1>2. r \in TaskRecords /\ task[t] \in TaskRecords
  BY RecordTypes DEF Labels
<1>3. /\ r.pc = "attach" /\ r.from = task[t].from /\ r.observed = task[t].observed
      /\ r.before = task[t].before /\ r.next = task[t].next
  BY <1>2 DEF TaskRecords
<1> HIDE DEF r
<1>4. /\ http \in Transports /\ Real(http, {"pull"}) /\ Keeps(task[t])
      /\ terminal = "none" => Older(task[t])
  BY DEF IInv, Types, Transported, Policies
<1>5. task'[t] = r
  BY <1>1, <1>2, GotoFacts
<1>6. /\ http' \in Transports /\ Real(http, {"pull"})' /\ Keeps(task[t])'
      /\ terminal = "none" => Older(task[t])'
  BY <1>1, <1>3, <1>4, <1>5 DEF Keeps, Real, Older
<1>7. Switches(t, r)
  BY <1>1, <1>3 DEF Switches, SwitchesAt, Switching
<1>8. /\ task[t].pc \in Rediscovering /\ r.pc \in Rediscovering /\ Owns(r)
  BY <1>1, <1>3 DEF Rediscovering, Owns, Owning
<1>20. origin' \in 0..policy /\ origin' >= origin /\ http'.policy <= origin'
  BY <1>1, Naturals DEF IInv, Types, Transported
<1> QED
  BY <1>1, <1>20, <1>2, <1>3, <1>6, <1>7, <1>8, Naturals, InsideKeeps

\* A rediscovery ends and gives back what the task holds: with success, with an
\* error or with the cancellation of its task.
LEMMA EndsKeeps ==
  ASSUME IInv, NEW t \in Tasks, fatal = "none", task[t].pc \in Rediscovering,
         task' \in [Tasks -> TaskRecords], \A u \in Tasks \ {t} : Left(u),
         t # Claimer => \/ task'[Claimer] = task[Claimer] /\ transport' = transport
                        \/ task'[Claimer].pc = task[Claimer].pc /\ switchLock = t,
         task'[t].from = "none", task'[t].observed <= revision,
         task'[t].pc \in {"idle", "off", "claim", "call"},
         task'[t].pc = "call" => t # Claimer /\ task'[t].used = transport',
         task'[t].pc \in {"claim", "call"} => t # Prober,
         policyLock' = NoTask, switchLock' = Unlocked(t),
         UNCHANGED <<policy, made, origin, revision>>, http' \in Transports, transport' \in Transports,
         Real(transport, {"ws", "pull"})', Real(http, {"pull"})', http'.policy <= origin,
         terminal' \in {"none", "failed", "persisted"},
         terminal' = "none" => terminal = "none",
         terminal = "none" /\ terminal' = "none" => http'.policy <= transport'.policy,
         transitioning' \in BOOLEAN, budget' \in Budgets,
         transitioning' => transitioning /\ ~Owns(task[t])
  PROVE  IInv'
<1>1. /\ policy \in Nat /\ made \in Nat /\ revision \in Nat /\ transport'.policy \in Nat
      /\ policy' >= policy /\ made' >= made /\ origin \in Nat /\ transport.policy \in Nat
  BY Naturals DEF Transports
<1>2. policyLock = t /\ policyLock # NoTask
  BY TaskFacts DEF IInv, Locked
<1>3. /\ PlaceOf(t, task'[t]) /\ task'[t].pc \notin Rediscovering /\ ~SwitchesAt(t, task'[t].pc)
      /\ task'[t].pc # "join"
  BY DEF PlaceOf, Rediscovering, SwitchesAt, Switching
<1>4. /\ switchLock' \in Tasks \union {NoTask} /\ switchLock' # t
      /\ \A u \in Tasks \ {t} : switchLock' = u <=> switchLock = u
  BY TaskFacts DEF Unlocked, IInv, Types
<1>5. Types'
  BY <1>1, <1>4 DEF IInv, Types
<1>6. Locked'
  BY <1>2, <1>3, <1>4, TaskFacts, LockedKept
<1>7. Places'
  BY <1>3, PlacesKept
<1>8. \A u \in Tasks \ {t} : task[u].pc \notin {"connect", "turn", "attach"}
  BY <1>2 DEF IInv, Locked, Rediscovering
<1>9. Transported'
  <2>1. Keeps(task[t])'
    BY <1>3 DEF Keeps, Rediscovering
  <2> QED
    BY <1>1, <1>8, <2>1, TransportedKept
<1>10. Signals'
  <2>1. SignalOf(task[t])'
    BY <1>1, <1>3 DEF SignalOf, Operating
  <2>2. \A u \in Tasks \ {t} : Operating(task[u]) => task[u].observed < revision
    BY <1>2 DEF IInv, Signals, SignalOf
  <2> QED
    BY <1>1, <1>2, <2>1, <2>2, SignalsKept
<1>11. Policies'
  <2>1. Older(task[t])'
    BY <1>3 DEF Older, Rediscovering
  <2> QED
    BY <1>2, <2>1, PoliciesKept
<1>12. ClaimsOnCurrent'
  BY <1>3, ClaimsKept, TaskFacts
<1>13. FlagHasOwner'
  BY FlagKept
<1> QED
  BY <1>5, <1>6, <1>7, <1>9, <1>10, <1>11, <1>12, <1>13 DEF IInv

LEMMA RediscoverySucceedsKeeps ==
  ASSUME IInv, NEW t \in Tasks, RediscoverySucceeds(t)
  PROVE  IInv'
<1> DEFINE r == [task[t] EXCEPT !.pc = "retire"]
<1>1. /\ task[t].pc = "attach" /\ fatal = "none" /\ transport' = task[t].next
      /\ task' = Goto(t, r) /\ switchLock' = Unlocked(t) /\ transitioning' = FALSE
      /\ UNCHANGED <<policy, http, made, origin, policyLock, revision, terminal, budget>>
  BY DEF RediscoverySucceeds, At, Up, incident
<1>2. /\ switchLock = t /\ Keeps(task[t])
      /\ task[t] \in TaskRecords /\ task[t].next \in Transports
  BY <1>1 DEF IInv, Locked, SwitchesAt, Switching, Transported, Types, TaskRecords
<1>3. /\ r \in TaskRecords /\ r.pc = "retire" /\ r.from = task[t].from
      /\ r.observed = task[t].observed
  BY <1>2 DEF TaskRecords, Labels
<1> HIDE DEF r
<1>4. /\ Real(transport, {"ws", "pull"})' /\ transport' \in Transports
      /\ transport'.policy = http.policy /\ http' \in Transports /\ Real(http, {"pull"})'
  BY <1>1, <1>2 DEF Keeps, Real, IInv, Types, Transported
<1>5. task'[t] = r
  BY <1>1, <1>3, GotoFacts
<1>6. Keeps(task[t])' /\ Older(task[t])'
  BY <1>3, <1>5 DEF Keeps, Older
<1>7. Switches(t, r)
  BY <1>1, <1>2, <1>3 DEF Switches, SwitchesAt, Switching, Unlocked
<1>8. http'.policy <= transport'.policy
  BY <1>1, <1>4, Naturals
<1>9. task[t].pc \in Rediscovering /\ r.pc \in Rediscovering
  BY <1>1, <1>3 DEF Rediscovering
<1>10. made' \in Nat /\ made' >= made /\ budget' \in Budgets
  BY <1>1, Naturals
<1>11. transitioning' \in BOOLEAN /\ ~transitioning'
  BY <1>1
<1>20. origin' \in 0..policy /\ origin' >= origin /\ http'.policy <= origin'
  BY <1>1, Naturals DEF IInv, Types, Transported
<1> QED
  BY <1>1, <1>20, <1>2, <1>3, <1>4, <1>6, <1>7, <1>8, <1>9, <1>10, <1>11, InsideKeeps

\* The HTTP transport that a rediscovery leaves behind when it does not succeed.
LEMMA PutBack ==
  ASSUME IInv, NEW t \in Tasks, task[t].pc \in Rediscovering
  PROVE  /\ task[t].pc \in {"discover", "retire"} =>
              http \in Transports /\ Real(http, {"pull"}) /\ http.policy <= origin
              /\ (terminal = "none" => http.policy <= transport.policy)
         /\ task[t].pc \notin {"discover", "retire"} =>
              task[t].before \in Transports /\ Real(task[t].before, {"pull"}) /\ task[t].before.policy <= origin
              /\ (terminal = "none" => task[t].before.policy <= transport.policy)
<1>1. CASE task[t].pc \in {"discover", "retire"}
  <2>1. policyLock = t
    BY DEF IInv, Locked
  <2>2. \A u \in Tasks : task[u].pc \notin {"connect", "turn", "attach"}
    BY <1>1, <2>1 DEF IInv, Locked, Rediscovering
  <2> QED
    BY <1>1, <2>2 DEF IInv, Types, Transported, Policies
<1>2. CASE task[t].pc \notin {"discover", "retire"}
  <2>1. task[t].pc \in {"connect", "turn", "attach"} /\ task[t] \in TaskRecords
    BY <1>2 DEF Rediscovering, IInv, Types
  <2> QED
    BY <1>2, <2>1 DEF IInv, Transported, Keeps, Policies, Older, TaskRecords
<1> QED
  BY <1>1, <1>2

LEMMA RediscoveryRetiresKeeps ==
  ASSUME IInv, NEW t \in Tasks, RediscoveryRetires(t)
  PROVE  IInv'
<1>1. /\ task[t].pc = "retire" /\ fatal = "none"
      /\ task' = Probing(Returned(t, transport), transport)
      /\ policyLock' = NoTask /\ switchLock' = switchLock
      /\ transitioning' = (transitioning /\ task[t].from # "probe")
      /\ UNCHANGED <<policy, transport, http, made, origin, revision, terminal, budget>>
  BY DEF RediscoveryRetires, At, Up, link, incident, ProbeEnds
<1>2. /\ task[t].pc \in Rediscovering /\ PlaceOf(t, task[t]) /\ task[t].from # "none"
      /\ switchLock # t /\ task[t].observed <= revision /\ policyLock = t
  BY <1>1 DEF IInv, Places, PlaceOf, Locked, SwitchesAt, Switching, Rediscovering, Signals, SignalOf
<1>3. /\ transport \in Transports /\ Real(transport, {"ws", "pull"})
      /\ http \in Transports /\ Real(http, {"pull"}) /\ http.policy <= origin
  BY DEF IInv, Types, Transported
<1>4. PICK n \in Transports : n = transport
  BY <1>3
<1>5. PICK r \in TaskRecords :
         /\ Returned(t, n) = Goto(t, r) /\ r.from = "none" /\ r.observed \in {0, task[t].observed}
         /\ r.pc = "call" => r.used = n /\ t # Claimer
         /\ r.pc \in {"idle", "off", "claim", "call"}
         /\ r.pc \in {"claim", "call"} => t # Prober
  BY <1>2, ReturnedFacts
<1>6. /\ Goto(t, r) \in [Tasks -> TaskRecords] /\ Goto(t, r)[t] = r
      /\ \A u \in Tasks \ {t} : Goto(t, r)[u] = task[u]
  BY GotoFacts
<1>7. \A u \in Tasks \ {t} : Alike(Goto(t, r)[u], task[u])
  BY <1>6 DEF Alike
<1>8. task' = Probing(Goto(t, r), n)
  BY <1>1, <1>4, <1>5
<1>9. /\ task' \in [Tasks -> TaskRecords] /\ task'[t] = r
      /\ \A u \in Tasks \ {t} : Left(u)
      /\ \A u \in Tasks \ {t} : task'[u].pc = Goto(t, r)[u].pc \/ u = Prober
  BY <1>1, <1>6, <1>7, <1>8, ProbingFacts
<1>10. t # Claimer => task'[Claimer] = task[Claimer]
  BY <1>6, <1>8, TaskFacts DEF Probing
<1>11. Real(transport, {"ws", "pull"})' /\ Real(http, {"pull"})'
  BY <1>1, <1>3 DEF Real
<1>12. terminal = "none" => http.policy <= transport.policy
  BY <1>1, <1>2, PutBack
<1>13. task'[t].from = "none" /\ task'[t].observed <= revision
  BY <1>2, <1>5, <1>9, Naturals
<1>16. /\ transitioning' \in BOOLEAN
       /\ transitioning' => transitioning /\ ~Owns(task[t])
  BY <1>1, Naturals DEF Owns, Owning
<1>14. /\ task'[t].pc \in {"idle", "off", "claim", "call"}
       /\ task'[t].pc = "call" => t # Claimer /\ task'[t].used = transport'
       /\ task'[t].pc \in {"claim", "call"} => t # Prober
  BY <1>1, <1>4, <1>5, <1>9
<1>15. transport' \in Transports /\ http' \in Transports /\ http'.policy <= origin
  BY <1>1, <1>3
<1> QED
  BY <1>1, <1>2, <1>9, <1>10, <1>11, <1>12, <1>13, <1>14, <1>15, <1>16, Naturals, EndsKeeps
     DEF Unlocked

LEMMA RediscoveryFailsKeeps ==
  ASSUME IInv, NEW t \in Tasks, RediscoveryFails(t)
  PROVE  IInv'
<1>1. /\ task[t].pc \in {"discover", "retire", "connect", "attach"} /\ fatal = "none"
      /\ http' = IF task[t].pc \in {"discover", "retire"} THEN http ELSE task[t].before
      /\ policyLock' = NoTask /\ switchLock' = Unlocked(t) /\ terminal' = "failed"
      /\ transitioning' =
           (transitioning /\ task[t].pc \in {"discover", "retire"} /\ task[t].from # "probe")
      /\ Raised(t)
      /\ UNCHANGED <<policy, transport, made, origin, revision>>
  BY DEF RediscoveryFails, PutsBack, At, Up
<1>9. budget' \in Budgets
  BY LoseTypes, Naturals DEF RediscoveryFails
<1>2. task[t].pc \in Rediscovering /\ PlaceOf(t, task[t])
  BY <1>1 DEF IInv, Places, Rediscovering
<1>3. task' = Goto(t, Idle) /\ Idle \in TaskRecords /\ Idle.pc = "idle" /\ Idle.from = "none"
      /\ Idle.observed = 0
  BY <1>1, <1>2, RaisedEnds, IdleFacts
<1>4. /\ task' \in [Tasks -> TaskRecords] /\ task'[t] = Idle
      /\ \A u \in Tasks \ {t} : task'[u] = task[u]
  BY <1>3, GotoFacts
<1>5. \A u \in Tasks \ {t} : Left(u)
  BY <1>4 DEF Left
<1>6. http' \in Transports /\ Real(http, {"pull"})' /\ Real(transport, {"ws", "pull"})'
      /\ transport' \in Transports /\ http'.policy <= origin
  BY <1>1, <1>2, PutBack DEF Real, IInv, Types, Transported
<1>7. /\ transitioning' \in BOOLEAN
      /\ transitioning' => transitioning /\ ~Owns(task[t])
  BY <1>1, Naturals DEF Owns, Owning
<1>8. /\ task'[t].from = "none" /\ task'[t].observed <= revision /\ task'[t].pc = "idle"
      /\ t # Claimer => task'[Claimer] = task[Claimer]
  BY <1>3, <1>4, Naturals, TaskFacts
<1> QED
  BY <1>1, <1>2, <1>4, <1>5, <1>6, <1>7, <1>8, <1>9, EndsKeeps

LEMMA RenewalCancelledKeeps ==
  ASSUME IInv, NEW t \in Tasks, RenewalCancelled(t)
  PROVE  IInv'
<1>1. /\ t \in Cancelable /\ fatal = "none" /\ task' = Goto(t, Idle) /\ switchLock' = Unlocked(t)
      /\ budget.cancels > 0 /\ budget' = [budget EXCEPT !.cancels = @ - 1]
      /\ http' = IF task[t].pc \in {"connect", "turn", "attach"} THEN task[t].before ELSE http
      /\ transitioning' = (transitioning /\ task[t].pc \notin {"replace", "connect", "turn", "attach"})
      /\ policyLock' = IF policyLock = t THEN NoTask ELSE policyLock
      /\ UNCHANGED <<policy, transport, made, origin, revision, terminal>>
  BY DEF RenewalCancelled, PutsBack, Up, incident
<1>2. t # Prober /\ t # Claimer /\ PlaceOf(t, task[t])
  BY <1>1, TaskFacts DEF IInv, Places
<1>3. budget' \in Budgets
  BY <1>1, Naturals DEF Budgets
<1>4. /\ transitioning' \in BOOLEAN
      /\ transitioning' => transitioning /\ ~Owns(task[t])
  BY <1>1, <1>2, Naturals DEF Owns, Owning, PlaceOf
<1>5. CASE task[t].pc \notin Rediscovering
  <2>1. policyLock # t
    BY <1>5 DEF IInv, Locked
  <2>2. UNCHANGED <<policy, held, policyLock, revision>>
    BY <1>1, <1>5, <2>1 DEF held, Rediscovering
  <2> QED
    BY <1>1, <1>3, <1>4, <1>5, <2>2, Naturals, EndKeeps
<1>6. CASE task[t].pc \in Rediscovering
  <2>1. policyLock' = NoTask
    BY <1>1, <1>6 DEF IInv, Locked
  <2>2. http' = IF task[t].pc \in {"discover", "retire"} THEN http ELSE task[t].before
    BY <1>1, <1>6 DEF Rediscovering
  <2>3. /\ http' \in Transports /\ Real(http, {"pull"})' /\ Real(transport, {"ws", "pull"})'
        /\ transport' \in Transports /\ http'.policy <= origin
        /\ terminal = "none" => http'.policy <= transport'.policy
    BY <1>1, <1>6, <2>2, PutBack DEF Real, IInv, Types, Transported
  <2>4. Idle \in TaskRecords /\ Idle.pc = "idle" /\ Idle.from = "none" /\ Idle.observed = 0
    BY IdleFacts
  <2>5. /\ task' \in [Tasks -> TaskRecords] /\ task'[t] = Idle
        /\ \A u \in Tasks \ {t} : task'[u] = task[u]
    BY <1>1, <2>4, GotoFacts
  <2>6. \A u \in Tasks \ {t} : Left(u)
    BY <2>5 DEF Left
  <2>7. /\ task'[t].from = "none" /\ task'[t].observed <= revision /\ task'[t].pc = "idle"
        /\ t # Claimer => task'[Claimer] = task[Claimer]
    BY <2>4, <2>5, Naturals, TaskFacts
  <2> QED
    BY <1>1, <1>2, <1>3, <1>4, <1>6, <2>1, <2>3, <2>5, <2>6, <2>7, Naturals, EndsKeeps
<1> QED
  BY <1>5, <1>6

LEMMA CoreChangesPolicyKeeps ==
  ASSUME IInv, CoreChangesPolicy
  PROVE  IInv'
<1>1. /\ policy < MaxPolicy /\ policy' = policy + 1
      /\ UNCHANGED <<transport, http, made, origin, policyLock, switchLock, transitioning, revision, terminal,
                     task, fatal, budget>>
  BY DEF CoreChangesPolicy, link, locks, incident
<1>2. policy' \in 0..MaxPolicy /\ policy \in Nat /\ policy' >= policy /\ origin' \in 0..policy'
  BY <1>1, TasksAssumption DEF IInv, Types
<1>3. ASSUME NEW x \in Transports, NEW kinds, Real(x, kinds)
      PROVE  Real(x, kinds)'
  BY <1>1, <1>2, <1>3 DEF Real, Transports
<1>4. \A t \in Tasks : task[t].next \in Transports /\ task[t].before \in Transports
                       /\ task[t].used \in Transports
  BY DEF IInv, Types, TaskRecords
<1>5. Types'
  BY <1>1, <1>2 DEF IInv, Types
<1>6. Transported'
  BY <1>1, <1>3, <1>4 DEF IInv, Types, Transported, Keeps
<1>7. Signals'
  BY <1>1, <1>2, <1>4 DEF IInv, Signals, SignalOf, Operating, Outdated, Abandoned, Transports
<1> QED
  BY <1>1, <1>5, <1>6, <1>7
     DEF IInv, Locked, Places, Policies, Older, ClaimsOnCurrent, FlagHasOwner, At, Up

-----------------------------------------------------------------------------
(* The theorems *)

LEMMA InitInv == Init => IInv
<1> SUFFICES ASSUME Init
             PROVE  IInv
  OBVIOUS
<1> DEFINE off == [Idle EXCEPT !.pc = "off"]
<1>1. /\ Idle \in TaskRecords /\ Idle.pc = "idle" /\ Idle.from = "none" /\ Idle.observed = 0
      /\ off \in TaskRecords /\ off.pc = "off" /\ off.from = "none" /\ off.observed = 0
  BY IdleFacts DEF TaskRecords, Labels, Idle
<1>2. task = [t \in Tasks |-> IF t = Prober THEN off ELSE Idle]
  BY DEF Init
<1> HIDE DEF off
<1>3. /\ task \in [Tasks -> TaskRecords]
      /\ \A t \in Tasks : /\ task[t].pc \in {"idle", "off"} /\ task[t].from = "none"
                          /\ task[t].observed = 0
  BY <1>1, <1>2
<1>4. /\ http \in Transports /\ transport \in Transports /\ http.policy = 0 /\ transport.policy = 0
      /\ http.kind = "pull" /\ http.id = 1 /\ transport.kind = "ws" /\ transport.id = 2
  BY DEF Init, Transport, Transports
<1>5. budget \in Budgets /\ policy \in 0..MaxPolicy /\ origin \in 0..policy
  BY TasksAssumption DEF Init, Budgets
<1>10. Types
  BY <1>3, <1>4, <1>5 DEF Init, Types
<1>6. Transported
  BY <1>3, <1>4 DEF Init, Transported, Keeps, Real
<1>7. Locked /\ Places
  BY <1>3, TaskFacts
     DEF Init, Locked, SwitchesAt, Switching, Rediscovering, Places, PlaceOf
<1>8. Signals /\ Policies
  BY <1>3, <1>4 DEF Init, Signals, SignalOf, Operating, Policies, Older
<1>9. ClaimsOnCurrent /\ FlagHasOwner
  BY <1>3, TaskFacts DEF Init, ClaimsOnCurrent, FlagHasOwner, At
<1> QED
  BY <1>6, <1>7, <1>8, <1>9, <1>10 DEF IInv

LEMMA StepInv == IInv /\ [Next]_vars => IInv'
<1> SUFFICES ASSUME IInv, [Next]_vars
             PROVE  IInv'
  OBVIOUS
<1>1. ASSUME NEW t \in Tasks, OperationWaits(t) \/ OperationStarts(t)
      PROVE  IInv'
  BY <1>1, OperationWaitsKeeps, OperationStartsKeeps
<1>2. ASSUME NEW t \in Tasks, WaitsPolicyLock(t)
      PROVE  IInv'
  BY <1>2, JoinsIncidentKeeps, RediscoveryStartsKeeps, SignalPersistsKeeps DEF WaitsPolicyLock
<1>3. ASSUME NEW t \in Tasks, WaitsSwitchLock(t)
      PROVE  IInv'
  BY <1>3, ClaimLocksKeeps, ProbeLocksKeeps, SwitchLocksKeeps, RediscoveryLocksKeeps
     DEF WaitsSwitchLock
<1>4. ASSUME NEW t \in Tasks, Answered(t)
      PROVE  IInv'
  BY <1>4, CallEndsKeeps, CallFailsKeeps, CallMeetsPolicyKeeps, SwitchSucceedsKeeps, SwitchMeetsPolicyKeeps,
     DiscoveredKeeps, ConnectedKeeps, RediscoverySucceedsKeeps, RediscoveryRetiresKeeps,
     RediscoveryFailsKeeps,
     ProbeSucceedsKeeps, ProbeRestoresKeeps, ProbeMeetsPolicyKeeps
     DEF Answered
<1>5. ASSUME NEW t \in Tasks, CallFails(t) \/ RenewalCancelled(t)
      PROVE  IInv'
  BY <1>5, CallFailsKeeps, RenewalCancelledKeeps
<1>6. CASE ProbeStarts \/ ProbeFails \/ CoreChangesPolicy
  BY <1>6, ProbeStartsKeeps, ProbeFailsKeeps, CoreChangesPolicyKeeps
<1>7. CASE UNCHANGED vars
  <2>1. UNCHANGED <<policy, transport, http, made, origin, policyLock, switchLock, transitioning, revision,
                    terminal, task, fatal, budget>>
    BY <1>7 DEF vars, link, locks, incident
  <2>2. Types' /\ Transported'
    BY <2>1 DEF IInv, Types, Transported, Keeps, Real
  <2>3. Signals' /\ Policies'
    BY <2>1 DEF IInv, Signals, SignalOf, Operating, Outdated, Abandoned, Policies, Older
  <2> QED
    BY <2>1, <2>2, <2>3 DEF IInv, Locked, Places, ClaimsOnCurrent, FlagHasOwner, At, Up
<1> QED
  BY <1>1, <1>2, <1>3, <1>4, <1>5, <1>6, <1>7 DEF Next

\* Locks and their holders, the transports in use and kept, the signals and the
\* policies they were met under agree in every reachable state.
THEOREM InvariantHolds == Spec => []IInv
BY InitInv, StepInv, PTL DEF Spec

\* The type invariant: the transports in use exist, and the policy lock is held in
\* the five places of a rediscovery and nowhere else.
THEOREM TypeCorrect == Spec => []TypeOK
<1>1. IInv => TypeOK
  BY DEF IInv, Types, Transported, Real, Locked, Rediscovering, TypeOK, Versions
<1> QED
  BY <1>1, InvariantHolds, PTL

\* No switch, probe or rediscovery comes between a claim and its answer
\* (_claim_switch_lock), however many loops there are.
THEOREM ClaimsAreAnsweredInPlace == Spec => []ClaimsOnCurrent
<1>1. IInv => ClaimsOnCurrent
  BY DEF IInv
<1> QED
  BY <1>1, InvariantHolds, PTL

\* _transport_transitioning is never left behind: while it is set some task is in
\* a switch, a probe or a rediscovery that will reset it.
THEOREM FlagIsOwned == Spec => []FlagHasOwner
<1>1. IInv => FlagHasOwner
  BY DEF IInv
<1> QED
  BY <1>1, InvariantHolds, PTL

\* Only the start of a rediscovery takes the policy lock.
LEMMA PolicyLockTaken ==
  ASSUME [Next]_vars, IInv
  PROVE  \/ policyLock' = policyLock \/ policyLock' = NoTask
         \/ \E t \in Tasks : RediscoveryStarts(t) /\ policyLock' = t
<1>1. ASSUME NEW t \in Tasks, OperationWaits(t) \/ OperationStarts(t)
      PROVE  policyLock' = policyLock
  BY <1>1 DEF OperationWaits, OperationStarts, locks
<1>2. ASSUME NEW t \in Tasks, WaitsPolicyLock(t)
      PROVE  policyLock' = policyLock \/ (RediscoveryStarts(t) /\ policyLock' = t)
  BY <1>2 DEF WaitsPolicyLock, JoinsIncident, RediscoveryStarts, SignalPersists, locks
<1>3. ASSUME NEW t \in Tasks, WaitsSwitchLock(t)
      PROVE  policyLock' = policyLock
  BY <1>3 DEF WaitsSwitchLock, ClaimLocks, ProbeLocks, SwitchLocks, RediscoveryLocks
<1>4. ASSUME NEW t \in Tasks, Answered(t)
      PROVE  policyLock' = policyLock \/ policyLock' = NoTask
  BY <1>4 DEF Answered, CallSucceeds, CallFails, CallMeetsPolicy, CallIsStale, SwitchSucceeds,
              SwitchMeetsPolicy, Discovered, Connected, RediscoverySucceeds, RediscoveryRetires,
              RediscoveryFails, ProbeSucceeds, ProbeRestores, ProbeMeetsPolicy, locks
<1>5. ASSUME NEW t \in Tasks, CallFails(t) \/ RenewalCancelled(t)
      PROVE  policyLock' = policyLock \/ policyLock' = NoTask
  BY <1>5 DEF CallFails, RenewalCancelled
<1>6. ASSUME ProbeStarts \/ ProbeFails \/ CoreChangesPolicy \/ UNCHANGED vars
      PROVE  policyLock' = policyLock
  BY <1>6 DEF ProbeStarts, ProbeFails, CoreChangesPolicy, vars, locks
<1> QED
  BY <1>1, <1>2, <1>3, <1>4, <1>5, <1>6 DEF Next

\* The signal of an operation starts a rediscovery only while the transport in
\* use is one Core no longer accepts (_policy_operation and
\* _recover_runtime_policy), whatever was switched since it left, or while the
\* rediscovery before it was abandoned halfway.
THEOREM RediscoversWhenNeeded == Spec => RediscoversOnlyOutdated
<1>1. ASSUME IInv, [Next]_vars, NEW t \in Tasks,
             task[t].from = "operation", policyLock # t, policyLock' = t
      PROVE  Outdated(transport) \/ Abandoned
  <2>1. RediscoveryStarts(t)
    BY <1>1, PolicyLockTaken, TaskFacts
  <2>2. /\ task[t].pc = "join" /\ policyLock = NoTask /\ terminal = "none"
        /\ task[t].observed = revision
    BY <2>1 DEF RediscoveryStarts, At
  <2>3. SignalOf(task[t])
    BY <1>1 DEF IInv, Signals
  <2>4. (transport.policy <= task[t].used.policy \/ Abandoned) /\ task[t].used.policy < policy
    BY <1>1, <2>2, <2>3, TaskFacts DEF SignalOf, Operating, Outdated
  <2>5. task[t].used.policy \in Nat
    BY <1>1 DEF IInv, Types, TaskRecords, Transports
  <2> QED
    BY <1>1, <2>4, <2>5, Naturals DEF Outdated
<1>2. IInv /\ [Next]_vars =>
        [\A t \in Tasks : task[t].from = "operation" /\ policyLock # t /\ policyLock' = t
                            => Outdated(transport) \/ Abandoned]_vars
  BY <1>1
<1> QED
  BY <1>2, InvariantHolds, PTL DEF Spec, RediscoversOnlyOutdated
=============================================================================
