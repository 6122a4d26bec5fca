# A verification of the OpenLinker Python SDK's Runtime

TLA+ specifications of the Runtime side of `openlinker-python`: the durable store, the worker, its
transports and credentials, the context of a handler, and the registration of an Agent. TLC checks
them on small instances. TLAPS proves the safety of all of them for every instance, in a module
`...Proofs` beside each (RuntimeStore, RuntimeWorker with its refinement of AttemptDelivery,
HandlerContext, RuntimeCredentials, Registration, TransportRecovery, WebSocketTransport,
Lifecycle): every invariant and every action property of a passing run has its theorem. Liveness is
model-checked only. `PROJECT.json` lists the runs, the mutants that show that each property can
fail, the source lines behind each definition, the hazards, the findings and the theorems.

Paths below are those of the SDK, under `src/openlinker/`.

## The system

A **Runtime worker** is one asyncio process. It attaches a *Session* to OpenLinker Core, claims
assignments (one *Attempt* of a run each), runs the user's handler, and uploads the Events and
the Result the handler produced. Core and the network are outside the repository.

| Part | State it keeps | Operations | What is hard about it |
|---|---|---|---|
| Durable store, `runtime/store.py` | journal of assignments, Events, Results in memory and one encrypted file each; identity and epoch; `_poisoned` | create, advance, append, ack, store and ack Result, clear, discard, delete, open, recover | a crash or a failing write between any two files of one operation; a full store; recovery must accept all of that |
| Worker, an Attempt, `runtime/worker.py` 784-1700, 1825-1857 | `_active`, `_terminal_attempts`, `_spool_permissions`, `_attempt_locks`, a handler and a lease renewal per Attempt | claim, acknowledge, reject, execute, renew, upload, cancel, revoke, resume | every await is a place where another task moves the same record; redelivery, lost answers, restarts |
| Handler context, `runtime/worker.py` 125-252, 984-1032, 2142-2200 | `_closed`, the cancel event, a task for each call | emit, call an Agent, read a delegated Run | the handler's tasks outlive it; the end of the attempt meets them at any await |
| Worker, transport and policy recovery, 1694-1823, 1968-2140 | `_transport`, `_http_transport`, `_claim_switch_lock`, `_policy_recovery_lock`, `_transport_transitioning`, `_policy_revision` and its errors | switch to long polling, probe back to WebSocket, rediscover after a policy signal | any loop may do it, at any await, and may be cancelled while it does |
| Worker, run, stop, drain, shutdown, 363-594, 1859-1915 | `_stopping`, `_stop_owner`, `_draining`, `_force_cancel`, `_fatal`, `_drain_task`, `_background` | run, stop, drain, `_report_fatal`, `_shutdown` | three owners of one stop; a drain reads its evidence in pieces; phases of a shutdown with handlers of different ages |
| WebSocket transport, `runtime/transport.py` 630-1110 | `_pending`, `_assignments`, `_commands`, `_closed`, `_closed_error`, the reader | request, resume, poll, close | answers by correlation; timeouts and cancellations racing answers; the end of the connection |
| HTTP transport, `runtime/transport.py` 340-650 | attachment generation, the shared client | one request, one answer; a rejected certificate renews it and replaces the client | an answer under an attachment that moved; a client replaced under requests in flight |
| Runtime credentials, `runtime/credentials.py` | key, certificate, CA and identity in four files; `_disk`, `_lock`, a renewal task | open, ensure, renew | a crash between the files; a thread that writes on after its renewal was cancelled |
| Agent registration, `registration.py` | one stored record | ensure an Agent and its token, by four policies | the platform acts before the record is saved; several processes share one record |
| Platform client, `client/`; A2A client, `a2a.py`; `webhook.py`; types | nothing between calls | requests, encodings, HMAC | wire formats; the Event stream with its callbacks |

How they interact: the worker's loops (claim, command, heartbeat, spool, probe) and its per-Attempt
tasks share the worker's fields and the store on one event loop, so what lies between two awaits
is atomic and everything else interleaves. The store is synchronous under its own lock. The
WebSocket's reader task hands answers to requests through queues. Core is told of the worker's
state by a hello, a heartbeat, a resume, and answers with decisions.

### What makes each part correct

- Store: what an operation returned survives a crash; recovery never refuses what a crash left; a
  Result or Event goes only when the journal says the Attempt is over; the journal follows its
  transitions; an ACK is never lost, in whatever order ACKs come; an epoch is used once.
- Attempt: the handler starts at most once, in all processes, and only after Core confirmed; a
  durable Result goes only when Core has it or the Attempt is over; Events before Result; capacity;
  a cancelled Attempt stores nothing; a durable Result settles.
- Recovery: one rediscovery answers every loop; no claim crosses a switch; no lock or flag is left
  behind; a failed rediscovery ends the worker.
- Lifecycle: a stop ends; a drain ends; a drain that succeeds left nothing; handlers get their
  time; nobody is left when the store closes.
- Handler context: an Event that is accepted finds its record; the end of the attempt or of the
  handler releases everyone who waits.
- WebSocket: an answer reaches its request, whole and once; nothing taken from the socket is lost;
  the end wakes everybody.
- Credentials: what the next start knows is never older than the certificate it uses; a request
  rejected for its certificate goes out with one as new as was issued to it; the client recovers.
- Registration: a saved record is of one piece; calls that fail do not make a second Agent.

## The modules

### RuntimeStore, RuntimeStoreProofs

`FileRuntimeStore`. The variables are the data directory (`assignmentFile`, `eventFiles`,
`resultFile`, `identityFile`) and the process (`assignments`, `events`, `results`, `epoch`, ...).
The store's lock makes operations exclusive; the danger is inside them. An operation is one action
for its memory part and one action for *each file* it writes or removes (`pc` says which is next),
and every file step may happen, happen and raise, or raise before (`FileStep`). A raise poisons
an open store (`Raise`), a `Crash` may come anywhere. `_atomic_write` makes one file whole or not
there, so encryption and partial files are not modelled. Opening is modelled step by step: the
epoch (`OpenIdentity`), the scans that may refuse (`ReadRecords`), then each record's repair
(`Scan` to `RepairResult`).
The callers' discipline is part of the model: a worker advances only to `WorkerTargets` and
acknowledges only a finished record; RuntimeWorker's `ReportsFindTheirRecord` and
`TerminalStaysTerminal` are what this rests on. (Where a worker asks for more than that, after a late
assignment ACK or resume decision, the store refuses and the worker ends: finding 1.)

### RuntimeWorker, RuntimeWorkerProofs

The life of Attempts against an external Core. An action is the code between two awaits; a call is
three steps (the task sends, Core answers, the task resumes). `core` is Core's side, `record` and
`events` the durable side, `local` what the process knows, `claim`, `flush` and `resume` the tasks
that hold a call. Core may redeliver to the same Session, cancel, revoke and decide a resume in
any way that fits its state; answers are lost `MaxLosses` times, a switch happens `MaxSwitches`
times, the process starts `MaxStarts` times and may crash at any point, also between the file
writes of one store operation (`CutShort`). Otherwise the store is atomic here: RuntimeStore shows
what that rests on.
Two paths that only a recovery takes are there too. When Core answers a Result with EVENTS_MISSING, the
flush sends the Events it names once more and then the Result (`CoreMissesEvents`, `EventsReplayed`).
When a resume asks for an assignment ACK that is repeated on a WebSocket, on which nothing was
delivered to reply to, the ACK fails and the worker ends (`claim.unrouted`, `AckUnrouted`).
A `run.cancel` is two steps, because its handler is a task of its own that may begin when Core or this
process has ended the Attempt meanwhile (`CancelQueued`, `CancelStart`). A resume applies its decisions one
record after the other; where one waits for an attempt lock or a finalizer, `resume.at` is that record and the
others wait behind it.
Abstracted: the partial `allowed_actions` of `upload_spool_only` (one permission instead of both only delays
what is uploaded until Core decides again; `continue_execution` always gives both), the heartbeat, the failed cancellation ACK (its
effect, an Attempt that stays, is there), sequence numbers of Events (RuntimeStore has them), the order
in which a resume applies its decisions (any order).

### AttemptDelivery

What the worker promises of an Attempt, without tasks, calls, journal or processes: it
waits, is started once, after Core accepted the worker, has an answer, and is gone; an answer goes only
when Core recorded it, cancels or ended the lease, or the lease has lapsed by the worker's clock; what
Core records was stored before. RuntimeWorker implements it (`DeliversAttempts`). The mapping reads
`stage` off the record on disk and the number of handler starts, so that what a crash takes is a stutter: an
Attempt waits until its handler has started, whatever its record went through; `lease` off Core's state; `lapsed`
off the expiry the process noticed. A step of the worker may be several abstract ones at once, of
different Attempts (a resume applies its decisions, a crash cuts an operation short), hence `Next` is a
conjunction over the Attempts.

### HandlerContext, HandlerContextProofs

The `RuntimeContext` of one attempt. `Users` are the handler and the tasks it may have started, which the
worker does not know and which go on when the handler has returned. A `call_agent` or
`read_delegated_run` is a task of its own (`call`, `read`), and its user waits for it, for the
cancellation and for the close; `orphan` is the task of a call whose user was interrupted, because the
`finally` of a call, unlike that of a read, does not cancel it (worker.py:195). The rest of the worker is
as much as a context can notice: the Result stored, the attempt cancelled, its record deleted, a shutdown
that forces. What a call sends and how the platform repeats it is its idempotency key's business.

### RuntimeCredentials, RuntimeCredentialsProofs

The manager, the HTTP client that all requests share, WebSocket connects with a context of their own, the
renew loop and the start. Certificates are numbers in the order of issue; `due` and `expired` say which
of them are to be renewed and which the server rejects, so a certificate grows old by a step that may
come at any await. `files` is the certificate in each file, written by a thread (`writing`) one file at a
time, which a cancelled renewal does not stop; `disk` is what the manager knows. The client has an
identity, because a request that meets a rejected certificate closes the client it finds and puts another
in its place, also under requests in flight. A crash may come between any two files; the start
loads what is there. `orphaned` and `abandoned` remember that a renewal was cancelled while its thread
wrote, and a request while it closed the client: what these two leave behind is said below.

### Registration, RegistrationProofs

`ensure_agent` by several processes on one record, with its four policies and what a caller may give it.
A process loads the record, decides (`Route`), and makes one or two calls; after each the platform has
acted whatever becomes of the process (`AnswerLost`). Tokens and Agents are numbered, so that the record
can be compared with the platform: a record of the model is the Agent, the token and the token's id, the
three fields that decide. Init has the records a user may write by hand. The platform's side is modelled
from how the code uses it and marked external.

### TransportRecovery, TransportRecoveryProofs

Loops that make an operation, meet a failure, a policy signal or an attachment that moved, and go
into `_recover_transport`, `_websocket_probe_loop` or `_recover_runtime_policy`. A transport object
is a record with an identity, so "the transport I used is not the one in use" is what the code
tests; `shut` are the HTTP transports that were closed, which fail every call. `origin` is the policy of the
address the probe connects to, which a rediscovery replaces and nothing puts back. A rediscovery that has put
its transports in closes the old ones in a step of its own (`RediscoveryRetires`), with the policy lock still
held; one that fails or is cancelled closes its own and puts the old HTTP transport back (`PutsBack`). Both locks, the flag, the revision and the errors are variables; an await is a step. A lease
renewal may be cancelled wherever it waits. The configured mode is `auto` with long polling as the
fallback, in which every path of the recovery exists; the modes `ws` and `pull` have fewer. Attaching
a Session and resuming it is one answer of Core here.
A call in flight on a WebSocket that is closed under it may still be answered here; the loops forgive its
failure in either case. A stop of the worker is not in this module.
Facts a reader should know: `_recover_transport` and the probe read the revision without the
policy lock, so a signal of theirs may start a rediscovery that is not needed
(`RediscoversOnlyOutdated` is about operations); and the flag may be cleared by one switcher while
another is at work (`FlagHasOwner` says only that it is never left behind). A rediscovery whose renewal
is cancelled halfway leaves the new address with the old HTTP transport (`Abandoned`); a switch then attaches
a transport older than the one in use, and `RediscoversOnlyOutdated` excepts the signals of that state.
A switch that meets the policy signal closes the transport it could not attach and leaves it to the next
switch (finding 2): `Unblocked` and `TerminalEndsWorker` except the loop that attaches it for ever
(`AttachesClosed`).

### WebSocketTransport, WebSocketTransportProofs

One connection from its handshake to its end (`attach` is how far `connect` is; the hello is the first
request, and Core may push commands behind `runtime.ready` before the reader runs): requests and their pending queues, the reader, the
polls of the claim and command loops with the getter task whose result a timeout must not drop,
and the end of the connection. `fromCore` is a FIFO that may drop. A resume waits for as many
answers as it has Attempts. Sends are one await (the send lock is folded in). Two behaviours are in
the model as they are in the code: `close` may take the socket from a sender that waits (the send
fails), and a request made after the reader ended with a protocol error waits for its timeout. `atEnd`
remembers which requests had been made when the end was announced: those are woken however it came.

### Lifecycle, LifecycleProofs

How a worker ends. `phase` is how far `run` and `_shutdown` are, `claim` and `flush` the two loops
they must come to terms with, `att` each Attempt as far as the end of the worker asks (record, slot,
handler, Result), `drain` the drain task, `lock` the switch lock a claim and a drain request
compete for, `core` and `fenced` Core's side. Stops come from the user, a fatal error, the drain or
its failure, in any phase. The start is in it: the Attempts of an earlier process (`Kept`) may have
left records, and the resume starts the handlers of those Core lets go on before any loop runs
(`ResumeContinues`). A started record is none of these: `continue_execution` on it raises, which is
`StartFails`. Two ways to end a handler differ in what is left meanwhile: a cancellation keeps record
and slot until the handler has ended (`canceling`), a revocation deletes both at once, and the handler
may still be at its cleanup (`revoked`).
`atStop` is a history variable: the handlers that ran when the stop was requested. `_transport` does not
change here, and the user's `on_ready`, `on_drain` and handlers call nothing of the worker.

The modules are separate on purpose: each keeps the whole control of its part and abstracts its
neighbours to the answers they may give. What one takes from another is a property there: RuntimeWorker
takes the store's atomicity from `ReturnedMeansDurable` and `RecoveryNeverRefuses`; the store takes its
callers' discipline from `ReportsFindTheirRecord` and `TerminalStaysTerminal`; HandlerContext takes from
RuntimeWorker that a record goes only with its Attempt cancelled or answered.

## The runs

All runs check deadlock off: bounds exhaust (losses, starts, requests), a worker that ended stays
ended, and a closed connection stays closed.

| Run | Instance | States | Shows |
|---|---|---|---|
| `store` | 2 Attempts, 3 Events each, 5 files, 3 openings | 4.3 M | all store properties. Three Events are the fewest for an ACK gap of more than one; five files fill the store in the middle of an operation; three openings let a crash of a recovery be recovered. |
| `worker` | 1 Attempt, 1 Event, 1 loss, 1 switch, 2 starts | 0.44 M | the life of one Attempt: its safety, that it implements AttemptDelivery, and `Settles` under fairness. One Attempt meets all its own tasks (claim, flush, resume, handler, cancellation, finalizer); a switch and a restart make it be resumed twice. By hand, safety only, also with 2 Events and 2 switches, so that one switch follows on another (2.1 M states), passes. |
| `worker_pair` | 2 Attempts, capacity 1, 1 switch, symmetric, one cancellation at a time (`OneCancellation`) | 1.9 M | capacity with two Attempts competing. `CapacityKept` speaks of the first process (`FirstStart`), and one is what this run starts: a later one takes over what an earlier one acknowledged, as Core decides. |
| `transport_recovery` | one cancellable loop, claim loop, probe; 1 policy change, 2 losses, 1 cancellation | 0.11 M | locks, flag and incidents. Two losses are a connection that fails and a probe or a rediscovery that fails after it; one cancellation cuts any of them short. By hand, safety only, also with a second loop (1.9 M states) and with two policy changes (1.4 M). |
| `websocket` | 2 tasks, 2 requests of 1 or 2 answers, 2 pushes on one queue, one gives up | 0.8 M | the handshake, correlation and queues. With both queues, from `runtime.ready` on: 5.3 M states, passes. |
| `lifecycle` | an Attempt of an earlier process and a new one, capacity 1, 1 loss | 0.50 M | safety and termination of the end. The new Attempt is the one that is offered, refused or started late while the other, resumed or in the spool, is finishing. By hand, safety only, also with a first Attempt that may be new too (0.77 M states), passes. |
| `credentials` | 2 requests, 1 certificate that grows old, 1 failure, 1 cancellation, 2 starts | 0.27 M | order of the files, renewal and repair. Two requests are what it takes to replace a client under one another; the second start loads what a crash left. By hand also with one request and one WebSocket connect, either of which may be cancelled (0.23 M states), passes. |
| `context` | the handler and one task of its own | 24 k | Events after the end, and that everyone is released. The second user is the one that outlives the handler. |
| `registration` | 2 processes, 4 tokens, 4 calls, symmetric | 0.13 M | records of one piece and one Agent. Four calls let a registration be lost, made again, rotated and read. |
| `switch`, `switch_ends`, `client_reopens` | | | the findings below |

The bounds are CONSTANTS and are named where they are declared; they only cap counters that Core or
the user could raise without end (answers lost, policy changes, Events, starts).

### Fairness

- RuntimeWorker: the event loop runs every task that can run, and Core answers a call: weak fairness
  of the steps of claim, flush, resume, of storing a Result, finalizing and cancelling. No handler has
  to return, no claim has to succeed, no process has to start.
- TransportRecovery: weak fairness of answers, because every call has a timeout (20 s on the WebSocket,
  the HTTP client's own). Strong fairness of getting a lock, because `asyncio.Lock` is FIFO: a waiter is
  passed over only while the lock is held.
- RuntimeCredentials: strong fairness of a task's steps, because `asyncio.Lock` is FIFO and a loop goes on
  after a failure; weak fairness of the writing threads and of the start. Nothing is assumed of the
  server but that it answers or fails, `MaxFailures` times without a reason.
- HandlerContext: weak fairness of waking a waiting user, of reaping what it cancelled, and of the calls
  that nobody waits for, whose requests end by the HTTP client's timeout. No handler has to return and
  no call that is waited for has to be answered.
- Lifecycle: weak fairness of a start once the worker is told to stop (its retries end then), of the
  shutdown's steps (each has a timeout), of a flush visit, of a cancelled or revoked handler ending and of the
  drain's timeout and return. A handler that swallows its cancellation can hang a shutdown; Python
  gives the worker no means against that, and the model assumes it away. Nothing is assumed of a
  handler that is not cancelled, of a claim, of a drain answer or of the user.

### Findings

Each is a disagreement between what the repository says and what the code does, shown by a run that must
end in a violation.

1. `switch` (`SwitchKeepsWorker`): a transport switch that meets an acknowledgement under way ends the
   worker with a fatal error, in three ways. The assignment ACK is awaited without the switch lock
   (worker.py:871); a switch meanwhile resumes the same record, confirms and starts it, and the late ACK
   then advances a started record, which the store refuses. A resume reports a finished record while its
   upload is in flight; the upload completes, Core answers `result_already_acked`, and there is no Result
   to acknowledge (worker.py:1686). An ACK of an assignment that long polling delivered is repeated on
   the WebSocket and has no delivery message to reply to (transport.py:830).
2. `switch_ends` (`SwitchEnds`): a switch to long polling that meets the policy signal closes the HTTP
   transport it could not attach (worker.py:1755), which stays `_http_transport`. A loop that waits for the
   switch lock gets it before the rediscovery does and attaches the closed transport; the client refuses,
   `_attach_session` takes that for a passing failure and retries for ever with the lock held, and the
   rediscovery waits for the lock (worker.py:2109) until the worker is stopped.
3. `client_reopens` (`ClientReopens`): a request that is cancelled while it closes the shared HTTP client
   leaves the closed client in place; every later request fails (transport.py:619).

Seen while modelling, and in the models as the code does it, without a run of their own:

- Records are removed when the lease lapses by the local clock, on a cancellation and on a revocation too,
  where the SDK's README (line 256) speaks of the business ACK only.
- A lease renewal that is cancelled in the middle of a rediscovery leaves the raised revision; an
  operation that joined it ends the worker with "policy signal persisted after one canonical
  rediscovery" when there was none (worker.py:2021, 2040).
- A WebSocket request that timed out or was cancelled is forgotten; its late answer is an "unexpected
  Runtime push", a protocol error, which is fatal (transport.py:1035, 962). The requests that wait then are
  woken; one made after the reader ended so waits for its timeout, because the socket is still open.
- `connect` closes its socket when the handshake fails, but not when the hello cannot be sent or when it is
  cancelled (transport.py:746, 758); `_connect_websocket_with_retry` closes it then, `_setup_transport`
  in the mode auto does not.
- While a renewal is due and the credential endpoint fails, every request fails, although the certificate
  is still valid (transport.py:609). A crash or failed write after the JSON file and before the
  certificate leaves the older certificate in use, with a JSON that knows of the newer one, until the
  next renewal. Concurrent TLS failures are each issued a certificate and close each other's client.
- A handler that ignores its cancellation goes on beyond the capacity, since its Attempt leaves `_active`
  (worker.py:1013). An interrupted `call_agent` leaves its task until the deadline or the end of the Attempt.
- A crash between the final state of a record and its deletion leaves a terminal record; Core deciding
  `continue_execution` on it is an error (worker.py:1651).
- A cancellation ACK on a WebSocket that did not deliver the command is refused by the transport; the
  worker takes this as a failed best effort and the Attempt stays until its lease or a revocation ends it.
- `ensure_agent` returns a token that was given to it together with the stored token's id; a record with a
  token and no Agent is returned as it is, unregistered; a rotation does not revoke the old token; a
  process that dies between the platform's answer and the save loses the token, or leaves an Agent
  behind; two first registrations at a time make two Agents; `validate_only` looks at the first 50 tokens.
  `OneAgentIsKept` therefore speaks of calls that do not overlap.

## The proofs

`RuntimeStoreProofs` proves, from `RuntimeStoreAssumption` alone (the bounds are naturals; the set of
Attempts is any set), for every run of the store:

| Theorem | Says |
|---|---|
| `InvariantHolds` | the inductive invariant |
| `TypeCorrect` | `TypeOK` |
| `RecoveryAccepts` | `RecoveryNeverRefuses`: no sequence of crashes and failing writes leaves a directory the next open refuses |
| `Durability` | `ReturnedMeansDurable` |
| `SpoolSafety` | `SpoolOutlivesAttempt` |
| `EpochsAreFresh` | `EpochNeverReused` |
| `JournalOrder` | `JournalFollowsTransitions`: what a step puts on disk is a transition the Runtime allows |
| `AcksAreKept` | `AcksNeverLost` |

The argument. `RecoveryNeverRefuses` is not inductive: it speaks of `status`, while the refusal is
decided by what is on disk. The strengthening has four parts.
`DiskOK` says what a crash may leave: each record with its files is `WellFormed`, that is, settled or
exactly one file step away from it (an Event that is not counted, a Result the journal does not know,
a terminal record with part of its spool). `OthersAgree` and `OthersSettled` say that every Attempt but
the one of the running operation has memory equal to disk and needs no repair. `CurrentOK` says, label
by label of `pc`, how far the running operation is from its files. `PhaseOK` ties labels, phases and
poisoning together. One lemma per action shows that it keeps each conjunct; the action properties follow
from the invariant by one more case analysis, and the temporal theorems are a last step with PTL.
TLC checked the invariant before it was proved.
The last two theorems compare the record on disk before a step with the one after it, and the step that
writes only copies what the operation prepared before. So `JournalInv` is carried from the one to the
other: a record that waits to be written is one `StateEdge` and one `AckEdge` ahead of the one on disk,
and the records on disk are `Normal` (the watermark does not stand before a number it could pass).

`LifecycleProofs` proves, from `LifecycleAssumption` alone, for every set of Attempts, of records an
earlier process left, capacity and number of lost answers:

| Theorem | Says |
|---|---|
| `InvariantHolds` | the inductive invariant |
| `TypeCorrect` | `TypeOK` |
| `DrainLeavesNothing` | `DrainedIsEmpty`: what `drain` promises when it returns |
| `NobodyIsLeft` | `NobodyAfterClose`: no loop or handler is left on a closed store |
| `GraceIsGiven` | `HandlersGetTheirTime` |

The argument. `DrainedIsEmpty` speaks of the last label of a drain, where nothing it asked is asked
again; that the worker stays empty has to be carried from the first request to the end. `Evidence`
says what is known at each label: once the drain has had the switch lock no claim polls any more;
once it was answered Core offers nothing more; the second request is made only after the store was
seen empty. `Held` ties the lock to its holder and an answer to its assignment, so that no assignment
is on its way to the store unseen. `Ended` says what the last phases of a shutdown have behind them.
`Grace` says that the handlers that ran at the stop are among those the shutdown waits for, and that
without a fatal error the worker cancels and forces nothing before their time is over. `StepInvariant` has
one step per action; the three actions that split further (the drain's check, the cancellation of the
loops, the end of a loop) have lemmas of their own, and `KilledBy` names the only steps that end a
handler without its Result.

`HandlerContextProofs` proves from `ContextAssumption`, for every set of tasks:

| Theorem | Says |
|---|---|
| `InvariantHolds` | the inductive invariant |
| `EmitIsSafe` | `EventsFindTheirRecord` |

The argument. That no Event was refused says nothing of the next one. What keeps it so is an order
between the worker and the context: the context is closed before a Result is stored (`ReturnCloses`), and
a record without Result is deleted only of an Attempt whose cancellation is set (`RecordCloses`). So the
states in which the store refuses are states in which `Open` is false.

`RegistrationProofs` proves from `RegistrationAssumption`, for every set of processes and every number of
tokens and calls:

| Theorem | Says |
|---|---|
| `InvariantHolds` | the inductive invariant |
| `SavedIsWhole` | `StoredBelongsTogether` |
| `AgentIsKept` | `OneAgentIsKept` |

The argument. A process saves what another may have changed the meaning of. `PendingHasNoAgent` says
that a token gets its Agent once: registering a token that has one names that Agent again, so a saved
record cannot be broken by another process. `CallsMakeSense` says that what a call was made with is still
true when its answer comes: a rotation has an Agent, the token to register exists. `TokenCreated` and
`EndOfCall` are what all calls share, and one lemma per call does the rest.
`AgentIsKept` is about calls that do not overlap, which the history variable `disturbed` says. As long as it is false,
`OneAtATime` holds: there is one call, what it loaded is still what is stored, and a call that is about to make an
Agent without being forced to found no saved registration. So each call ends by returning the stored
Agent or by saving the first one (`AgentKept`).

`RuntimeWorkerProofs` proves from `RuntimeWorkerAssumption` (`NoAttempt` is not an Attempt; capacity and
bounds are naturals), for every set of Attempts, also an infinite one:

| Theorem | Says |
|---|---|
| `InvariantHolds` | the inductive invariant |
| `TypesHold` | `TypeOK` |
| `HandlersRunOnce` | `RunsAtMostOnce` |
| `EventsComeFirst` | `EventsBeforeResult` |
| `ActiveRecords` | `ActiveHasRecord` |
| `ReportsAreExpected` | `ReportsFindTheirRecord`: not of a late assignment ACK or resume decision (finding 1) |
| `TerminalAttempts` | `TerminalStaysTerminal` |
| `CapacityIsKept` | `CapacityKept` |
| `ImplementsDelivery` | `DeliversAttempts`: the worker implements `AttemptDelivery` |

The argument. That a handler has run is nowhere in the journal once the record is gone; that it does not
run again has to be known of everything that could start it. `RecordOK` ties the journal to Core and to
the number of starts (a confirmed record has not run, a started one has, Core has a Result only of one that
ran). `SpentOK` is about an Attempt that ran and whose record is gone: either Core takes nothing more of
it, or this process remembers it as terminal or is another one, and no acknowledgement and no decision
under way would start it. `LocalOK` ties what the process remembers to its record. `ClaimOK`,
`FlushOK` and `ResumeOK` say what each call under way knows of Core, and hold because Core does not take a
decision back (`Ahead`, with its lemmas). A crash is covered by `DownIsEmpty`. There is one lemma per action.

The refinement rests on that invariant. `Effect(a)` says what a step does to one Attempt: nothing
(`Still`), one of Core's steps (`CoreStep`) or one of the worker's (`WorkerStep`); each action has a lemma
that shows its effect on every Attempt, and each effect is one abstract step or a stutter. A step that
touches several Attempts needs no more, because the abstract `Next` is a conjunction over them.

`CapacityKept` has an invariant of its own, `CapInv`, on top of the first: in the first process
(`First`) the only record on its way to a start is the one whose acknowledgement is under way, and while
it is, a slot is free (`CapacityOfFirst`). Most actions are `Quiet`: they start nothing.

`RuntimeCredentialsProofs` proves from `CredentialsAssumption` (the tasks are different, the bounds are
naturals), for every set of requests and connects:

| Theorem | Says |
|---|---|
| `InvariantHolds` | the inductive invariant |
| `TypeCorrect` | `TypeOK` |
| `ResendsRenewed` | `ResentWithRenewed` |
| `JsonKnowsTheCertificate` | `JsonIsNewest` |

The argument. Both properties compare files that a thread writes one at a time, while the task that
started it may be gone. `Holds` ties the lock to the one task that posts or waits for its thread,
`Newest` says that what it writes is the newest certificate, and `Threads`, as long as no renewal was
cancelled (`orphaned`), that there is one thread, that somebody waits for it, and that its count is what
it wrote, the JSON first. `OnDisk` carries this past the end of the thread: whoever waited for it finds
its certificate on disk. After a cancelled renewal an older thread may write over a newer one; the
properties except that state.

`TransportRecoveryProofs` proves from `TasksAssumption` (the claim loop, the probe and the other loops are
different tasks), for every set of loops:

| Theorem | Says |
|---|---|
| `InvariantHolds` | the inductive invariant |
| `TypeCorrect` | `TypeOK` |
| `ClaimsAreAnsweredInPlace` | `ClaimsOnCurrent` |
| `FlagIsOwned` | `FlagHasOwner` |
| `RediscoversWhenNeeded` | `RediscoversOnlyOutdated`, with its exception of an abandoned rediscovery |

The argument. `Locked` and `Places` say which task is where and which lock is held there; the first two
properties follow from them. `RediscoversOnlyOutdated` is about a comparison of revisions,
where what is meant is a comparison of transports. `Signals` ties the two: a signal under the
present revision was met on a transport no older than the one in use, and nobody has observed the
revision of a rediscovery that is not finished. That needs to know that neither the probe nor a switch to long
polling puts an older transport back: `Transported` and `Policies` order the policies of the transports in
use, of the HTTP transport, of the one a rediscovery has taken out and of the address. Where a cancelled
rediscovery has broken that order it is `Abandoned`, and stays so until the next one.

`WebSocketTransportProofs` proves from `SizesAssumption` (a resume has at least one Attempt, the bounds are naturals),
for every set of tasks and either or both queues:

| Theorem | Says |
|---|---|
| `InvariantHolds` | the inductive invariant |
| `TypeCorrect` | `TypeOK` |
| `RequestsAreAnsweredInFull` | `AnsweredInFull` |
| `PushesAreKept` | `NothingTakenIsLost` |
| `EveryRequestIsWoken` | `EndWakesEveryRequest`: every request made before the end, however it came |

The argument. What Core sent is one sequence of many streams, the answers to each request and the pushes of each
queue. `Numbers` are the numbers of a stream in a sequence, `Ordered` says that they come in order, `GoesOn`
that they leave no gap after a first one; lemmas say what appending, taking the head and cutting (a lost
connection) do to them. `Asking` says of each request that waits that what it got, what is in its queue
and what is on its way are 1, 2, ... without a gap, and of one that waits to be sent that Core has not
heard of it. `Pushes` says the same of what was delivered, what a poll holds, what is in the queue and what is
on its way. While nothing is lost (`Lossless`) the streams reach to where Core is. `Owned` gives each request one
task, so that a request which is given up takes nothing of another. `Woken` puts the sentinel at the end of
every queue that somebody waits on after the end, but those of requests made after an end by a protocol error.

TLC has checked each of these invariants too, on the instance of its component's run.

### Only model-checked

`Settles`, `EndReleases`, `StopEnds`, `DrainEnds`, `ClientRepaired`, `TerminalEndsWorker` and `Unblocked`:
liveness under fairness, which needs ENABLED and is out of the prover's reach. So is
induction over data: no theorem says what a recursive definition computes, and no module that is proved about
has a recursive operator.

## Plan

Done: the models of every part named above, the proofs of all their invariants and action
properties, and the refinement of AttemptDelivery.

Theorems that could follow: that the store implements an abstract journal with atomic
operations, on which RuntimeWorker rests, and that a resume of RuntimeWorker and one of
WebSocketTransport agree on whose answers they wait for.

Left to model: the Event stream of the platform client, the correlation of cancellation ACKs, a switch or
probe that a shutdown cancels (Lifecycle with TransportRecovery), the modes `ws` and `pull`.

## Not modelled

Wire formats, validation of fields, encryption, file permissions, logging, metrics and wording. Durations:
a timeout is an event that may come. The platform client, the A2A client, webhook signatures and types keep
no state between calls: their correctness is that of encodings, which tests reach. Byte limits of the store
(the record limit is modelled). The process lock of the data directory: one worker process at a time is
assumed. Threads: the store's lock makes its operations atomic. The binding of a credential to its node and
Agent, which does not change, and the parsing of an `.env` file.

Left out although they have state: a failed probe attaches the old transport again, so a poll in flight gets
a protocol error if Core answers it late (in TransportRecovery, without a property); the WebSocket compares
the whole hello, capacity included, between connect and attach; a switch or probe cancelled by a shutdown
does not close its new WebSocket; a handler that starts after the shutdown listed the handlers gets no time of its own, and its record
stays `started`.
