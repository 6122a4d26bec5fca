----------------------------- MODULE Lifecycle -----------------------------
(***************************************************************************)
(* How a worker ends (runtime/worker.py): run, stop, drain and _shutdown,  *)
(* with the claim loop, the spool loop and the handlers they have to come  *)
(* to terms with.                                                          *)
(*                                                                         *)
(* An Attempt is followed only as far as the end of the worker asks: a     *)
(* record in the store, a handler that runs, a Result that is durable.     *)
(* RuntimeWorker has the rest of its life.  The transport does not change  *)
(* (TransportRecovery); an answer may be lost.                             *)
(***************************************************************************)
EXTENDS Naturals, FiniteSets

CONSTANTS
  Attempts,
  Kept,         \* Attempts of an earlier process, which may have left them in the store
  NoAttempt,
  Capacity,
  MaxLosses     \* answers that are lost

ASSUME LifecycleAssumption ==
  /\ NoAttempt \notin Attempts /\ Kept \subseteq Attempts
  /\ Capacity \in Nat \ {0} /\ MaxLosses \in Nat

VARIABLES
  phase,        \* how far run() is
  stopping,     \* _stopping
  owner,        \* _stop_owner
  draining,     \* _draining
  force,        \* _force_cancel
  fatal,        \* _fatal holds an error
  waitFor,      \* the handlers _shutdown waits for
  lock,         \* _claim_switch_lock: "free", "claim" or "drain"
  claim,        \* the claim loop
  flush,        \* the Attempts a flush of the spool still has to visit
  spooling,     \* the spool loop runs
  att,          \* each Attempt (below)
  cancelled,    \* Attempts whose handler the worker told to end, until it has ended
  drain,        \* the drain task
  core,         \* Core: Attempts in flight
  fenced,       \* Core: a drain was requested
  atStop,       \* observed only: handlers that ran when the stop was requested
  losses

stop == <<stopping, owner, draining, atStop>>
end == <<phase, waitFor>>
loops == <<claim, flush, spooling>>
handlers == <<att, cancelled>>
coreState == <<core, fenced>>
vars == <<stop, end, force, fatal, lock, loops, handlers, drain, coreState, losses>>

\* An Attempt is offered, its record made and the offer answered; then it has a slot while it
\* is "running", is told by Core to end ("canceling"), has its Result "stored", or ended
\* without one ("killed").  Revocation takes record and slot at once, whether the handler
\* has ended or not ("revoked").  Without a slot a record is "left", or "spooled" when an
\* earlier process stored the Result.
AttemptStates ==
  {"none", "offered", "acking", "rejecting", "running", "canceling", "stored", "killed",
   "revoked", "left", "spooled", "gone"}

Running == {a \in Attempts : att[a] = "running"}
\* The tasks of handlers that have not ended.
Handlers == {a \in Attempts : att[a] \in {"running", "canceling", "revoked"}}
\* _active: a handler that ran stays until its Result is acknowledged.
Active == {a \in Attempts : att[a] \in {"running", "canceling", "stored", "killed"}}
Records == {a \in Attempts : att[a] \notin {"none", "offered", "revoked", "gone"}}

Claiming(pc, a) == [pc |-> pc, attempt |-> a]
Draining(pc) == [pc |-> pc, again |-> FALSE, told |-> FALSE]

Init ==
  /\ phase = "starting" /\ stopping = FALSE /\ owner = "none" /\ draining = FALSE
  /\ force = FALSE /\ fatal = FALSE /\ waitFor = {} /\ lock = "free"
  /\ claim = Claiming("off", NoAttempt) /\ flush = {} /\ spooling = FALSE
  /\ att \in [Attempts -> {"none", "left", "spooled", "gone"}] /\ cancelled = {}
  /\ {a \in Attempts : att[a] # "none"} = Kept
  /\ drain = Draining("off") /\ core \in SUBSET Records /\ fenced = FALSE
  /\ atStop = {} /\ losses = 0

Lose == losses < MaxLosses /\ losses' = losses + 1

\* _request_stop: the first to ask owns the stop.
RequestStop(who) ==
  /\ stopping' = TRUE /\ draining' = TRUE
  /\ owner' = IF stopping THEN owner ELSE who
  /\ atStop' = IF stopping THEN atStop ELSE Running

\* The tasks in _background have not been cancelled yet.
LoopsRun == phase \in {"running", "heartbeat", "grace", "killing"}

-----------------------------------------------------------------------------
(* The start and the loops *)

\* The store or the transport cannot be had, on_ready or the resume raises, or the worker
\* was stopped meanwhile.
StartFails ==
  /\ phase \in {"starting", "resuming"} /\ phase' = "heartbeat"
  /\ RequestStop("lifecycle")
  /\ UNCHANGED <<waitFor, force, fatal, lock, loops, handlers, drain, coreState, losses>>

\* The Session is attached: _ready is set.
StartAttaches ==
  /\ phase = "starting" /\ phase' = "resuming"
  /\ UNCHANGED <<stop, waitFor, force, fatal, lock, loops, handlers, drain, coreState, losses>>

\* Core lets an Attempt go on that had not been started: its handler starts before any loop.
\* (What Core lets upload only stays as it is; what it revoked or had is Revoked below.)
ResumeContinues(a) ==
  /\ phase = "resuming" /\ att[a] = "left" /\ a \in core
  /\ att' = [att EXCEPT ![a] = "running"]
  /\ UNCHANGED <<stop, end, force, fatal, lock, loops, cancelled, drain, coreState, losses>>

StartEnds ==
  /\ phase = "resuming" /\ phase' = "running"
  /\ claim' = Claiming("idle", NoAttempt) /\ spooling' = TRUE
  /\ UNCHANGED <<stop, waitFor, force, fatal, lock, flush, handlers, drain, coreState, losses>>

\* The capacity is looked at once, before the claim waits for the lock.
ClaimStarts ==
  /\ LoopsRun /\ claim.pc = "idle" /\ ~stopping
  /\ ~draining /\ Cardinality(Active) < Capacity
  /\ claim' = Claiming("waiting", NoAttempt)
  /\ UNCHANGED <<stop, end, force, fatal, lock, flush, spooling, handlers, drain, coreState, losses>>

ClaimLocks ==
  /\ LoopsRun /\ claim.pc = "waiting" /\ lock = "free"
  /\ lock' = "claim" /\ claim' = Claiming("polling", NoAttempt)
  /\ UNCHANGED <<stop, end, force, fatal, flush, spooling, handlers, drain, coreState, losses>>

\* Core offers an Attempt: a poll may return it, a WebSocket queues it until somebody polls.
CoreOffers(a) ==
  /\ LoopsRun /\ ~fenced /\ att[a] = "none"
  /\ att' = [att EXCEPT ![a] = "offered"] /\ core' = core \union {a}
  /\ UNCHANGED <<stop, end, force, fatal, lock, loops, cancelled, drain, fenced, losses>>

\* An offer or a lease ends at Core, or Core takes a Result and its answer is lost.
CoreForgets(a) ==
  /\ a \in core /\ Lose
  /\ core' = core \ {a}
  /\ UNCHANGED <<stop, end, force, fatal, lock, loops, handlers, drain, fenced>>

\* The command runtime.drain: nothing more is accepted, and the worker goes on.
DrainCommanded ==
  /\ LoopsRun /\ ~draining
  /\ draining' = TRUE
  /\ UNCHANGED <<stopping, owner, atStop, end, force, fatal, lock, loops, handlers, drain, coreState, losses>>

\* What was offered is rejected when there is no capacity for it by now.
ClaimReturns(a) ==
  LET answer == IF draining \/ Cardinality(Active) >= Capacity THEN "rejecting" ELSE "acking"
  IN /\ LoopsRun /\ claim.pc = "polling" /\ att[a] = "offered"
     /\ att' = [att EXCEPT ![a] = answer] /\ claim' = Claiming(answer, a)
     /\ lock' = "free"
     /\ UNCHANGED <<stop, end, force, fatal, flush, spooling, cancelled, drain, coreState, losses>>

\* The long poll ends with nothing, or the call fails.
ClaimEmpty ==
  /\ LoopsRun /\ claim.pc = "polling"
  /\ claim' = Claiming("idle", NoAttempt) /\ lock' = "free"
  /\ UNCHANGED <<stop, end, force, fatal, flush, spooling, handlers, drain, coreState, losses>>

\* The assignment ACK is confirmed: the handler starts, whatever was decided meanwhile.
AckConfirmed ==
  /\ LoopsRun /\ claim.pc = "acking" /\ claim.attempt \in core
  /\ att' = [att EXCEPT ![claim.attempt] = "running"]
  /\ claim' = Claiming("idle", NoAttempt)
  /\ UNCHANGED <<stop, end, force, fatal, lock, flush, spooling, cancelled, drain, coreState, losses>>

\* The rejection is answered, or Core says the Attempt is not ours any more.
AssignmentEnds ==
  /\ LoopsRun /\ claim.pc \in {"acking", "rejecting"}
  /\ att' = [att EXCEPT ![claim.attempt] = "gone"] /\ core' = core \ {claim.attempt}
  /\ claim' = Claiming("idle", NoAttempt)
  /\ UNCHANGED <<stop, end, force, fatal, lock, flush, spooling, cancelled, drain, fenced, losses>>

\* _retry_call does not try again once the worker stops; the record stays.
AnswerLost ==
  /\ LoopsRun /\ claim.pc \in {"acking", "rejecting"} /\ stopping /\ Lose
  /\ att' = [att EXCEPT ![claim.attempt] = "left"]
  /\ claim' = Claiming("off", NoAttempt)
  /\ UNCHANGED <<stop, end, force, fatal, lock, flush, spooling, cancelled, drain, coreState>>

LoopsEnd ==
  /\ LoopsRun /\ stopping
  /\ \/ claim.pc = "idle" /\ claim' = Claiming("off", NoAttempt) /\ UNCHANGED spooling
     \/ spooling /\ flush = {} /\ spooling' = FALSE /\ UNCHANGED claim
  /\ UNCHANGED <<stop, end, force, fatal, lock, flush, handlers, drain, coreState, losses>>

-----------------------------------------------------------------------------
(* Handlers, Results and Core *)

\* A handler that ends in time stores its Result; one that was cancelled stores none.
HandlerEnds(a) ==
  /\ phase \notin {"flush", "closed"} /\ att[a] = "running" /\ a \notin cancelled
  /\ att' = [att EXCEPT ![a] = IF force THEN "killed" ELSE "stored"]
  /\ UNCHANGED <<stop, end, force, fatal, lock, loops, cancelled, drain, coreState, losses>>

HandlerCancelled(a) ==
  /\ att[a] \in {"canceling", "revoked"} \/ a \in Running \intersect cancelled
  /\ att' = [att EXCEPT ![a] = IF @ = "revoked" THEN "gone" ELSE "killed"]
  /\ cancelled' = cancelled \ {a}
  /\ UNCHANGED <<stop, end, force, fatal, lock, loops, drain, coreState, losses>>

\* run.cancel: the handler is cancelled and waited for, and nothing of it is uploaded.
CancelCommanded(a) ==
  /\ LoopsRun /\ att[a] \in {"running", "stored"}
  /\ att' = [att EXCEPT ![a] = IF @ = "running" THEN "canceling" ELSE "killed"]
  /\ cancelled' = cancelled \ {a}
  /\ UNCHANGED <<stop, end, force, fatal, lock, loops, drain, coreState, losses>>

FlushStarts ==
  /\ LoopsRun /\ spooling /\ ~stopping /\ flush = {} /\ Records # {}
  /\ flush' = Records
  /\ UNCHANGED <<stop, end, force, fatal, lock, claim, spooling, handlers, drain, coreState, losses>>

\* A Result is uploaded and acknowledged, and its record deleted; one of an earlier process
\* only if Core allowed it.
FlushVisits(a) ==
  /\ a \in flush /\ flush' = flush \ {a}
  /\ \/ /\ att[a] \in {"stored", "spooled"}
        /\ att' = [att EXCEPT ![a] = "gone"] /\ core' = core \ {a}
     \/ att[a] # "stored" /\ UNCHANGED <<att, core>>
  /\ UNCHANGED <<stop, end, force, fatal, lock, claim, spooling, cancelled, drain, fenced, losses>>

FlushFails ==
  /\ flush # {} /\ Lose
  /\ flush' = {}
  /\ UNCHANGED <<stop, end, force, fatal, lock, claim, spooling, handlers, drain, coreState>>

\* Core took the Attempt away, has its Result, or has the "stopped" of a cancellation, or the
\* lease ran out: record and slot are gone at once.  A handler that still runs was
\* cancelled, and nobody waits for it.
Revoked(a) ==
  /\ LoopsRun \/ phase = "resuming"
  /\ att[a] \in {"running", "canceling", "stored", "killed", "left", "spooled"}
  /\ att' = [att EXCEPT ![a] = IF a \in Handlers THEN "revoked" ELSE "gone"]
  /\ core' = core \ {a} /\ cancelled' = cancelled \ {a}
  /\ UNCHANGED <<stop, end, force, fatal, lock, loops, drain, fenced, losses>>

-----------------------------------------------------------------------------
(* stop, a fatal error, _shutdown *)

StopCalled ==
  /\ phase \in {"starting", "resuming", "running"} /\ ~stopping
  /\ RequestStop("external")
  /\ UNCHANGED <<end, force, fatal, lock, loops, handlers, drain, coreState, losses>>

\* _report_fatal, by any loop, or by the lease renewal of an Attempt that was resumed.
Fatal ==
  /\ LoopsRun \/ (phase = "resuming" /\ Active # {})
  /\ ~fatal
  /\ fatal' = TRUE /\ force' = TRUE
  /\ RequestStop("fatal")
  /\ cancelled' = cancelled \union Running
  /\ UNCHANGED <<end, lock, loops, att, drain, coreState, losses>>

ShutdownStarts ==
  /\ phase = "running" /\ stopping
  /\ phase' = "heartbeat"
  /\ UNCHANGED <<stop, waitFor, force, fatal, lock, loops, handlers, drain, coreState, losses>>

\* The last heartbeat was answered or not; the handlers of that moment are given time.
GraceStarts ==
  /\ phase = "heartbeat" /\ phase' = "grace"
  /\ waitFor' = Handlers \intersect Active
  /\ UNCHANGED <<stop, force, fatal, lock, loops, handlers, drain, coreState, losses>>

\* Mutant: the time of the handlers is not waited for.
GraceEndsAtOnce ==
  /\ phase = "grace"
  /\ force' = TRUE /\ phase' = "cancelled" /\ waitFor' = {}
  /\ UNCHANGED <<stop, fatal, lock, loops, handlers, drain, coreState, losses>>

GraceEnds ==
  /\ phase \in {"grace", "killing"} /\ waitFor \intersect Handlers = {}
  /\ force' = TRUE /\ phase' = "cancelled" /\ waitFor' = {}
  /\ UNCHANGED <<stop, fatal, lock, loops, handlers, drain, coreState, losses>>

\* Mutant: the handlers learn of the end when their time is over, but are not cancelled.
GraceTimesOutGently ==
  /\ phase = "grace" /\ waitFor \intersect Handlers # {}
  /\ force' = TRUE /\ phase' = "killing"
  /\ UNCHANGED <<stop, waitFor, fatal, lock, loops, handlers, drain, coreState, losses>>

GraceTimesOut ==
  /\ phase = "grace" /\ waitFor \intersect Handlers # {}
  /\ force' = TRUE /\ phase' = "killing"
  /\ cancelled' = cancelled \union Running
  /\ UNCHANGED <<stop, waitFor, fatal, lock, loops, att, drain, coreState, losses>>

\* Mutant: the cancelled tasks are not waited for.
LoopsCancelledUnawaited ==
  /\ phase = "cancelled"
  /\ spooling' = FALSE /\ flush' = Records
  /\ cancelled' = cancelled \union Running
  /\ phase' = "flush"
  /\ UNCHANGED <<stop, waitFor, force, fatal, lock, claim, att, drain, coreState, losses>>

\* Every task of _background is cancelled where it waits and waited for; then the spool is
\* flushed once more.
LoopsCancelled ==
  /\ phase = "cancelled"
  /\ claim' = Claiming("off", NoAttempt) /\ spooling' = FALSE /\ flush' = Records
  /\ lock' = IF lock = "claim" THEN "free" ELSE lock
  /\ att' = [a \in Attempts |-> CASE a = claim.attempt -> "left"
                                  [] att[a] \in {"running", "canceling"} -> "killed"
                                  [] att[a] = "revoked" -> "gone"
                                  [] OTHER -> att[a]]
  /\ cancelled' = {}
  /\ phase' = "flush"
  /\ UNCHANGED <<stop, waitFor, force, fatal, drain, coreState, losses>>

\* The Session is closed, then the transports, then the store.
ShutdownEnds ==
  /\ phase = "flush" /\ flush = {}
  /\ phase' = "closed"
  /\ UNCHANGED <<stop, waitFor, force, fatal, lock, loops, handlers, drain, coreState, losses>>

-----------------------------------------------------------------------------
(* drain *)

DrainCalled ==
  /\ drain.pc = "off" /\ phase # "closed"
  /\ draining' = TRUE
  /\ drain' = [drain EXCEPT !.pc = "request"]
  /\ UNCHANGED <<stopping, owner, atStop, end, force, fatal, lock, loops, handlers, coreState, losses>>

\* The loop of _request_runtime_drain: it gives up when somebody else stops the worker.
DrainRequests ==
  /\ drain.pc = "request" /\ (stopping \/ phase # "starting")
  /\ drain' = IF stopping THEN Draining("stopped") ELSE [drain EXCEPT !.pc = "lock"]
  /\ UNCHANGED <<stop, end, force, fatal, lock, loops, handlers, coreState, losses>>

\* The lock is handed on in order, and a claim that waits for it came before the drain.
DrainLocks ==
  /\ drain.pc = "lock" /\ lock = "free" /\ claim.pc # "waiting"
  /\ lock' = "drain" /\ drain' = [drain EXCEPT !.pc = "calling"]
  /\ UNCHANGED <<stop, end, force, fatal, loops, handlers, coreState, losses>>

\* Core offers nothing from here on, and says whether anything is in flight.
DrainAnswered ==
  /\ drain.pc = "calling" /\ ~stopping
  /\ fenced' = TRUE /\ lock' = "free"
  /\ LET told == core # {} IN
       drain' = [drain EXCEPT !.told = told,
                              !.pc = IF drain.again /\ ~told THEN "proof" ELSE "check",
                              !.again = FALSE]
  /\ UNCHANGED <<stop, end, force, fatal, loops, handlers, core, losses>>

DrainCallFails ==
  /\ drain.pc = "calling"
  /\ \/ stopping /\ drain' = Draining("stopped") /\ UNCHANGED losses
     \/ Lose /\ drain' = [drain EXCEPT !.pc = "request"]
  /\ lock' = "free"
  /\ UNCHANGED <<stop, end, force, fatal, loops, handlers, coreState>>

\* The call fails for good: so does the drain, and the worker stops.
DrainFails ==
  /\ drain.pc = "calling" /\ ~stopping /\ Lose
  /\ drain' = Draining("failed") /\ lock' = "free"
  /\ RequestStop("drain_failure")
  /\ UNCHANGED <<end, force, fatal, loops, handlers, coreState>>

\* Mutant: only what runs is waited for.
DrainChecksActive ==
  /\ drain.pc = "check"
  /\ IF Running = {}
       THEN drain' = IF drain.told THEN [drain EXCEPT !.pc = "request", !.again = TRUE]
                     ELSE [drain EXCEPT !.pc = "proof"]
       ELSE stopping /\ drain' = Draining("stopped")
  /\ UNCHANGED <<stop, end, force, fatal, lock, loops, handlers, coreState, losses>>

\* The store is empty and nothing is active; Core is asked again when it knew more.
DrainChecks ==
  /\ drain.pc = "check"
  /\ IF Records = {} /\ Active = {}
       THEN drain' = IF drain.told THEN [drain EXCEPT !.pc = "request", !.again = TRUE]
                     ELSE [drain EXCEPT !.pc = "proof"]
       ELSE stopping /\ drain' = Draining("stopped")
  /\ UNCHANGED <<stop, end, force, fatal, lock, loops, handlers, coreState, losses>>

\* The drain stops the worker, unless somebody else did while it had its evidence.
DrainStops ==
  /\ drain.pc = "proof"
  /\ RequestStop("drain")
  /\ drain' = [drain EXCEPT !.pc = IF stopping THEN "stopped" ELSE "closing"]
  /\ UNCHANGED <<end, force, fatal, lock, loops, handlers, coreState, losses>>

DrainReturns ==
  /\ drain.pc = "closing" /\ phase = "closed"
  /\ drain' = [drain EXCEPT !.pc = "drained"]
  /\ UNCHANGED <<stop, end, force, fatal, lock, loops, handlers, coreState, losses>>

\* Mutant: only the calls have a timeout.
DrainCallTimesOut ==
  /\ drain.pc \in {"lock", "calling"}
  /\ drain' = Draining("failed")
  /\ lock' = IF lock = "drain" THEN "free" ELSE lock
  /\ RequestStop("drain_failure")
  /\ UNCHANGED <<end, force, fatal, loops, handlers, coreState, losses>>

\* Mutant: a drain that is cancelled in its call keeps the lock.
DrainTimesOutLocked ==
  /\ drain.pc \in {"request", "lock", "calling", "check", "proof", "closing"}
  /\ drain' = Draining("failed")
  /\ RequestStop("drain_failure")
  /\ UNCHANGED <<end, force, fatal, lock, loops, handlers, coreState, losses>>

\* The timeout of the whole drain: it fails, and the worker stops all the same.
DrainTimesOut ==
  /\ drain.pc \in {"request", "lock", "calling", "check", "proof", "closing"}
  /\ drain' = Draining("failed")
  /\ lock' = IF lock = "drain" THEN "free" ELSE lock
  /\ RequestStop("drain_failure")
  /\ UNCHANGED <<end, force, fatal, loops, handlers, coreState, losses>>

-----------------------------------------------------------------------------
ClaimStep ==
  \/ ClaimStarts \/ ClaimLocks \/ ClaimEmpty \/ AckConfirmed \/ AssignmentEnds \/ AnswerLost
  \/ \E a \in Attempts : ClaimReturns(a)

CoreStep ==
  \/ DrainCommanded
  \/ \E a \in Attempts : CoreOffers(a) \/ CoreForgets(a)

HandlerStep == \E a \in Attempts : HandlerEnds(a) \/ CancelCommanded(a) \/ Revoked(a)

StartStep ==
  \/ StartAttaches \/ StartEnds \/ StartFails
  \/ \E a \in Attempts : ResumeContinues(a)

SpoolStep ==
  \/ FlushStarts \/ FlushFails
  \/ \E a \in Attempts : FlushVisits(a)

ShutdownStep ==
  \/ ShutdownStarts \/ GraceStarts \/ GraceEnds \/ GraceTimesOut \/ LoopsCancelled \/ ShutdownEnds

DrainStep ==
  \/ DrainRequests \/ DrainLocks \/ DrainAnswered \/ DrainCallFails \/ DrainFails
  \/ DrainChecks \/ DrainStops \/ DrainReturns

Next ==
  \/ StartStep \/ CoreStep \/ ClaimStep \/ LoopsEnd \/ HandlerStep \/ SpoolStep
  \/ \E a \in Attempts : HandlerCancelled(a)
  \/ StopCalled \/ Fatal \/ ShutdownStep
  \/ DrainCalled \/ DrainStep \/ DrainTimesOut

Spec == Init /\ [][Next]_vars

\* A start ends when the worker is stopped, the shutdown and a flush go on; a handler that is
\* cancelled ends; a drain has a timeout.  No handler has to end by itself, no claim has to
\* return, and a start may be retried for ever.
FairSpec ==
  /\ Spec
  /\ WF_vars(stopping /\ StartStep)
  /\ WF_vars(ShutdownStep)
  /\ WF_vars(\E a \in Attempts : FlushVisits(a))
  /\ WF_vars(\E a \in Attempts : HandlerCancelled(a))
  /\ WF_vars(DrainTimesOut)
  /\ WF_vars(DrainReturns)

-----------------------------------------------------------------------------
(* Properties *)

TypeOK ==
  /\ phase \in {"starting", "resuming", "running", "heartbeat", "grace", "killing", "cancelled", "flush", "closed"}
  /\ {stopping, draining, force, fatal, spooling, fenced} \subseteq BOOLEAN
  /\ stopping <=> owner # "none"
  /\ stopping => draining
  /\ lock = "claim" <=> claim.pc = "polling"
  /\ lock = "drain" <=> drain.pc = "calling"
  /\ \A a \in Attempts :
       /\ att[a] \in AttemptStates
       /\ att[a] \in {"acking", "rejecting"} <=> claim.attempt = a
  /\ losses \in 0 .. MaxLosses

\* "exit only after Core and the durable spool are empty" (drain): a drain that succeeds was
\* the one to stop the worker, and no record, no slot and no Attempt of Core was left at that
\* moment, whatever was being claimed, uploaded, cancelled or revoked while it looked.  (The
\* handler of a revoked Attempt may still be at its cleanup: its slot was given up at once.)
DrainedIsEmpty ==
  drain.pc \in {"closing", "drained"} => owner = "drain" /\ Records \union Active = {} /\ core = {}

\* stop gives a handler that runs its time: only the end of that time, a fatal error or Core
\* ends it before it has stored its Result (test_graceful_stop_finishes_active_handler...).
HandlersGetTheirTime ==
  [][\A a \in atStop : att[a] = "running" /\ att'[a] = "killed" => phase = "killing" \/ fatal]_vars

\* When the store and the transports are closed nobody is left who uses them, not even the
\* handler of an Attempt that was revoked while the worker ended.
NobodyAfterClose ==
  phase = "closed" => claim.pc = "off" /\ Handlers = {} /\ flush = {} /\ lock # "claim"

\* A worker that is told to stop ends, whatever its handlers and its drain do.
StopEnds == stopping ~> phase = "closed"

\* A drain that was called returns, and the worker ends with it.
DrainEnds == drain.pc # "off" ~> drain.pc \in {"drained", "stopped", "failed"} /\ phase = "closed"
=============================================================================
