---------------------------- MODULE RuntimeWorker ----------------------------
(***************************************************************************)
(* The life of an attempt in a Runtime worker (runtime/worker.py): claimed,*)
(* acknowledged, executed, its Events and Result uploaded, or cancelled,   *)
(* revoked, expired, and resumed after a transport switch or a restart.    *)
(*                                                                         *)
(* The worker is a set of asyncio tasks: the claim loop, the spool loop,   *)
(* one handler and one lease renewal per active attempt, the tasks that    *)
(* cancel, and whichever loop switches the transport.  Code between two    *)
(* awaits is one action.  A call to Core is three: the task sends, Core    *)
(* answers, the task resumes; an answer may be lost, and a request that is *)
(* lost is one not answered yet, since the worker sends it again.  The     *)
(* store is atomic here except in a crash (RuntimeStore shows what that    *)
(* rests on) and, with Core, is all that survives one.  Core is external:  *)
(* it does what its answers in the contract and the tests show.            *)
(***************************************************************************)
EXTENDS Naturals, FiniteSets

CONSTANTS
  Attempts,
  NoAttempt,    \* model value: a task that works on no attempt
  Capacity,     \* capacity the worker offers
  MaxEvents,    \* bound: unacknowledged Events of an attempt
  MaxLosses,    \* bound: answers lost and leases expired
  MaxSwitches,  \* bound: transport switches
  MaxStarts     \* bound: starts of the worker process

ASSUME RuntimeWorkerAssumption ==
  /\ NoAttempt \notin Attempts
  /\ {Capacity, MaxEvents, MaxLosses, MaxSwitches, MaxStarts} \subseteq Nat

VARIABLES
  core,     \* Core's side of each attempt
  record,   \* state of the journal record, "absent" when there is none
  events,   \* number of Events in the spool that Core has not acknowledged
  local,    \* what the process keeps for each attempt
  claim,    \* the claim loop
  flush,    \* the spool loop
  resume,   \* the resume of a starting worker or of a transport switch
  up,       \* "down", "starting", "running" or "draining"
  fatal,    \* why the last process ended itself, "none" if it did not
  runs,     \* how often the handler was started for an attempt, in all processes
  budget    \* what is left of the bounds

vars == <<core, record, events, local, claim, flush, resume, up, fatal, runs, budget>>
durable == <<record, events>>
process == <<up, fatal, budget>>

\* "done_canceling": Core recorded the Result while a cancellation was under way.
Done == {"done", "done_canceling"}
CoreStates == {"idle", "offered", "leased", "canceling", "rejected", "revoked"} \union Done
FinalRecords == {"result_acked", "rejected", "revoked"}
Records == {"absent", "received", "ack_sent", "reject_sent", "confirmed", "started", "finished"}
             \union FinalRecords
AssignmentCalls == {"ack", "reack", "reject"}

-----------------------------------------------------------------------------
(* The process *)

\* _active, _terminal_attempts, _spool_permissions and the tasks of an attempt.
NoLocal ==
  [ ours       |-> FALSE,   \* offered to this process's Runtime session
    active     |-> FALSE,   \* in _active
    handler    |-> "none",  \* the task of _execute_attempt
    cancelled  |-> FALSE,   \* cancel_event
    expired    |-> FALSE,   \* lease_expires_at has passed
    terminal   |-> FALSE,   \* in _terminal_attempts
    allowed    |-> FALSE,   \* _spool_permissions is (True, True)
    finalizing |-> FALSE,   \* a task is in _finalize_revoked_attempt
    cancel     |-> "none" ] \* the task of _handle_cancel

\* unrouted: a switch to the WebSocket left an assignment of long polling behind.
NoCall == [pc |-> "idle", a |-> NoAttempt, net |-> "none", unrouted |-> FALSE]
NoFlush == [pc |-> "idle", a |-> NoAttempt, net |-> "none", n |-> 0, left |-> {}]
NoResume == [pc |-> "idle", net |-> "none", reconnect |-> FALSE, left |-> {}, at |-> NoAttempt,
             snap |-> [a \in Attempts |-> "absent"], decision |-> [a \in Attempts |-> "none"]]

Init ==
  /\ core = [a \in Attempts |-> "idle"]
  /\ record = [a \in Attempts |-> "absent"]
  /\ events = [a \in Attempts |-> 0]
  /\ local = [a \in Attempts |-> NoLocal]
  /\ claim = NoCall /\ flush = NoFlush /\ resume = NoResume
  /\ up = "down" /\ fatal = "none"
  /\ runs = [a \in Attempts |-> 0]
  /\ budget = [losses |-> MaxLosses, switches |-> MaxSwitches, starts |-> MaxStarts]

Running == up \in {"running", "draining"}
Kept == {a \in Attempts : record[a] # "absent"}
Active == {a \in Attempts : local[a].active}
\* Mutant: a full worker still has room for one.
FullLate == up = "draining" \/ Cardinality(Active) > Capacity
Full == up = "draining" \/ Cardinality(Active) >= Capacity
Transitioning == resume.pc # "idle" /\ resume.reconnect

\* The attempt lock: the spool loop alone holds it over an await, and gives it to
\* a task that waits for it before it takes it again.
Locked(a) == flush.pc \in {"event", "result", "replay"} /\ flush.a = a
Waiting(a) == local[a].finalizing \/ local[a].handler = "returned" \/ local[a].cancel = "lock"

\* _report_fatal, and the end of the process: all that it holds goes with it.
ReportFatal(cause) ==
  /\ local' = [a \in Attempts |-> NoLocal]
  /\ claim' = NoCall /\ flush' = NoFlush /\ resume' = NoResume
  /\ up' = "down" /\ fatal' = cause

Lost == budget.losses > 0 /\ budget' = [budget EXCEPT !.losses = @ - 1]

-----------------------------------------------------------------------------
(* Parts of several handlers, on the local state of one attempt *)

\* _revoke_attempt up to the attempt lock.
Revoke(l) == [l EXCEPT !.terminal = TRUE, !.cancelled = @ \/ l.active, !.finalizing = TRUE]

\* _remove_active_attempt, which ends the lease renewal, and the permissions.
Forget(l) == [l EXCEPT !.active = FALSE, !.expired = FALSE, !.allowed = FALSE]

CanStart(l) == ~l.active /\ ~l.terminal

\* advance_assignment to confirmed, then _start_confirmed_attempt.
ConfirmAndStart(a) ==
  LET l == [local[a] EXCEPT !.allowed = TRUE]
  IN IF CanStart(l)
       THEN /\ record' = [record EXCEPT ![a] = "started"]
            /\ local' = [local EXCEPT ![a] = [l EXCEPT !.active = TRUE, !.handler = "running"]]
            /\ runs' = [runs EXCEPT ![a] = @ + 1]
       ELSE /\ record' = [record EXCEPT ![a] = "confirmed"]
            /\ local' = [local EXCEPT ![a] = l]
            /\ UNCHANGED runs

-----------------------------------------------------------------------------
(* Core *)

\* Core answers a claim with an offer.  It may deliver again, to the session it
\* offered it to, an assignment it offered or whose acknowledgement it has seen.
CoreOffers(a) ==
  /\ claim.pc = "call" /\ claim.net = "sent"
  /\ core[a] = "idle" \/ (core[a] \in {"offered", "leased"} /\ local[a].ours)
  /\ core' = [core EXCEPT ![a] = IF @ = "idle" THEN "offered" ELSE @]
  /\ local' = [local EXCEPT ![a].ours = TRUE]
  /\ claim' = [claim EXCEPT !.a = a, !.net = "ok"]
  /\ UNCHANGED <<durable, flush, resume, process, runs>>

CoreAnswersAssignment ==
  /\ claim.pc \in AssignmentCalls /\ claim.net = "sent"
  /\ LET state == core[claim.a]
         answer ==
           IF claim.pc = "reject"
             THEN IF state \in {"offered", "rejected"} THEN <<"rejected", "ok">>
                  ELSE <<state, IF state = "revoked" THEN "ok" ELSE "refused">>
             ELSE IF state \in {"offered", "leased"} THEN <<"leased", "ok">>
                  ELSE <<state, "refused">>
     IN /\ core' = [core EXCEPT ![claim.a] = answer[1]]
        /\ claim' = [claim EXCEPT !.net = answer[2]]
  /\ UNCHANGED <<durable, local, flush, resume, process, runs>>

\* Core records a Result once and acknowledges it as often as it is sent.  While it
\* cancels it may still take what was on its way.
CoreAnswersUpload ==
  /\ flush.net = "sent"
  /\ LET a == flush.a
         may == IF core[a] = "canceling" THEN BOOLEAN
                ELSE {core[a] = "leased" \/ (flush.pc = "result" /\ core[a] \in Done)}
     IN \E accepted \in may :
          /\ core' = [core EXCEPT ![a] =
                         IF ~accepted \/ flush.pc # "result" THEN @
                         ELSE IF @ = "leased" THEN "done"
                         ELSE IF @ = "canceling" THEN "done_canceling" ELSE @]
          /\ flush' = [flush EXCEPT !.net = IF accepted THEN "ok" ELSE "refused"]
  /\ UNCHANGED <<durable, local, claim, resume, process, runs>>

\* What Core decides of an attempt the worker reports.
Decisions(state) ==
  CASE state = "leased"  -> {"continue_execution", "upload_spool_only"}
    [] state \in Done     -> {"result_already_acked"}
    [] OTHER             -> {"lease_revoked"}

\* Core withdraws an offer it has not seen acknowledged and ends a cancellation.
CoreAnswersResume ==
  /\ resume.pc = "call" /\ resume.net = "sent"
  /\ \E d \in [resume.left -> UNION {Decisions(s) : s \in CoreStates}] :
       /\ \A a \in resume.left : d[a] \in Decisions(core[a])
       /\ resume' = [resume EXCEPT !.net = "ok",
                       !.decision = [a \in Attempts |-> IF a \in resume.left THEN d[a] ELSE "none"]]
  /\ core' = [a \in Attempts |->
                IF a \in resume.left /\ core[a] \in {"offered", "canceling"} THEN "revoked" ELSE core[a]]
  /\ UNCHANGED <<durable, local, claim, flush, process, runs>>

\* The lease ends at Core: it expired there, or the run was taken back.
CoreRevokes(a) ==
  /\ core[a] \in {"offered", "leased", "canceling"}
  /\ core' = [core EXCEPT ![a] = "revoked"]
  /\ UNCHANGED <<durable, local, claim, flush, resume, process, runs>>

CoreCancels(a) ==
  /\ core[a] = "leased"
  /\ core' = [core EXCEPT ![a] = "canceling"]
  /\ UNCHANGED <<durable, local, claim, flush, resume, process, runs>>

-----------------------------------------------------------------------------
(* The claim loop *)

\* _claim_loop; the switch lock is held over the call.
Claim ==
  /\ Running /\ ~Transitioning /\ claim.pc = "idle" /\ ~Full
  /\ claim' = [claim EXCEPT !.pc = "call", !.net = "sent"]
  /\ UNCHANGED <<core, durable, local, flush, resume, process, runs>>

ClaimEmpty ==
  /\ claim.pc = "call" /\ claim.net = "sent"
  /\ claim' = NoCall
  /\ UNCHANGED <<core, durable, local, flush, resume, process, runs>>

\* _handle_assignment up to its first await.
HandleAssignment ==
  /\ claim.pc = "call" /\ claim.net = "ok"
  /\ LET a == claim.a
         send(pc) == claim' = [claim EXCEPT !.pc = pc, !.net = "sent"]
     IN IF local[a].terminal
          THEN claim' = NoCall /\ UNCHANGED <<record, local, runs>>
        ELSE IF record[a] \in {"absent", "received"}
          THEN /\ record' = [record EXCEPT ![a] = IF Full THEN "reject_sent" ELSE "ack_sent"]
               /\ send(IF Full THEN "reject" ELSE "ack")
               /\ UNCHANGED <<local, runs>>
        ELSE IF record[a] \in {"ack_sent", "started", "finished"}
          THEN send(IF record[a] = "ack_sent" THEN "ack" ELSE "reack") /\ UNCHANGED <<record, local, runs>>
        ELSE IF record[a] = "confirmed"
          THEN ConfirmAndStart(a) /\ claim' = NoCall
        ELSE claim' = NoCall /\ UNCHANGED <<record, local, runs>>
  /\ UNCHANGED <<core, events, flush, resume, process>>

\* Mutant: the handler is started as soon as the acknowledgement is sent.
AssignmentConfirmedUnanswered ==
  /\ claim.pc = "ack" /\ claim.net \in {"sent", "ok"}
  /\ ~local[claim.a].terminal /\ record[claim.a] = "ack_sent"
  /\ ConfirmAndStart(claim.a) /\ claim' = NoCall
  /\ UNCHANGED <<core, events, flush, resume, process>>

\* The rest of _handle_assignment when Core confirmed the assignment.
AssignmentConfirmed ==
  /\ claim.pc \in {"ack", "reack"} /\ claim.net = "ok"
  /\ IF local[claim.a].terminal \/ claim.pc = "reack"
       THEN claim' = NoCall /\ UNCHANGED <<record, local, runs, flush, resume, up, fatal>>
     ELSE IF record[claim.a] \in {"ack_sent", "confirmed"}
       THEN ConfirmAndStart(claim.a) /\ claim' = NoCall /\ UNCHANGED <<flush, resume, up, fatal>>
     ELSE ReportFatal("assignment already confirmed") /\ UNCHANGED <<record, runs>>
  /\ UNCHANGED <<core, events, budget>>

\* The rest of _reject_assignment.
AssignmentRejected ==
  /\ claim.pc = "reject" /\ claim.net = "ok"
  /\ IF local[claim.a].terminal
       THEN claim' = NoCall /\ UNCHANGED <<record, local, flush, resume, up, fatal>>
     ELSE IF record[claim.a] = "reject_sent"
       THEN /\ record' = [record EXCEPT ![claim.a] = "absent"]
            /\ claim' = NoCall
            /\ UNCHANGED <<local, flush, resume, up, fatal>>
     ELSE ReportFatal("rejected assignment is gone") /\ UNCHANGED record
  /\ UNCHANGED <<core, events, runs, budget>>

\* _converge_assignment_terminal_error, then the wait for _finalize_revoked_attempt.
AssignmentRefused ==
  /\ claim.pc \in AssignmentCalls /\ claim.net = "refused"
  /\ local' = [local EXCEPT ![claim.a] = IF record[claim.a] = "absent" THEN [@ EXCEPT !.terminal = TRUE]
                                           ELSE Revoke(@)]
  /\ claim' = [NoCall EXCEPT !.pc = "revoke", !.a = claim.a]
  /\ UNCHANGED <<core, durable, flush, resume, process, runs>>

AssignmentRevoked ==
  /\ claim.pc = "revoke" /\ ~local[claim.a].finalizing
  /\ claim' = NoCall
  /\ UNCHANGED <<core, durable, local, flush, resume, process, runs>>

\* A lost answer: _retry_call sends again, but a lost offer is claimed anew.
ClaimAnswerLost ==
  /\ claim.net \in {"ok", "refused"} /\ (~claim.unrouted \/ Transitioning)
  /\ claim' = IF claim.pc = "call" THEN NoCall ELSE [claim EXCEPT !.net = "sent"]
  /\ Lost
  /\ UNCHANGED <<core, durable, local, flush, resume, up, fatal, runs>>

\* ... on the transport of now, a WebSocket on which nothing was delivered that the
\* acknowledgement could reply to: a RuntimeProtocolError.
AckUnrouted ==
  /\ claim.net \in {"ok", "refused"} /\ claim.unrouted /\ ~Transitioning
  /\ ReportFatal("no delivery message")
  /\ Lost
  /\ UNCHANGED <<core, durable, runs>>

-----------------------------------------------------------------------------
(* The handler and its lease *)

SetLocal(a, l) == local' = [local EXCEPT ![a] = l]

\* RuntimeContext.emit.
HandlerEmits(a) ==
  /\ local[a].handler = "running" /\ ~local[a].cancelled
  /\ record[a] = "started" /\ events[a] < MaxEvents
  /\ events' = [events EXCEPT ![a] = @ + 1]
  /\ UNCHANGED <<core, record, local, claim, flush, resume, process, runs>>

\* _execute_attempt up to the attempt lock: the handler returned, raised, or
\* stopped for its cancellation.
HandlerReturns(a) ==
  /\ local[a].handler = "running"
  /\ SetLocal(a, [local[a] EXCEPT !.handler = IF local[a].cancelled THEN "ended" ELSE "returned"])
  /\ UNCHANGED <<core, durable, claim, flush, resume, process, runs>>

\* Mutant: the cancellation is not looked at again under the lock.
StoreResultUnchecked(a) ==
  /\ local[a].handler = "returned" /\ ~Locked(a) /\ record[a] = "started"
  /\ record' = [record EXCEPT ![a] = "finished"]
  /\ SetLocal(a, [local[a] EXCEPT !.handler = "ended", !.allowed = TRUE])
  /\ UNCHANGED <<core, events, claim, flush, resume, process, runs>>

StoreResult(a) ==
  /\ local[a].handler = "returned" /\ ~Locked(a)
  /\ IF local[a].cancelled
       THEN /\ SetLocal(a, [local[a] EXCEPT !.handler = "ended"])
            /\ UNCHANGED <<record, claim, flush, resume, up, fatal>>
     ELSE IF record[a] = "started"
       THEN /\ record' = [record EXCEPT ![a] = "finished"]
            /\ SetLocal(a, [local[a] EXCEPT !.handler = "ended", !.allowed = TRUE])
            /\ UNCHANGED <<claim, flush, resume, up, fatal>>
     ELSE ReportFatal("Result of no started assignment") /\ UNCHANGED record
  /\ UNCHANGED <<core, events, runs, budget>>

Renewing(a) == local[a].active /\ ~local[a].cancelled

\* _renew_lease_loop: Core refuses the renewal.
RenewRefused(a) ==
  /\ Renewing(a) /\ ~Transitioning /\ core[a] # "leased"
  /\ SetLocal(a, Revoke(local[a]))
  /\ UNCHANGED <<core, durable, claim, flush, resume, process, runs>>

\* _renew_lease_loop: no renewal came through until the lease the worker knows of
\* has passed, whatever the lease at Core is.
LeaseExpires(a) ==
  /\ Renewing(a)
  /\ SetLocal(a, [Revoke(local[a]) EXCEPT !.expired = TRUE])
  /\ Lost
  /\ UNCHANGED <<core, durable, claim, flush, resume, up, fatal, runs>>

\* Mutant: the spool is discarded without the attempt lock.
FinalizeUnlocked(a) ==
  /\ local[a].finalizing
  /\ record' = [record EXCEPT ![a] = "absent"]
  /\ events' = [events EXCEPT ![a] = 0]
  /\ SetLocal(a, [Forget(local[a]) EXCEPT !.finalizing = FALSE])
  /\ UNCHANGED <<core, claim, flush, resume, process, runs>>

\* _finalize_revoked_attempt once it has the attempt lock.
Finalize(a) ==
  /\ local[a].finalizing /\ ~Locked(a)
  /\ record' = [record EXCEPT ![a] = "absent"]
  /\ events' = [events EXCEPT ![a] = 0]
  /\ SetLocal(a, [Forget(local[a]) EXCEPT !.finalizing = FALSE])
  /\ UNCHANGED <<core, claim, flush, resume, process, runs>>
-----------------------------------------------------------------------------
(* The spool loop *)

\* _flush_spool goes through the assignments it found.
FlushStart ==
  /\ Running /\ ~Transitioning /\ flush.pc = "idle" /\ Kept # {}
  /\ flush' = [flush EXCEPT !.pc = "next", !.left = Kept]
  /\ UNCHANGED <<core, durable, local, claim, resume, process, runs>>

FlushEnds ==
  /\ flush.pc = "next" /\ flush.left = {}
  /\ flush' = NoFlush
  /\ UNCHANGED <<core, durable, local, claim, resume, process, runs>>

FlushNext(a) == [NoFlush EXCEPT !.pc = "next", !.left = flush.left \ {a}]

\* Mutant: the Result goes first.
UploadResultFirst(a, n, pending) ==
  IF record[a] = "finished"
    THEN [flush EXCEPT !.pc = "result", !.a = a, !.n = 0, !.net = "sent"]
  ELSE IF n > 0 THEN [flush EXCEPT !.pc = "event", !.a = a, !.n = n, !.net = "sent"]
  ELSE FlushNext(a)

\* What _flush_attempt_spool sends next: n Events of those it found are still to be
\* sent, and the Result once no Event is pending.
Upload(a, n, pending) ==
  IF n > 0 THEN [flush EXCEPT !.pc = "event", !.a = a, !.n = n, !.net = "sent"]
  ELSE IF pending = 0 /\ record[a] = "finished"
    THEN [flush EXCEPT !.pc = "result", !.a = a, !.n = 0, !.net = "sent"]
  ELSE FlushNext(a)

\* _flush_attempt_spool takes the attempt lock.
FlushAttempt(a) ==
  /\ flush.pc = "next" /\ a \in flush.left /\ ~Waiting(a)
  /\ flush' = IF local[a].allowed THEN Upload(a, events[a], events[a]) ELSE FlushNext(a)
  /\ UNCHANGED <<core, durable, local, claim, resume, process, runs>>

EventAcknowledged ==
  /\ flush.pc = "event" /\ flush.net = "ok"
  /\ events' = [events EXCEPT ![flush.a] = @ - 1]
  /\ flush' = Upload(flush.a, flush.n - 1, events[flush.a] - 1)
  /\ UNCHANGED <<core, record, local, claim, resume, process, runs>>

\* Mutant: the attempt stays in _active.
ResultAcknowledgedKeepsActive ==
  /\ flush.pc = "result" /\ flush.net = "ok"
  /\ record' = [record EXCEPT ![flush.a] = "absent"]
  /\ events' = [events EXCEPT ![flush.a] = 0]
  /\ flush' = FlushNext(flush.a)
  /\ UNCHANGED <<core, local, claim, resume, process, runs>>

\* ack_result, clear_terminal_events, delete_assignment, _remove_active_attempt.
ResultAcknowledged ==
  /\ flush.pc = "result" /\ flush.net = "ok"
  /\ record' = [record EXCEPT ![flush.a] = "absent"]
  /\ events' = [events EXCEPT ![flush.a] = 0]
  /\ SetLocal(flush.a, Forget(local[flush.a]))
  /\ flush' = FlushNext(flush.a)
  /\ UNCHANGED <<core, claim, resume, process, runs>>

\* Core misses Events it had acknowledged: they are replayed, and the Result is sent
\* once more (n = 1); when Core misses them again, the upload fails.
CoreMissesEvents ==
  /\ flush.pc = "result" /\ flush.net = "sent" /\ flush.n = 0
  /\ core[flush.a] = "leased"
  /\ flush' = [flush EXCEPT !.pc = "replay", !.net = "sent"]
  /\ Lost
  /\ UNCHANGED <<core, durable, local, claim, resume, up, fatal, runs>>

EventsReplayed ==
  /\ flush.pc = "replay" /\ flush.net = "ok"
  /\ flush' = [flush EXCEPT !.pc = "result", !.net = "sent", !.n = 1]
  /\ UNCHANGED <<core, durable, local, claim, resume, process, runs>>

\* Core refuses the upload: the lock is released, the attempt revoked.
UploadRefused ==
  /\ flush.net = "refused"
  /\ SetLocal(flush.a, Revoke(local[flush.a]))
  /\ flush' = [flush EXCEPT !.pc = "revoke", !.net = "none"]
  /\ UNCHANGED <<core, durable, claim, resume, process, runs>>

UploadRevoked ==
  /\ flush.pc = "revoke" /\ ~local[flush.a].finalizing
  /\ flush' = FlushNext(flush.a)
  /\ UNCHANGED <<core, durable, local, claim, resume, process, runs>>

\* Mutant: a Result that was sent is taken for acknowledged.
UploadFailsDeletes ==
  /\ flush.net # "none"
  /\ record' = [record EXCEPT ![flush.a] = IF flush.pc = "result" THEN "absent" ELSE @]
  /\ flush' = NoFlush
  /\ Lost
  /\ UNCHANGED <<core, events, local, claim, resume, up, fatal, runs>>

\* The call fails: the loop starts over.
UploadFails ==
  /\ flush.net # "none"
  /\ flush' = NoFlush
  /\ Lost
  /\ UNCHANGED <<core, durable, local, claim, resume, up, fatal, runs>>

-----------------------------------------------------------------------------
(* Commands *)

\* run.cancel: Core gives the command again until it is acknowledged.
CancelQueued(a) ==
  /\ Running /\ core[a] \in {"canceling", "done_canceling"}
  /\ local[a].cancel = "none"
  /\ SetLocal(a, [local[a] EXCEPT !.cancel = "queued"])
  /\ UNCHANGED <<core, durable, claim, flush, resume, process, runs>>

\* _handle_cancel, whatever Core has decided since; an Attempt of no record is "failed".
CancelStart(a) ==
  /\ Running /\ local[a].cancel = "queued"
  /\ SetLocal(a, IF record[a] = "absent" THEN [local[a] EXCEPT !.cancel = "none"]
                 ELSE [local[a] EXCEPT !.terminal = TRUE, !.cancelled = @ \/ local[a].active,
                                       !.cancel = "lock"])
  /\ UNCHANGED <<core, durable, claim, flush, resume, process, runs>>

CancelLock(a) ==
  /\ local[a].cancel = "lock" /\ ~Locked(a)
  /\ SetLocal(a, [local[a] EXCEPT !.allowed = FALSE, !.cancel = "wait"])
  /\ UNCHANGED <<core, durable, claim, flush, resume, process, runs>>

\* The handler stopped, or the deadline passed before it did.
CancelWait(a) ==
  /\ local[a].cancel = "wait"
  /\ SetLocal(a, [local[a] EXCEPT !.cancel =
                     IF local[a].handler \in {"none", "ended"} THEN "stopped" ELSE "none"])
  /\ UNCHANGED <<core, durable, claim, flush, resume, process, runs>>

CancelEnded(state) == IF state = "canceling" THEN "revoked"
                      ELSE IF state = "done_canceling" THEN "done" ELSE state

\* Core acknowledges "stopped", whatever became of the attempt.
CancelStopped(a) ==
  /\ local[a].cancel = "stopped"
  /\ core' = [core EXCEPT ![a] = CancelEnded(@)]
  /\ SetLocal(a, [local[a] EXCEPT !.cancel = "none", !.finalizing = TRUE])
  /\ UNCHANGED <<durable, claim, flush, resume, process, runs>>

\* "stopped" is not confirmed before the deadline: the attempt is kept.
CancelUnconfirmed(a) ==
  /\ local[a].cancel = "stopped"
  /\ core' \in {core, [core EXCEPT ![a] = CancelEnded(@)]}
  /\ SetLocal(a, [local[a] EXCEPT !.cancel = "none"])
  /\ Lost
  /\ UNCHANGED <<durable, claim, flush, resume, up, fatal, runs>>

\* run.lease.revoked.
LeaseRevoked(a) ==
  /\ Running /\ core[a] = "revoked" /\ record[a] # "absent" /\ ~local[a].finalizing
  /\ SetLocal(a, Revoke(local[a]))
  /\ UNCHANGED <<core, durable, claim, flush, resume, process, runs>>

\* runtime.drain.
Drain ==
  /\ up = "running"
  /\ up' = "draining"
  /\ UNCHANGED <<core, durable, local, claim, flush, resume, fatal, runs, budget>>

-----------------------------------------------------------------------------
(* Resume *)

\* The request of _resume_durable_state: a snapshot of the journal.
Report(reconnect) == [NoResume EXCEPT !.pc = "call", !.net = "sent", !.reconnect = reconnect,
                                      !.left = Kept, !.snap = record]

\* _start of a new process; the store drops the spool of a record that is final.
StartProcess ==
  /\ up = "down" /\ budget.starts > 0
  /\ budget' = [budget EXCEPT !.starts = @ - 1]
  /\ events' = [a \in Attempts |-> IF record[a] \in FinalRecords THEN 0 ELSE events[a]]
  /\ resume' = IF Kept = {} THEN NoResume ELSE Report(FALSE)
  /\ up' = IF Kept = {} THEN "running" ELSE "starting"
  /\ fatal' = "none"
  /\ UNCHANGED <<core, record, local, claim, flush, runs>>

\* _recover_transport_once or _websocket_probe_loop, once attached.
SwitchStart ==
  /\ Running /\ resume.pc = "idle" /\ claim.pc # "call"
  /\ Kept # {} /\ budget.switches > 0
  /\ budget' = [budget EXCEPT !.switches = @ - 1]
  /\ resume' = Report(TRUE)
  /\ UNCHANGED <<core, durable, local, claim, flush, up, fatal, runs>>

\* Core's decisions arrive, or are lost and asked for again with the same snapshot.
ResumeAnswered ==
  /\ resume.pc = "call" /\ resume.net = "ok"
  /\ resume' = [resume EXCEPT !.pc = "apply"]
  /\ UNCHANGED <<core, durable, local, claim, flush, process, runs>>

ResumeAnswerLost ==
  /\ resume.pc = "call" /\ resume.net = "ok"
  /\ resume' = [resume EXCEPT !.net = "sent", !.decision = [a \in Attempts |-> "none"]]
  /\ Lost
  /\ UNCHANGED <<core, durable, local, claim, flush, up, fatal, runs>>

\* The decisions are applied one record after the other; "at" is one that waits.
Applying(a, decision) ==
  /\ resume.pc = "apply" /\ a \in resume.left /\ resume.decision[a] = decision
  /\ resume.at \in {NoAttempt, a}
Applied(a) == resume' = [resume EXCEPT !.left = @ \ {a}, !.at = NoAttempt]
WaitsAt(a) == resume' = [resume EXCEPT !.at = a]

\* An error of the resume ends the worker; but the claim loop of a worker that may
\* fall back swallows it, and switches again later.
ResumeFails(cause) ==
  \/ ReportFatal(cause)
  \/ resume.reconnect /\ resume' = NoResume /\ UNCHANGED <<local, claim, flush, up, fatal>>

\* Mutant: a restarted worker starts what a previous process started.
ApplyContinueRestarts(a) ==
  /\ Applying(a, "continue_execution")
  /\ ~resume.reconnect /\ record[a] \in {"ack_sent", "confirmed", "started"}
  /\ ConfirmAndStart(a) /\ Applied(a)
  /\ UNCHANGED <<core, events, claim, flush, process>>

ApplyContinue(a) ==
  /\ Applying(a, "continue_execution")
  /\ LET snap == resume.snap[a]
         fail(cause) == ResumeFails(cause) /\ UNCHANGED <<record, runs>>
     IN IF snap \in {"started", "finished"}
          THEN IF ~resume.reconnect THEN fail("a previous process started this Attempt")
               ELSE IF ~local[a].active THEN fail("no live lease owner")
               ELSE /\ SetLocal(a, [local[a] EXCEPT !.allowed = TRUE])
                    /\ Applied(a)
                    /\ UNCHANGED <<record, runs, claim, flush, up, fatal>>
        ELSE IF snap \notin {"ack_sent", "confirmed"} \/ record[a] \notin {"ack_sent", "confirmed"}
          THEN fail("not executable")
        ELSE ConfirmAndStart(a) /\ Applied(a) /\ UNCHANGED <<claim, flush, up, fatal>>
  /\ UNCHANGED <<core, events, budget>>

\* Mutant: the permission to upload is not given.
ApplyUploadOnlySilent(a) ==
  /\ Applying(a, "upload_spool_only")
  /\ Applied(a)
  /\ UNCHANGED <<core, durable, local, claim, flush, process, runs>>

ApplyUploadOnly(a) ==
  /\ Applying(a, "upload_spool_only")
  /\ SetLocal(a, [local[a] EXCEPT !.allowed = TRUE])
  /\ Applied(a)
  /\ UNCHANGED <<core, durable, claim, flush, process, runs>>

\* _clear_from_resume tells the handler to stop, then waits for the attempt lock.
AcknowledgedWaits(a) ==
  /\ Applying(a, "result_already_acked") /\ Locked(a) /\ resume.at # a
  /\ SetLocal(a, [local[a] EXCEPT !.cancelled = @ \/ local[a].active])
  /\ WaitsAt(a)
  /\ UNCHANGED <<core, durable, claim, flush, process, runs>>

\* _clear_from_resume of an acknowledged Result.
ApplyAcknowledged(a) ==
  /\ Applying(a, "result_already_acked") /\ ~Locked(a)
  /\ IF record[a] = "finished" \/ resume.snap[a] = "result_acked"
       THEN /\ record' = [record EXCEPT ![a] = "absent"]
            /\ events' = [events EXCEPT ![a] = 0]
            /\ SetLocal(a, [Forget(local[a]) EXCEPT !.cancelled = @ \/ local[a].active])
            /\ Applied(a)
            /\ UNCHANGED <<claim, flush, up, fatal>>
       ELSE ResumeFails("no matching durable Result") /\ UNCHANGED durable
  /\ UNCHANGED <<core, runs, budget>>

\* _revoke_attempt, which ends when the record is gone.
ApplyRevoked(a) ==
  /\ Applying(a, "lease_revoked") /\ ~local[a].finalizing
  /\ IF record[a] = "absent"
       THEN SetLocal(a, [Forget(local[a]) EXCEPT !.terminal = TRUE]) /\ Applied(a)
       ELSE SetLocal(a, Revoke(local[a])) /\ WaitsAt(a)
  /\ UNCHANGED <<core, durable, claim, flush, process, runs>>

ResumeEnds ==
  /\ resume.pc = "apply" /\ resume.left = {}
  /\ resume' = NoResume
  /\ up' = IF up = "starting" THEN "running" ELSE up
  \* From long polling to the WebSocket, or another switch.
  /\ \E toWebSocket \in BOOLEAN :
       claim' = [claim EXCEPT !.unrouted = resume.reconnect /\ toWebSocket /\ claim.pc \in {"ack", "reack"}]
  /\ UNCHANGED <<core, durable, local, flush, fatal, runs, budget>>

-----------------------------------------------------------------------------
(* A crash *)

\* The record a crash leaves when it comes between two writes of one step.
CutShort(a, state) ==
  \/ /\ state = "received" /\ record[a] = "absent" /\ ~local[a].terminal
     /\ claim.pc = "call" /\ claim.net = "ok" /\ claim.a = a
  \/ /\ state = "rejected" /\ record[a] = "reject_sent"
     /\ claim.pc = "reject" /\ claim.net = "ok" /\ claim.a = a
  \/ /\ state = "confirmed" /\ record[a] = "ack_sent" /\ ~local[a].terminal
     /\ \/ claim.pc = "ack" /\ claim.net = "ok" /\ claim.a = a
        \/ Applying(a, "continue_execution")
  \/ /\ state = "result_acked" /\ record[a] = "finished"
     /\ \/ flush.pc = "result" /\ flush.net = "ok" /\ flush.a = a
        \/ Applying(a, "result_already_acked")
  \/ /\ state = "revoked" /\ record[a] \notin FinalRecords \union {"absent"}
     /\ local[a].finalizing /\ ~Locked(a)

Crash ==
  /\ up # "down"
  /\ \/ UNCHANGED record
     \/ \E a \in Attempts, state \in Records :
          CutShort(a, state) /\ record' = [record EXCEPT ![a] = state]
  /\ ReportFatal("none")
  /\ UNCHANGED <<core, events, runs, budget>>

-----------------------------------------------------------------------------
ClaimStep ==
  \/ CoreAnswersAssignment \/ HandleAssignment \/ AssignmentConfirmed \/ AssignmentRejected
  \/ AssignmentRefused \/ AssignmentRevoked

FlushStep ==
  \/ FlushStart \/ FlushEnds \/ (\E a \in Attempts : FlushAttempt(a)) \/ CoreAnswersUpload
  \/ EventAcknowledged \/ EventsReplayed \/ ResultAcknowledged \/ UploadRefused \/ UploadRevoked

CancelStep(a) == CancelLock(a) \/ CancelWait(a) \/ CancelStopped(a)

ResumeStep ==
  \/ CoreAnswersResume \/ ResumeAnswered \/ ResumeEnds
  \/ \E a \in Attempts :
       \/ ApplyContinue(a) \/ ApplyUploadOnly(a) \/ ApplyRevoked(a)
       \/ AcknowledgedWaits(a) \/ ApplyAcknowledged(a)

Next ==
  \/ Claim \/ ClaimEmpty \/ ClaimStep \/ ClaimAnswerLost \/ AckUnrouted
  \/ FlushStep \/ CoreMissesEvents \/ UploadFails
  \/ StartProcess \/ SwitchStart \/ ResumeStep \/ ResumeAnswerLost
  \/ Drain \/ Crash
  \/ \E a \in Attempts :
       \/ CoreOffers(a) \/ CoreRevokes(a) \/ CoreCancels(a)
       \/ HandlerEmits(a) \/ HandlerReturns(a) \/ StoreResult(a)
       \/ RenewRefused(a) \/ LeaseExpires(a) \/ Finalize(a)
       \/ CancelQueued(a) \/ CancelStart(a) \/ CancelStep(a) \/ CancelUnconfirmed(a) \/ LeaseRevoked(a)

\* The event loop runs every task that can run, and Core answers; nothing makes a
\* handler return, a claim succeed, a process start or a command come.
Fairness ==
  /\ WF_vars(ClaimStep) /\ WF_vars(FlushStep) /\ WF_vars(ResumeStep)
  /\ \A a \in Attempts :
       WF_vars(StoreResult(a)) /\ WF_vars(Finalize(a)) /\ WF_vars(CancelStep(a))

Spec == Init /\ [][Next]_vars
FairSpec == Spec /\ Fairness
-----------------------------------------------------------------------------
(* What the worker promises *)

CallType(pcs) == [pc : pcs, a : Attempts \union {NoAttempt}, net : {"none", "sent", "ok", "refused"}]

\* Every variable has its type, and a task that is at work names its attempt.
TypeOK ==
  /\ core \in [Attempts -> CoreStates]
  /\ record \in [Attempts -> Records]
  /\ events \in [Attempts -> 0 .. MaxEvents]
  /\ local \in [Attempts ->
       [ours : BOOLEAN, active : BOOLEAN, handler : {"none", "running", "returned", "ended"},
        cancelled : BOOLEAN, expired : BOOLEAN, terminal : BOOLEAN, allowed : BOOLEAN,
        finalizing : BOOLEAN, cancel : {"none", "queued", "lock", "wait", "stopped"}]]
  /\ [pc |-> claim.pc, a |-> claim.a, net |-> claim.net]
       \in CallType({"idle", "call", "ack", "reack", "reject", "revoke"})
  /\ claim.unrouted \in BOOLEAN
  /\ [pc |-> flush.pc, a |-> flush.a, net |-> flush.net]
       \in CallType({"idle", "next", "event", "result", "replay", "revoke"})
  /\ flush.n \in Nat /\ flush.left \subseteq Attempts
  /\ resume.pc \in {"idle", "call", "apply"} /\ resume.left \subseteq Attempts
  /\ resume.at \in Attempts \union {NoAttempt}
  /\ resume.snap \in [Attempts -> Records]
  /\ up \in {"down", "starting", "running", "draining"}
  /\ runs \in [Attempts -> Nat]
  /\ claim.pc \in AssignmentCalls => claim.a # NoAttempt
  /\ flush.pc \in {"event", "result"} => flush.a # NoAttempt

\* Neither a lost answer, a redelivery, a transport switch nor a restart starts the
\* handler of an attempt a second time (PARITY.md: "reconnect resume without re-running
\* a previously started handler").
RunsAtMostOnce == \A a \in Attempts : runs[a] <= 1

\* The worker implements AttemptDelivery: whatever is lost, delivered again, switched,
\* cancelled or restarted, a handler starts once and only after Core confirmed the assignment
\* (README: "The handler starts only after Core confirms the assignment"), Core records only
\* what was stored, and a stored Result goes only when Core has it, has ended the lease or
\* the run, or when the worker's own lease has passed.
StageOf(a) ==
  CASE runs[a] = 0              -> "waiting"
    [] record[a] = "started"    -> "started"
    [] record[a] = "finished"   -> "answered"
    [] OTHER                    -> "gone"

LeaseOf(state) ==
  CASE state \in {"idle", "offered"} -> "open"
    [] state = "leased"              -> "accepted"
    [] state = "canceling"           -> "ending"
    [] state \in Done                -> "recorded"
    [] state = "rejected"            -> "refused"
    [] state = "revoked"             -> "ended"

Delivery == INSTANCE AttemptDelivery WITH
  stage  <- [a \in Attempts |-> StageOf(a)],
  lease  <- [a \in Attempts |-> LeaseOf(core[a])],
  starts <- runs,
  lapsed <- [a \in Attempts |-> local[a].expired]

DeliversAttempts == Delivery!Spec

\* The worker owns no more attempts than the capacity it offered, with the claim loop
\* and a resume both starting attempts: until the process has been started again.  A later
\* process takes over assignments it has not made room for, and Core may let it go on with
\* them when it has claimed others.
FirstStart == budget.starts + 1 >= MaxStarts
CapacityKept == FirstStart => Cardinality(Active) <= Capacity

\* Core has a Result only of an attempt whose Events it has all acknowledged.
EventsBeforeResult == \A a \in Attempts : core[a] \in Done => events[a] = 0

\* An attempt the process has cancelled or revoked stores no Result, and once its record
\* is gone neither a redelivery nor a late answer brings it back.
TerminalStaysTerminal ==
  [][\A a \in Attempts : local[a].terminal =>
       /\ record'[a] = "finished" => record[a] = "finished"
       /\ record[a] = "absent" => record'[a] = "absent"
       /\ runs'[a] = runs[a]]_vars

\* What a worker reports is still there when the report is made or answered: a handler's
\* Result finds its started record, the answer to a rejection, to an Event and to a Result
\* the record it is about, whatever was revoked, cancelled, resumed or delivered again
\* meanwhile.  (The answer to an assignment ACK and the decision of a resume may come too
\* late: SwitchKeepsWorker.)
ReportsFindTheirRecord ==
  /\ fatal \notin {"Result of no started assignment", "rejected assignment is gone"}
  /\ flush.net = "ok" =>
       /\ flush.pc = "event" => events[flush.a] > 0
       /\ flush.pc = "result" => record[flush.a] = "finished"

\* An attempt in _active has its record in the journal.
ActiveHasRecord ==
  \A a \in Attempts : local[a].active => record[a] \in {"started", "finished"}

\* A Result in the spool is uploaded, or its attempt is cancelled or revoked, or the
\* process ends; and a revoked attempt is cleared.  Answers are lost finitely often.
Settles ==
  \A a \in Attempts :
    /\ record[a] = "finished" ~> record[a] # "finished" \/ local[a].terminal \/ up = "down"
    /\ local[a].finalizing ~> ~local[a].finalizing

\* What the documents say and the code does not do.

\* "WebSocket, long-poll and automatic transport recovery" (PARITY.md:31): a transport
\* switch that meets the acknowledgement of an assignment or of a Result under way does
\* not end the worker (_handle_assignment, _clear_from_resume).
SwitchKeepsWorker ==
  fatal \notin {"assignment already confirmed", "no matching durable Result", "no delivery message"}
=============================================================================
