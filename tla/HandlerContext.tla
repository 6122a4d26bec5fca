--------------------------- MODULE HandlerContext ---------------------------
(***************************************************************************)
(* The RuntimeContext of one attempt: the handler and the tasks it may have*)
(* started emit Events, call other Agents and read delegated Runs through  *)
(* it, while the handler returns, Core or the lease ends the attempt, and  *)
(* the worker shuts down.  A call or read is a task of its own; the task   *)
(* that asked waits for it, for the cancellation and for the close.        *)
(***************************************************************************)
CONSTANTS
  Users,  \* the tasks that use the context
  Main    \* the one that runs the handler

ASSUME ContextAssumption == Main \in Users

VARIABLES
  handler,    \* _execute_attempt: "running", "returned", "stored", "gone"
  events,     \* from the context: "none", "some" stored, one "refused"
  record,     \* in the store: "started", "finished" (it has a Result), "gone"
  closed,     \* _closed of the context
  cancelled,  \* cancel_event of the attempt
  force,      \* _force_cancel of the worker
  late,       \* attempt_deadline_at has passed
  switching,  \* the transport is, or was just, replaced
  pc,         \* each user: "free", "waits" (in asyncio.wait), "reaps" (a
              \* call it cancelled), "over"
  call, read, \* the task of its call_agent, of its read_delegated_run
  orphan      \* the task of a call_agent that nobody waits for

tasks == <<pc, call, read, orphan>>
ends == <<closed, cancelled, force>>
world == <<late, switching>>
vars == <<handler, events, record, ends, world, tasks>>

\* "delayed": between two tries.  "again": after a policy recovery.
CallStates == {"none", "sent", "delayed", "done"}
ReadStates == {"none", "sent", "again", "done"}

Init ==
  /\ handler = "running" /\ events = "none" /\ record = "started"
  /\ closed = FALSE /\ cancelled = FALSE /\ force = FALSE
  /\ late = FALSE /\ switching = FALSE
  /\ pc = [u \in Users |-> "free"]
  /\ call = [u \in Users |-> "none"] /\ read = [u \in Users |-> "none"]
  /\ orphan = [u \in Users |-> "none"]

-----------------------------------------------------------------------------
(* What a user asks of the context *)

\* The check that emit, call_agent and read_delegated_run begin with.
Open == ~closed /\ ~cancelled /\ ~force
Free(u) == pc[u] = "free" /\ (u = Main => handler = "running")

\* Mutant: emit looks at the cancellation only.
OpenForEmitUncancelled == ~cancelled

OpenForEmit == Open

\* append_event; the store refuses it unless the record is started.
Emit(u) ==
  /\ Free(u) /\ OpenForEmit
  /\ events' = IF record = "started" THEN "some" ELSE "refused"
  /\ UNCHANGED <<handler, record, ends, world, tasks>>

\* No second call while one it gave up is still under way: a bound.
CallAgent(u) ==
  /\ Free(u) /\ Open /\ orphan[u] = "none"
  /\ pc' = [pc EXCEPT ![u] = "waits"] /\ call' = [call EXCEPT ![u] = "sent"]
  /\ UNCHANGED <<handler, events, record, ends, world, read, orphan>>

ReadDelegatedRun(u) ==
  /\ Free(u) /\ Open
  /\ pc' = [pc EXCEPT ![u] = "waits"] /\ read' = [read EXCEPT ![u] = "sent"]
  /\ UNCHANGED <<handler, events, record, ends, world, call, orphan>>

-----------------------------------------------------------------------------
(* The task of a call (_retry_call), waited for or not *)

Stopped == force \/ cancelled

\* Where a failed try leads: another one after a delay, or an error, which is
\* the only way when the deadline has passed and the transport is the same.
AfterFailure == IF late /\ ~switching THEN {"done"} ELSE {"done", "delayed"}

CallAnswered(u) ==
  /\ call[u] = "sent"
  /\ \E s \in {"done"} \cup AfterFailure : call' = [call EXCEPT ![u] = s]
  /\ UNCHANGED <<handler, events, record, ends, world, pc, read, orphan>>

CallDelayed(u) ==
  /\ call[u] = "delayed"
  /\ call' = [call EXCEPT ![u] = IF Stopped THEN "done" ELSE "sent"]
  /\ UNCHANGED <<handler, events, record, ends, world, pc, read, orphan>>

OrphanAnswered(u) ==
  /\ orphan[u] = "sent"
  /\ \E s \in {"done"} \cup AfterFailure :
       orphan' = [orphan EXCEPT ![u] = IF s = "done" THEN "none" ELSE s]
  /\ UNCHANGED <<handler, events, record, ends, world, pc, call, read>>

OrphanDelayed(u) ==
  /\ orphan[u] = "delayed"
  /\ orphan' = [orphan EXCEPT ![u] = IF Stopped THEN "none" ELSE "sent"]
  /\ UNCHANGED <<handler, events, record, ends, world, pc, call, read>>

\* The task of a read: one try, another one after a policy recovery.
ReadAnswered(u) ==
  /\ read[u] \in {"sent", "again"}
  /\ \E s \in {"done"} \cup (IF read[u] = "sent" THEN {"again"} ELSE {}) :
       read' = [read EXCEPT ![u] = s]
  /\ UNCHANGED <<handler, events, record, ends, world, pc, call, orphan>>

-----------------------------------------------------------------------------
(* The task that waits *)

\* A result or an error, or the CancelledError of a task that stopped itself;
\* also when the end of the attempt was not noticed yet.
Returns(u) ==
  /\ pc[u] = "waits"
  /\ call[u] = "done" \/ read[u] = "done"
  /\ pc' = [pc EXCEPT ![u] = "free"]
  /\ call' = [call EXCEPT ![u] = "none"] /\ read' = [read EXCEPT ![u] = "none"]
  /\ UNCHANGED <<handler, events, record, ends, world, orphan>>

\* Mutant: the watcher of the close is missing.
WokenUnclosed(u) ==
  /\ pc[u] = "waits" /\ cancelled
  /\ pc' = [pc EXCEPT ![u] = "reaps"]
  /\ call' = [call EXCEPT ![u] = "none"] /\ read' = [read EXCEPT ![u] = "none"]
  /\ UNCHANGED <<handler, events, record, ends, world, orphan>>

\* The watchers fired: the task of the call or read is cancelled.
Woken(u) ==
  /\ pc[u] = "waits" /\ (cancelled \/ closed)
  /\ pc' = [pc EXCEPT ![u] = "reaps"]
  /\ call' = [call EXCEPT ![u] = "none"] /\ read' = [read EXCEPT ![u] = "none"]
  /\ UNCHANGED <<handler, events, record, ends, world, orphan>>

\* ... and awaited; CancelledError, which the user's code may catch.
Reaped(u) ==
  /\ pc[u] = "reaps"
  /\ \E s \in {"free", "over"} : pc' = [pc EXCEPT ![u] = IF u = Main THEN "free" ELSE s]
  /\ UNCHANGED <<handler, events, record, ends, world, call, read, orphan>>

\* The user's own task is cancelled while it waits: by a timeout of its own,
\* or because the worker cancels the handler.  `finally` cancels a read, but
\* leaves the task of a call running.
Interrupted(u) ==
  /\ pc[u] = "waits"
  /\ pc' = [pc EXCEPT ![u] = IF read[u] = "none" THEN "free" ELSE "reaps"]
  /\ orphan' = IF call[u] \in {"sent", "delayed"} THEN [orphan EXCEPT ![u] = call[u]] ELSE orphan
  /\ call' = [call EXCEPT ![u] = "none"] /\ read' = [read EXCEPT ![u] = "none"]
  /\ UNCHANGED <<handler, events, record, ends, world>>

-----------------------------------------------------------------------------
(* _execute_attempt and the rest of the worker *)

\* The handler returns or raises; the context is closed, then the Events of
\* the RuntimeResult are stored (when that raises, so did the handler).
HandlerReturns ==
  /\ handler = "running" /\ pc[Main] = "free"
  /\ handler' = IF Stopped THEN "gone" ELSE "returned"
  /\ closed' = TRUE
  /\ \/ UNCHANGED events
     \/ record = "started" /\ events # "refused" /\ events' = "some"
  /\ UNCHANGED <<record, cancelled, force, world, tasks>>

\* Under the attempt lock, which the finalizer may have had meanwhile.
StoreResult ==
  /\ handler = "returned"
  /\ IF Stopped
     THEN handler' = "gone" /\ UNCHANGED record
     ELSE handler' = "stored" /\ record' = "finished"
  /\ UNCHANGED <<events, ends, world, tasks>>

\* run.cancel, a revocation, the end of the lease: the attempt is over.
Cancel ==
  /\ ~cancelled /\ record # "gone" /\ cancelled' = TRUE
  /\ UNCHANGED <<handler, events, record, closed, force, world, tasks>>

\* The finalizer, or the ACK of the Result, deletes the record.
Finalize ==
  /\ cancelled \/ record = "finished"
  /\ record # "gone" /\ record' = "gone"
  /\ UNCHANGED <<handler, events, ends, world, tasks>>

\* A shutdown or a fatal error; both set the cancel_event of the attempts
\* whose handler still runs.
ForceCancel ==
  /\ ~force /\ force' = TRUE
  /\ cancelled' \in {TRUE} \cup (IF handler \in {"stored", "gone"} THEN {cancelled} ELSE {})
  /\ UNCHANGED <<handler, events, record, closed, world, tasks>>

DeadlinePasses == ~late /\ late' = TRUE /\ UNCHANGED <<handler, events, record, ends, switching, tasks>>
Switches == switching' = ~switching /\ UNCHANGED <<handler, events, record, ends, late, tasks>>

Next ==
  \/ \E u \in Users :
       \/ Emit(u) \/ CallAgent(u) \/ ReadDelegatedRun(u)
       \/ CallAnswered(u) \/ CallDelayed(u) \/ OrphanAnswered(u) \/ OrphanDelayed(u)
       \/ ReadAnswered(u) \/ Returns(u) \/ Woken(u) \/ Reaped(u) \/ Interrupted(u)
  \/ HandlerReturns \/ StoreResult \/ Cancel \/ Finalize \/ ForceCancel
  \/ DeadlinePasses \/ Switches

Spec == Init /\ [][Next]_vars

\* Ready tasks run.  A request ends by its timeout, which is asked for only of
\* the calls that nobody waits for: who waits is not released by Core.  No
\* handler has to return.
Fairness ==
  \A u \in Users :
    /\ WF_vars(Woken(u)) /\ WF_vars(Reaped(u))
    /\ WF_vars(OrphanAnswered(u)) /\ WF_vars(OrphanDelayed(u))

FairSpec == Spec /\ Fairness

-----------------------------------------------------------------------------
(* Properties *)

\* An Event that the context accepts finds its record started: the Result is
\* stored (_execute_attempt) and the record deleted (_finalize_revoked_attempt)
\* only when the context refuses Events, also those of tasks that the handler
\* left behind.
EventsFindTheirRecord == events # "refused"

Released(u) ==
  /\ pc[u] \in {"free", "over"} /\ call[u] = "none" /\ read[u] = "none"
  /\ Stopped => orphan[u] = "none"

\* "Cancellation or handler return closes in-flight reads" (README.md:288),
\* and releases whoever waits for a call, although Core does not answer; a
\* call whose user was interrupted outlives the handler, but not the attempt.
EndReleases == closed \/ cancelled ~> \A u \in Users : Released(u)
=============================================================================
