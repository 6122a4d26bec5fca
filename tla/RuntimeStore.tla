---------------------------- MODULE RuntimeStore ----------------------------
(***************************************************************************)
(* The durable store of a Runtime worker (FileRuntimeStore of              *)
(* runtime/store.py): one journal file per assignment, one file per Event, *)
(* one per Result and the identity file, with the records the process      *)
(* holds in memory beside them.                                            *)
(*                                                                         *)
(* Every operation runs under the store's lock, so two operations never    *)
(* interleave, but the process may die between any two file operations and *)
(* every file operation may raise.  An operation is therefore one action   *)
(* for its memory part and one action for each file it writes or removes;  *)
(* pc says which file step comes next, and cur which assignment it is for. *)
(* _atomic_write replaces the file in one rename, so a file step happens   *)
(* wholly or not at all, and may still raise after the rename (chmod or    *)
(* the directory fsync).  A raise poisons an open store and ends an open   *)
(* in progress.                                                            *)
(*                                                                         *)
(* The callers' discipline is part of the model: the worker advances a     *)
(* record only to the states in WorkerTargets, stores a Result only for a  *)
(* started assignment and acknowledges only a finished one.                *)
(***************************************************************************)
EXTENDS Naturals, FiniteSets, FiniteSetsExt

CONSTANTS
  Attempts,     \* attempt ids; each has one assignment message id
  MaxEvents,    \* bound: Events one attempt appends
  MaxRecords,   \* max_records of the store
  MaxEpoch      \* bound: times the store is opened

ASSUME RuntimeStoreAssumption ==
  /\ MaxEvents \in Nat
  /\ MaxRecords \in Nat
  /\ MaxEpoch \in Nat

VARIABLES
  \* ---- the data directory ----
  assignmentFile,  \* attempt -> journal record; state "absent" when no file
  eventFiles,      \* attempt -> set of <<client_event_seq, client_event_id>>
  resultFile,      \* attempt -> Result file, NoResult when there is none
  identityFile,    \* session_epoch in identity.json
  \* ---- the process ----
  assignments,     \* _assignments
  events,          \* _events
  results,         \* _results
  epoch,           \* session_epoch of the last process that opened the store
  status,          \* "closed", "loading", "open", "refused"
  poisoned,        \* _poisoned is set
  pc,              \* next file step of the running operation, "idle" if none
  cur,             \* its attempt
  todo             \* assignments _load_records has not gone through

disk == <<assignmentFile, eventFiles, resultFile, identityFile>>
memory == <<assignments, events, results>>
control == <<epoch, status, poisoned, pc, cur, todo>>
vars == <<assignmentFile, eventFiles, resultFile, identityFile, assignments,
          events, results, epoch, status, poisoned, pc, cur, todo>>

-----------------------------------------------------------------------------
(* Records *)

Transitions ==
  [ received     |-> {"ack_sent", "reject_sent", "revoked"},
    ack_sent     |-> {"confirmed", "revoked"},
    confirmed    |-> {"started", "revoked"},
    started      |-> {"finished", "revoked"},
    finished     |-> {"result_acked", "revoked"},
    reject_sent  |-> {"rejected", "revoked"},
    rejected     |-> {},
    result_acked |-> {},
    revoked      |-> {} ]

States == DOMAIN Transitions
Terminal == {"rejected", "result_acked", "revoked"}

\* The states the worker passes to advance_assignment; "finished" and
\* "result_acked" are reached through store_result and ack_result only.
WorkerTargets ==
  {"ack_sent", "confirmed", "started", "reject_sent", "rejected", "revoked"}

\* rid is result_id: 0 is the empty string, and the id store_result draws
\* (uuid4) is the epoch of its process, which draws one for an attempt at most.
AssignmentRecord ==
  [state : States \union {"absent"}, last : Nat, acked : Nat,
   ooo : SUBSET (Nat \ {0}), rid : Nat]

NoRecord == [state |-> "absent", last |-> 0, acked |-> 0, ooo |-> {}, rid |-> 0]
\* Mutant: a record that starts in a state the journal does not know.
ReceivedUnknown == [NoRecord EXCEPT !.state = "new"]

Received == [NoRecord EXCEPT !.state = "received"]

ResultRecord == [id : Nat, final : Nat]
NoResult == [id |-> 0, final |-> 0]

Seqs(files) == {f[1] : f \in files}
LastSeq(files) == IF files = {} THEN 0 ELSE Max(Seqs(files))

\* _event_acked as a set: the sequences the record counts as acknowledged.
AckedSeqs(r) == (1 .. r.acked) \union r.ooo

\* Mutant: an ACK moves the watermark over a gap.
ApplyEventAckOverGap(r, seq) == [r EXCEPT !.acked = Max({@, seq}), !.ooo = {}]

\* _apply_event_ack: the watermark runs over what was acknowledged before it.
ApplyEventAck(r, seq) ==
  IF seq \in AckedSeqs(r) THEN r
  ELSE IF seq = r.acked + 1
    THEN LET top == Max({k \in seq .. r.last : (seq + 1) .. k \subseteq r.ooo})
         IN [r EXCEPT !.acked = top, !.ooo = {i \in r.ooo : i > top}]
    ELSE [r EXCEPT !.ooo = @ \union {seq}]

\* len(_file_sizes), on which _ensure_capacity bounds the records.
FileCount ==
  Cardinality({a \in Attempts : assignmentFile[a] # NoRecord})
  + Cardinality({a \in Attempts : resultFile[a] # NoResult})
  + Cardinality(UNION {{a} \X eventFiles[a] : a \in Attempts})

RoomForOneMore == FileCount + 1 <= MaxRecords

-----------------------------------------------------------------------------
(* File steps *)

EmptyMemory ==
  /\ assignments' = [a \in Attempts |-> NoRecord]
  /\ events' = [a \in Attempts |-> {}]
  /\ results' = [a \in Attempts |-> NoResult]

\* The process is gone (a crash, close(), or __init__ raising).
Halt ==
  /\ EmptyMemory
  /\ status' = "closed"
  /\ poisoned' = FALSE
  /\ pc' = "idle"
  /\ todo' = {}
  /\ UNCHANGED <<epoch, cur>>

\* The exception of a file step reaches _poison, or the caller of __init__.
Raise ==
  IF status = "open"
    THEN /\ poisoned' = TRUE
         /\ pc' = "idle"
         /\ UNCHANGED <<assignments, events, results, epoch, status, cur, todo>>
    ELSE Halt

\* A file operation: it happens and the operation goes on; it happens and then
\* raises; or it raises before anything is on disk.
FileStep(Effect, Then) ==
  \/ Effect /\ Then
  \/ Effect /\ Raise
  \/ UNCHANGED disk /\ Raise

PutAssignment(a) ==
  /\ assignmentFile[a] # NoRecord \/ RoomForOneMore
  /\ assignmentFile' = [assignmentFile EXCEPT ![a] = assignments[a]]
  /\ UNCHANGED <<eventFiles, resultFile, identityFile>>

PutEvent(a, f) ==
  /\ RoomForOneMore
  /\ eventFiles' = [eventFiles EXCEPT ![a] = @ \union {f}]
  /\ UNCHANGED <<assignmentFile, resultFile, identityFile>>

PutResult(a, r) ==
  /\ resultFile[a] # NoResult \/ RoomForOneMore
  /\ resultFile' = [resultFile EXCEPT ![a] = r]
  /\ UNCHANGED <<assignmentFile, eventFiles, identityFile>>

DropAssignment(a) ==
  /\ assignmentFile' = [assignmentFile EXCEPT ![a] = NoRecord]
  /\ UNCHANGED <<eventFiles, resultFile, identityFile>>

DropEvent(a, f) ==
  /\ eventFiles' = [eventFiles EXCEPT ![a] = @ \ {f}]
  /\ UNCHANGED <<assignmentFile, resultFile, identityFile>>

DropResult(a) ==
  /\ resultFile' = [resultFile EXCEPT ![a] = NoResult]
  /\ UNCHANGED <<assignmentFile, eventFiles, identityFile>>

\* What is left of the operation after the file step.
GoTo(label) ==
  /\ pc' = label
  /\ UNCHANGED <<assignments, events, results, epoch, status, poisoned, cur, todo>>

-----------------------------------------------------------------------------
(* Operations of an open store: the part before the first file step *)

\* _ready(), and no other operation holds the lock.
Ready == status = "open" /\ ~poisoned /\ pc = "idle"

Begin(a, label) ==
  /\ pc' = label
  /\ cur' = a
  /\ UNCHANGED <<assignmentFile, eventFiles, resultFile, identityFile, epoch,
                 status, poisoned, todo>>

\* A redelivered assignment finds its record, which is written again as it is.
CreateAssignment(a) ==
  /\ Ready
  /\ assignments' = IF assignments[a] = NoRecord
                      THEN [assignments EXCEPT ![a] = Received] ELSE assignments
  /\ Begin(a, "persist")
  /\ UNCHANGED <<events, results>>

AdvanceAssignment(a, state) ==
  /\ Ready
  /\ assignments[a] # NoRecord
  /\ state \in Transitions[assignments[a].state] \union {assignments[a].state}
  /\ assignments' = [assignments EXCEPT ![a].state = state]
  /\ Begin(a, "persist")
  /\ UNCHANGED <<events, results>>

\* append_event writes the Event before it touches the record in memory.
AppendEvent(a) ==
  /\ Ready
  /\ assignments[a].state = "started"
  /\ assignments[a].last < MaxEvents
  /\ Begin(a, "event")
  /\ UNCHANGED <<assignments, events, results>>

\* Mutant: the ACK stays in memory until the next write of the record.
AckEventInMemory(a, seq) ==
  /\ Ready
  /\ seq \in Seqs(events[a])
  /\ assignments' = [assignments EXCEPT ![a] = ApplyEventAck(@, seq)]
  /\ Begin(a, "idle")
  /\ UNCHANGED <<events, results>>

AckEvent(a, seq) ==
  /\ Ready
  /\ assignments[a].state \in {"started", "finished"}
  /\ seq \in Seqs(events[a])
  /\ assignments' = [assignments EXCEPT ![a] = ApplyEventAck(@, seq)]
  /\ Begin(a, "persist")
  /\ UNCHANGED <<events, results>>

StoreResult(a) ==
  /\ Ready
  /\ results[a] = NoResult
  /\ assignments[a].state = "started"
  /\ Begin(a, "result")
  /\ UNCHANGED <<assignments, events, results>>

\* Mutants: the Result is removed before the journal is written; the state is not
\* checked, so a late Result ACK turns a revoked record into result_acked.
AckResultUnlinkFirst(a) ==
  /\ Ready
  /\ assignments[a].state = "finished"
  /\ assignments' = [assignments EXCEPT ![a].state = "result_acked"]
  /\ Begin(a, "unlink_result")
  /\ UNCHANGED <<events, results>>
AckResultAnyState(a) ==
  /\ Ready
  /\ results[a] # NoResult
  /\ assignments' = [assignments EXCEPT ![a].state = "result_acked"]
  /\ Begin(a, "persist_ack")
  /\ UNCHANGED <<events, results>>

AckResult(a) ==
  /\ Ready
  /\ results[a] # NoResult
  /\ assignments[a].state = "finished"
  /\ assignments' = [assignments EXCEPT ![a].state = "result_acked"]
  /\ Begin(a, "persist_ack")
  /\ UNCHANGED <<events, results>>

ClearTerminalEvents(a) ==
  /\ Ready
  /\ assignments[a].state \in {"result_acked", "revoked"}
  /\ Begin(a, "clear")
  /\ UNCHANGED <<assignments, events, results>>

DiscardTerminalSpool(a) ==
  /\ Ready
  /\ assignments[a].state \in Terminal
  /\ Begin(a, "discard")
  /\ UNCHANGED <<assignments, events, results>>

\* Mutant: the record of an attempt goes before its spool.
DeleteAssignmentBeforeSpool(a) ==
  /\ Ready
  /\ assignments[a].state \in Terminal
  /\ Begin(a, "delete")
  /\ UNCHANGED <<assignments, events, results>>

DeleteAssignment(a) ==
  /\ Ready
  /\ assignments[a].state \in Terminal
  /\ events[a] = {}
  /\ results[a] = NoResult
  /\ Begin(a, "delete")
  /\ UNCHANGED <<assignments, events, results>>

Close ==
  /\ status = "open"
  /\ pc = "idle"
  /\ Halt
  /\ UNCHANGED disk

-----------------------------------------------------------------------------
(* Operations of an open store: their file steps *)

PersistAssignment ==
  /\ pc = "persist"
  /\ FileStep(PutAssignment(cur), GoTo("idle"))

WriteEvent ==
  /\ pc = "event"
  /\ LET f == <<assignments[cur].last + 1, epoch>>
     IN FileStep(PutEvent(cur, f),
                 /\ events' = [events EXCEPT ![cur] = @ \union {f}]
                 /\ assignments' = [assignments EXCEPT ![cur].last = f[1]]
                 /\ pc' = "persist"
                 /\ UNCHANGED <<results, epoch, status, poisoned, cur, todo>>)

WriteResult ==
  /\ pc = "result"
  /\ LET r == [id |-> epoch, final |-> assignments[cur].last]
     IN FileStep(PutResult(cur, r),
                 /\ results' = [results EXCEPT ![cur] = r]
                 /\ assignments' = [assignments EXCEPT ![cur].state = "finished",
                                                       ![cur].rid = r.id]
                 /\ pc' = "persist"
                 /\ UNCHANGED <<events, epoch, status, poisoned, cur, todo>>)

\* ack_result: the journal says result_acked before the Result is removed.
PersistAck ==
  /\ pc = "persist_ack"
  /\ FileStep(PutAssignment(cur), GoTo("unlink_result"))

UnlinkResult ==
  /\ pc = "unlink_result"
  /\ FileStep(DropResult(cur),
              /\ results' = [results EXCEPT ![cur] = NoResult]
              /\ pc' = "idle"
              /\ UNCHANGED <<assignments, events, epoch, status, poisoned, cur, todo>>)

\* clear_terminal_events and discard_terminal_spool remove one Event file after
\* another and forget them all at the end.
RemoveEvent ==
  /\ pc \in {"clear", "discard"}
  /\ \E f \in eventFiles[cur] : FileStep(DropEvent(cur, f), GoTo(pc))

ClearDone ==
  /\ pc = "clear"
  /\ eventFiles[cur] = {}
  /\ events' = [events EXCEPT ![cur] = {}]
  /\ pc' = "idle"
  /\ UNCHANGED <<assignmentFile, eventFiles, resultFile, identityFile, assignments,
                 results, epoch, status, poisoned, cur, todo>>

DiscardResult ==
  /\ pc = "discard"
  /\ eventFiles[cur] = {}
  /\ results[cur] # NoResult
  /\ FileStep(DropResult(cur),
              /\ events' = [events EXCEPT ![cur] = {}]
              /\ results' = [results EXCEPT ![cur] = NoResult]
              /\ pc' = "idle"
              /\ UNCHANGED <<assignments, epoch, status, poisoned, cur, todo>>)

DiscardDone ==
  /\ pc = "discard"
  /\ eventFiles[cur] = {}
  /\ results[cur] = NoResult
  /\ events' = [events EXCEPT ![cur] = {}]
  /\ pc' = "idle"
  /\ UNCHANGED <<assignmentFile, eventFiles, resultFile, identityFile, assignments,
                 results, epoch, status, poisoned, cur, todo>>

UnlinkAssignment ==
  /\ pc = "delete"
  /\ FileStep(DropAssignment(cur),
              /\ assignments' = [assignments EXCEPT ![cur] = NoRecord]
              /\ pc' = "idle"
              /\ UNCHANGED <<events, results, epoch, status, poisoned, cur, todo>>)

-----------------------------------------------------------------------------
(* Opening the store *)

\* Mutant: the epoch is drawn in memory only.
OpenIdentityUnsaved ==
  /\ status = "closed"
  /\ identityFile < MaxEpoch
  /\ epoch' = identityFile + 1
  /\ status' = "loading"
  /\ pc' = "load"
  /\ UNCHANGED <<assignmentFile, eventFiles, resultFile, identityFile, assignments,
                 events, results, poisoned, cur, todo>>

\* __init__: the next epoch is on disk before the process uses it.
OpenIdentity ==
  /\ status = "closed"
  /\ identityFile < MaxEpoch
  /\ FileStep(/\ identityFile' = identityFile + 1
              /\ UNCHANGED <<assignmentFile, eventFiles, resultFile>>,
              /\ epoch' = identityFile + 1
              /\ status' = "loading"
              /\ pc' = "load"
              /\ UNCHANGED <<assignments, events, results, poisoned, cur, todo>>)

Refuse ==
  /\ status' = "refused"
  /\ pc' = "idle"
  /\ UNCHANGED <<assignmentFile, eventFiles, resultFile, identityFile, assignments,
                 events, results, epoch, poisoned, cur, todo>>

\* The three directory scans of _load_records.
Orphaned(a) ==
  assignmentFile[a] = NoRecord /\ (eventFiles[a] # {} \/ resultFile[a] # NoResult)
DuplicateSeq(a) == \E f, g \in eventFiles[a] : f[1] = g[1] /\ f # g
Unreadable == \E a \in Attempts : Orphaned(a) \/ DuplicateSeq(a)

ReadRecords ==
  /\ pc = "load"
  /\ IF Unreadable
       THEN Refuse
       ELSE /\ assignments' = assignmentFile
            /\ events' = eventFiles
            /\ results' = resultFile
            /\ todo' = {a \in Attempts : assignmentFile[a] # NoRecord}
            /\ pc' = "scan"
            /\ UNCHANGED <<assignmentFile, eventFiles, resultFile, identityFile, epoch,
                           status, poisoned, cur>>

\* The loop over the assignments.
Scan(a) ==
  /\ pc = "scan"
  /\ a \in todo
  /\ pc' = IF assignments[a].state \in Terminal THEN "drop_result" ELSE "check_events"
  /\ cur' = a
  /\ todo' = todo \ {a}
  /\ UNCHANGED <<assignmentFile, eventFiles, resultFile, identityFile, assignments,
                 events, results, epoch, status, poisoned>>

Opened ==
  /\ pc = "scan"
  /\ todo = {}
  /\ status' = "open"
  /\ pc' = "idle"
  /\ UNCHANGED <<assignmentFile, eventFiles, resultFile, identityFile, assignments,
                 events, results, epoch, poisoned, cur, todo>>

\* A terminal record loses its Result and Events, and stays.
RecoverDropResult ==
  /\ pc = "drop_result"
  /\ IF results[cur] # NoResult
       THEN FileStep(DropResult(cur),
                     /\ results' = [results EXCEPT ![cur] = NoResult]
                     /\ pc' = "drop_events"
                     /\ UNCHANGED <<assignments, events, epoch, status, poisoned, cur, todo>>)
       ELSE UNCHANGED disk /\ GoTo("drop_events")

RecoverDropEvent ==
  /\ pc = "drop_events"
  /\ \E f \in eventFiles[cur] : FileStep(DropEvent(cur, f), GoTo("drop_events"))

RecoverDropped ==
  /\ pc = "drop_events"
  /\ eventFiles[cur] = {}
  /\ events' = [events EXCEPT ![cur] = {}]
  /\ pc' = "scan"
  /\ UNCHANGED <<assignmentFile, eventFiles, resultFile, identityFile, assignments,
                 results, epoch, status, poisoned, cur, todo>>

Gap(files) == \E i \in Seqs(files) : \E j \in 1 .. i : j \notin Seqs(files)

EventsDisagree ==
  \/ Gap(events[cur])
  \/ LastSeq(events[cur]) < assignments[cur].last
  \/ LastSeq(events[cur]) > assignments[cur].last + 1

\* An Event file one ahead of the journal is the append the crash cut short.
RecoverEvents ==
  /\ pc = "check_events"
  /\ IF EventsDisagree
       THEN Refuse
     ELSE IF LastSeq(events[cur]) > assignments[cur].last
       THEN /\ assignments' = [assignments EXCEPT ![cur].last = LastSeq(events[cur])]
            /\ pc' = "repair_events"
            /\ UNCHANGED <<assignmentFile, eventFiles, resultFile, identityFile, events,
                           results, epoch, status, poisoned, cur, todo>>
       ELSE UNCHANGED disk /\ GoTo("check_result")

RepairEvents ==
  /\ pc = "repair_events"
  /\ FileStep(PutAssignment(cur), GoTo("check_result"))

ResultDisagrees ==
  LET r == assignments[cur]
  IN IF results[cur] # NoResult
       THEN \/ results[cur].final # r.last
            \/ ~(r.state = "started" /\ r.rid = 0) /\ r.rid # results[cur].id
       ELSE r.state = "finished"

\* A Result without its journal entry is the store_result the crash cut short.
RecoverResult ==
  /\ pc = "check_result"
  /\ IF ResultDisagrees
       THEN Refuse
     ELSE IF results[cur] # NoResult /\ assignments[cur].state = "started" /\ assignments[cur].rid = 0
       THEN /\ assignments' = [assignments EXCEPT ![cur].state = "finished",
                                                  ![cur].rid = results[cur].id]
            /\ pc' = "repair_result"
            /\ UNCHANGED <<assignmentFile, eventFiles, resultFile, identityFile, events,
                           results, epoch, status, poisoned, cur, todo>>
       ELSE UNCHANGED disk /\ GoTo("scan")

RepairResult ==
  /\ pc = "repair_result"
  /\ FileStep(PutAssignment(cur), GoTo("scan"))

\* The process dies at any point.
Crash ==
  /\ status \in {"loading", "open"}
  /\ Halt
  /\ UNCHANGED disk

-----------------------------------------------------------------------------

Init ==
  /\ assignmentFile = [a \in Attempts |-> NoRecord]
  /\ eventFiles = [a \in Attempts |-> {}]
  /\ resultFile = [a \in Attempts |-> NoResult]
  /\ identityFile = 0
  /\ assignments = [a \in Attempts |-> NoRecord]
  /\ events = [a \in Attempts |-> {}]
  /\ results = [a \in Attempts |-> NoResult]
  /\ epoch = 0
  /\ status = "closed"
  /\ poisoned = FALSE
  /\ pc = "idle"
  /\ cur \in Attempts
  /\ todo = {}

Operation(a) ==
  \/ CreateAssignment(a)
  \/ \E state \in WorkerTargets : AdvanceAssignment(a, state)
  \/ AppendEvent(a)
  \/ \E seq \in 1 .. MaxEvents : AckEvent(a, seq)
  \/ StoreResult(a)
  \/ AckResult(a)
  \/ ClearTerminalEvents(a)
  \/ DiscardTerminalSpool(a)
  \/ DeleteAssignment(a)

FileOperation ==
  \/ PersistAssignment \/ WriteEvent \/ WriteResult \/ PersistAck \/ UnlinkResult
  \/ RemoveEvent \/ ClearDone \/ DiscardResult \/ DiscardDone \/ UnlinkAssignment

Recovery ==
  \/ OpenIdentity \/ ReadRecords
  \/ \E a \in Attempts : Scan(a)
  \/ Opened
  \/ RecoverDropResult \/ RecoverDropEvent \/ RecoverDropped
  \/ RecoverEvents \/ RepairEvents
  \/ RecoverResult \/ RepairResult

Next ==
  \/ \E a \in Attempts : Operation(a)
  \/ FileOperation
  \/ Recovery
  \/ Close
  \/ Crash

Spec == Init /\ [][Next]_vars

-----------------------------------------------------------------------------
(* Properties *)

Labels == {"idle", "persist", "event", "result", "persist_ack", "unlink_result",
           "clear", "discard", "delete", "load", "scan", "drop_result", "drop_events",
           "check_events", "repair_events", "check_result", "repair_result"}
Statuses == {"closed", "loading", "open", "refused"}
EventFile == Nat \X Nat

\* The shape of every variable.
TypeOK ==
  /\ assignmentFile \in [Attempts -> AssignmentRecord]
  /\ eventFiles \in [Attempts -> SUBSET EventFile]
  /\ resultFile \in [Attempts -> ResultRecord]
  /\ identityFile \in Nat
  /\ assignments \in [Attempts -> AssignmentRecord]
  /\ events \in [Attempts -> SUBSET EventFile]
  /\ results \in [Attempts -> ResultRecord]
  /\ epoch \in Nat
  /\ status \in Statuses
  /\ poisoned \in BOOLEAN
  /\ pc \in Labels
  /\ cur \in Attempts
  /\ todo \subseteq Attempts

\* Wherever an operation is cut short by a crash or a failing write, _load_records
\* accepts what is on disk: it never raises RuntimeStoreCorrupt for it.
RecoveryNeverRefuses == status # "refused"

\* A call that returned has its whole effect on disk: between operations the
\* process remembers nothing the next one would not find, until a write fails.
ReturnedMeansDurable ==
  Ready => memory = <<assignmentFile, eventFiles, resultFile>>

\* An Event or Result file goes only when the journal on disk already says that
\* the attempt is over, in the operations and in the recovery after a crash.
SpoolOutlivesAttempt ==
  [][\A a \in Attempts :
       (eventFiles[a] \ eventFiles'[a] # {} \/ (resultFile[a] # NoResult /\ resultFile'[a] # resultFile[a]))
         => assignmentFile[a].state \in Terminal]_vars

\* The journal on disk follows _TRANSITIONS one edge at a time, whichever of the
\* operations or repairs writes it, and a record goes only when it is terminal.
JournalFollowsTransitions ==
  [][\A a \in Attempts :
       LET old == assignmentFile[a].state  new == assignmentFile'[a].state
       IN \/ new = old
          \/ old = "absent" /\ new = "received"
          \/ old \in Terminal /\ new = "absent"
          \/ old # "absent" /\ new \in Transitions[old]]_vars

\* What Core acknowledged stays acknowledged on disk for the life of the record, one
\* ACK acknowledges one appended Event, whatever the order the ACKs come in, and
\* the watermark with the numbers beyond it stays in normal form: no Event is
\* skipped because a later one was acknowledged first.
AcksNeverLost ==
  [][\A a \in Attempts :
       LET old == assignmentFile[a]  new == assignmentFile'[a]
       IN new.state # "absent" =>
            /\ AckedSeqs(old) \subseteq AckedSeqs(new)
            /\ AckedSeqs(new) \subseteq Seqs(eventFiles[a]) \union AckedSeqs(old)
            /\ Cardinality(AckedSeqs(new) \ AckedSeqs(old)) <= 1
            /\ \A i \in new.ooo : i > new.acked + 1]_vars

\* No two processes use one session epoch, also when the first died or failed
\* while opening: an epoch is on disk before it is used.
EpochNeverReused ==
  [][(epoch' # epoch => epoch' > epoch) /\ epoch' <= identityFile']_vars
=============================================================================
