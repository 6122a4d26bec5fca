-------------------------- MODULE RuntimeStoreProofs --------------------------
(***************************************************************************)
(* What RuntimeStore keeps for every set of attempts, every number of      *)
(* Events, every record limit and every number of restarts.                *)
(***************************************************************************)
EXTENDS RuntimeStore, FiniteSetTheorems, WellFoundedInduction, TLAPS

-----------------------------------------------------------------------------
(* The inductive invariant *)

Ended(r) == r.state \in Terminal
Running(r) == r.state # "absent" /\ r.state \notin Terminal

\* No two Event files of one attempt have the same number.
Distinct(E) == \A f, g \in E : f[1] = g[1] => f = g

\* The Event files of a running attempt are numbered 1..n.
Numbered(E, n) == Seqs(E) = 1 .. n /\ Distinct(E)

\* A journal record with the files beside it as a crash may leave them.
WellFormed(r, E, R) ==
  /\ Distinct(E)
  /\ r.state = "absent" => r = NoRecord /\ E = {} /\ R = NoResult
  /\ Running(r) =>
       /\ \/ Numbered(E, r.last)
          \/ Numbered(E, r.last + 1) /\ r.state = "started" /\ R = NoResult
       /\ R # NoResult =>
            /\ R.final = r.last
            /\ \/ r.state = "started" /\ r.rid = 0
               \/ r.state = "finished" /\ r.rid = R.id
       /\ r.state # "finished" => r.rid = 0
       /\ r.state = "finished" => R # NoResult

\* The same between operations: nothing is left to repair.
Settled(r, E, R) ==
  /\ Distinct(E)
  /\ r.state = "absent" => r = NoRecord /\ E = {} /\ R = NoResult
  /\ Running(r) =>
       /\ Numbered(E, r.last)
       /\ R # NoResult => R.final = r.last /\ r.rid = R.id
       /\ r.state # "finished" => r.rid = 0
       /\ r.state = "finished" <=> R # NoResult

DiskOK == \A a \in Attempts : WellFormed(assignmentFile[a], eventFiles[a], resultFile[a])

LoadLabels == {"scan", "drop_result", "drop_events", "check_events", "repair_events",
               "check_result", "repair_result"}
CallLabels == {"persist", "event", "result", "persist_ack", "unlink_result",
               "clear", "discard", "delete"}

\* Which file steps belong to a store being opened and which to an open one.
PhaseOK ==
  /\ status # "refused"
  /\ pc \in CallLabels => status = "open"
  /\ pc \in LoadLabels \union {"load"} <=> status = "loading"
  /\ poisoned => status = "open" /\ pc = "idle"
  /\ status = "open" => todo = {}
  /\ \A a \in todo : assignments[a].state # "absent"
  /\ status \in {"loading", "open"} => epoch > 0

\* The process knows the disk: the store is open and sound, or past reading it.
Informed == (status = "open" /\ ~poisoned) \/ pc \in LoadLabels

Agree(a) ==
  /\ assignments[a] = assignmentFile[a]
  /\ events[a] = eventFiles[a]
  /\ results[a] = resultFile[a]

\* Only the attempt of the running operation may differ from its files.
OthersAgree == Informed => \A a \in Attempts \ {cur} : Agree(a)

\* What the process holds for an attempt it is not repairing needs no repair.
OthersSettled ==
  Informed => \A a \in Attempts \ todo :
    \/ a = cur /\ pc \in {"check_events", "repair_events", "check_result"}
    \/ Settled(assignments[a], events[a], results[a])

\* How far the attempt of the running operation is from its files.
CurrentOK ==
  Informed =>
    LET r == assignments[cur]  E == eventFiles[cur]  R == resultFile[cur]
    IN /\ results[cur] = R
       /\ pc \notin {"clear", "discard", "drop_events"} => events[cur] = E
       /\ pc \in {"clear", "discard", "drop_events"} => E \subseteq events[cur]
       /\ pc \notin {"persist", "persist_ack", "repair_events", "repair_result"}
            => r = assignmentFile[cur]
       /\ pc \in {"persist", "persist_ack", "repair_events", "repair_result"}
            => WellFormed(r, E, R) /\ r.state # "absent"
       /\ pc \in {"event", "result"} => r.state = "started"
       /\ pc \in {"persist_ack", "unlink_result", "clear", "discard", "delete",
                  "drop_result", "drop_events"} => Ended(r)
       /\ pc = "delete" => E = {} /\ R = NoResult
       /\ pc \in {"check_events", "repair_events", "check_result", "repair_result"}
            => Running(r) /\ cur \notin todo
       /\ pc \in {"repair_events", "check_result", "repair_result"} => Numbered(E, r.last)

IInv == TypeOK /\ DiskOK /\ PhaseOK /\ OthersAgree /\ OthersSettled /\ CurrentOK

-----------------------------------------------------------------------------
(* Lemmas *)

\* The states as a plain set.
LEMMA StatesAre ==
  States = {"received", "ack_sent", "confirmed", "started", "finished",
            "reject_sent", "rejected", "result_acked", "revoked"}
BY DEF States, Transitions

\* The largest element of a set that has one.
LEMMA MaxIs ==
  ASSUME NEW S \in SUBSET Nat, NEW n \in S, \A m \in S : m <= n
  PROVE  Max(S) = n
<1>1. \A y \in S : n >= y
  OBVIOUS
<1>2. \A x \in S : (\A y \in S : x >= y) => x = n
  OBVIOUS
<1> QED BY <1>1, <1>2 DEF Max

\* A set of numbers with an upper bound has a largest element.
LEMMA MaxExists ==
  ASSUME NEW S \in SUBSET Nat, S # {}, NEW top \in Nat, \A m \in S : m <= top
  PROVE  Max(S) \in S /\ \A m \in S : m <= Max(S)
<1> DEFINE T == {top - m : m \in S}
<1>1. T \subseteq Nat /\ T # {}
  <2>1. \A m \in S : m \in Nat /\ top - m \in Nat
    OBVIOUS
  <2>2. PICK m \in S : TRUE
    OBVIOUS
  <2>3. top - m \in T
    OBVIOUS
  <2> QED BY <2>1, <2>3
<1>2. PICK t \in T : \A u \in T : ~ (<<u, t>> \in OpToRel(<, Nat))
  <2> HIDE DEF T
  <2> QED BY <1>1, WFMin, NatLessThanWellFounded
<1>3. \A u \in T : ~ (u < t)
  BY <1>1, <1>2 DEF OpToRel
<1>4. PICK n \in S : t = top - n
  OBVIOUS
<1>5. \A m \in S : m <= n
  <2> TAKE m \in S
  <2>1. top - m \in T /\ m \in Nat /\ n \in Nat
    OBVIOUS
  <2>2. ~ (top - m < top - n)
    BY <2>1, <1>3, <1>4
  <2> HIDE DEF T
  <2> QED BY <2>1, <2>2
<1> QED BY <1>5, MaxIs

\* Types of the directory alone.
DiskTyped ==
  /\ assignmentFile \in [Attempts -> AssignmentRecord]
  /\ eventFiles \in [Attempts -> SUBSET EventFile]
  /\ resultFile \in [Attempts -> ResultRecord]
  /\ identityFile \in Nat

LEMMA ConstantsTyped ==
  /\ NoRecord \in AssignmentRecord
  /\ Received \in AssignmentRecord
  /\ NoResult \in ResultRecord
BY StatesAre DEF NoRecord, Received, AssignmentRecord, NoResult, ResultRecord

\* What the worker may advance a record to: no edge of its own leads to
\* "finished", and from a started or finished record it can only revoke.
LEMMA WorkerEdges ==
  ASSUME NEW s \in States, NEW t \in Transitions[s], t \in WorkerTargets
  PROVE  /\ s \notin Terminal /\ s # "absent" /\ t \in States /\ t # "absent"
         /\ t \in Terminal \/ (s \notin {"started", "finished"} /\ t # "finished")
BY StatesAre DEF Transitions, WorkerTargets, Terminal

\* Updating fields of one attempt's record keeps the records typed.
LEMMA StateUpdate ==
  ASSUME NEW f \in [Attempts -> AssignmentRecord], NEW a \in Attempts, NEW s \in States
  PROVE  /\ [f EXCEPT ![a].state = s] \in [Attempts -> AssignmentRecord]
         /\ [f EXCEPT ![a].state = s][a] = [f[a] EXCEPT !.state = s]
<1>1. [f[a] EXCEPT !.state = s] \in AssignmentRecord
  BY DEF AssignmentRecord
<1> QED BY <1>1

LEMMA LastUpdate ==
  ASSUME NEW f \in [Attempts -> AssignmentRecord], NEW a \in Attempts, NEW n \in Nat
  PROVE  /\ [f EXCEPT ![a].last = n] \in [Attempts -> AssignmentRecord]
         /\ [f EXCEPT ![a].last = n][a] = [f[a] EXCEPT !.last = n]
<1>1. [f[a] EXCEPT !.last = n] \in AssignmentRecord
  BY DEF AssignmentRecord
<1> QED BY <1>1

LEMMA FinishUpdate ==
  ASSUME NEW f \in [Attempts -> AssignmentRecord], NEW a \in Attempts, NEW s \in States, NEW n \in Nat
  PROVE  /\ [f EXCEPT ![a].state = s, ![a].rid = n] \in [Attempts -> AssignmentRecord]
         /\ [f EXCEPT ![a].state = s, ![a].rid = n][a] = [f[a] EXCEPT !.state = s, !.rid = n]
<1>1. [f[a] EXCEPT !.state = s, !.rid = n] \in AssignmentRecord
  BY DEF AssignmentRecord
<1> QED BY <1>1

\* Numbered Event files: what the recovery computes from them.
LEMMA NumberedFiles ==
  ASSUME NEW E \in SUBSET EventFile, NEW n \in Nat, Numbered(E, n)
  PROVE  LastSeq(E) = n /\ ~Gap(E)
<1>1. CASE E = {}
  <2>1. Seqs(E) = {}
    BY <1>1 DEF Seqs
  <2>2. 1 .. n = {}
    BY <2>1 DEF Numbered
  <2>3. n = 0
    BY <2>2
  <2> QED BY <1>1, <2>1, <2>3 DEF LastSeq, Gap
<1>2. CASE E # {}
  <2>1. Seqs(E) # {} /\ Seqs(E) = 1 .. n
    BY <1>2 DEF Seqs, Numbered
  <2>2. n \in Seqs(E) /\ \A m \in Seqs(E) : m <= n
    BY <2>1
  <2>3. Max(Seqs(E)) = n
    BY <2>1, <2>2, MaxIs
  <2>4. ~Gap(E)
    BY <2>1 DEF Gap
  <2> QED BY <1>2, <2>3, <2>4 DEF LastSeq, Numbered
<1> QED BY <1>1, <1>2

\* The Event that append_event writes continues the numbering.
LEMMA NumberedNext ==
  ASSUME NEW E \in SUBSET EventFile, NEW n \in Nat, Numbered(E, n), NEW id \in Nat
  PROVE  /\ Numbered(E \union {<<n + 1, id>>}, n + 1)
         /\ E \union {<<n + 1, id>>} \in SUBSET EventFile
<1> DEFINE e == <<n + 1, id>>
           F == E \union {e}
<1>a. e[1] = n + 1 /\ e \in EventFile
  BY DEF EventFile
<1> HIDE DEF e
<1>1. F \in SUBSET EventFile
  BY <1>a
<1>2. Seqs(F) = Seqs(E) \union {n + 1}
  BY <1>a DEF Seqs
<1>3. Seqs(F) = 1 .. (n + 1)
  <2>1. Seqs(E) = 1 .. n
    BY DEF Numbered
  <2>2. (1 .. n) \union {n + 1} = 1 .. (n + 1)
    OBVIOUS
  <2> QED BY <1>2, <2>1, <2>2
<1>4. \A f \in E : f[1] # n + 1
  <2>1. \A f \in E : f[1] \in Seqs(E)
    BY DEF Seqs
  <2> QED BY <2>1 DEF Numbered
<1>5. Distinct(F)
  BY <1>a, <1>4 DEF Numbered, Distinct
<1> QED BY <1>1, <1>3, <1>5 DEF Numbered, e

\* A record just created needs no repair, and no files.
LEMMA ReceivedSettled == Settled(Received, {}, NoResult) /\ WellFormed(Received, {}, NoResult)
<1>1. Numbered({}, 0)
  BY DEF Numbered, Seqs, Distinct
<1> QED BY <1>1 DEF Settled, WellFormed, Received, NoRecord, Running, Terminal, Distinct

\* A failing file step leaves a sound disk and a store that is poisoned or gone.
LEMMA RaiseOK ==
  ASSUME IInv, Raise, DiskOK', DiskTyped'
  PROVE  IInv'
<1>1. TypeOK'
  BY ConstantsTyped
  DEF IInv, TypeOK, DiskTyped, Raise, Halt, EmptyMemory, Labels, Statuses
<1>2. PhaseOK'
  BY DEF IInv, PhaseOK, Raise, Halt, EmptyMemory, LoadLabels, CallLabels
<1>3. ~Informed'
  BY <1>2 DEF Informed, PhaseOK, Raise, Halt, EmptyMemory, LoadLabels
<1> QED
  BY <1>1, <1>2, <1>3 DEF IInv, OthersAgree, OthersSettled, CurrentOK

LEMMA UntouchedOK ==
  ASSUME IInv, UNCHANGED disk
  PROVE  DiskOK' /\ DiskTyped'
BY DEF IInv, TypeOK, DiskTyped, DiskOK, disk

LEMMA PersistAssignmentOK ==
  ASSUME IInv, PersistAssignment
  PROVE  IInv'
<1> USE DEF IInv
<1>1. Informed /\ cur \in Attempts /\ status = "open" /\ ~poisoned /\ pc = "persist"
  BY DEF PersistAssignment, PhaseOK, Informed, CallLabels, TypeOK
<1>2. ASSUME PutAssignment(cur) PROVE DiskOK' /\ DiskTyped'
  BY <1>1, <1>2 DEF TypeOK, DiskTyped, DiskOK, CurrentOK, PutAssignment
<1>3. CASE PutAssignment(cur) /\ GoTo("idle")
  <2>1. TypeOK'
    BY <1>2, <1>3 DEF TypeOK, DiskTyped, GoTo, Labels
  <2>2. PhaseOK' /\ Informed'
    BY <1>1, <1>3 DEF PhaseOK, Informed, GoTo, CallLabels, LoadLabels
  <2>3. OthersAgree'
    BY <1>1, <1>3 DEF TypeOK, OthersAgree, Agree, PutAssignment, GoTo
  <2>4. OthersSettled'
    BY <1>1, <1>3 DEF OthersSettled, PutAssignment, GoTo
  <2>5. CurrentOK'
    BY <1>1, <1>3, <2>2 DEF TypeOK, CurrentOK, PutAssignment, GoTo
  <2> QED BY <1>2, <1>3, <2>1, <2>2, <2>3, <2>4, <2>5
<1> QED BY <1>1, <1>2, <1>3, RaiseOK, UntouchedOK DEF PersistAssignment, FileStep

\* Between two operations the process knows each attempt's files, and none of
\* them needs a repair.
LEMMA ReadyKnows ==
  ASSUME IInv, Ready, NEW a \in Attempts
  PROVE  /\ Agree(a)
         /\ Settled(assignments[a], events[a], results[a])
         /\ assignments[a] \in AssignmentRecord
         /\ todo = {}
<1>1. Informed /\ todo = {} /\ pc = "idle"
  BY DEF IInv, Ready, Informed, PhaseOK
<1>2. Agree(a)
  BY <1>1 DEF IInv, OthersAgree, CurrentOK, Agree
<1> QED BY <1>1, <1>2 DEF IInv, OthersSettled, TypeOK

LEMMA SettledIsWellFormed ==
  ASSUME NEW r, NEW E, NEW R, Settled(r, E, R)
  PROVE  WellFormed(r, E, R)
BY DEF Settled, WellFormed, Running

\* The memory part of an operation on a: the record it leaves in memory needs no
\* repair, and meets what the file step it goes on to expects.
LEMMA BeginOK ==
  ASSUME IInv, Ready, NEW a \in Attempts, NEW label \in CallLabels \ {"unlink_result"},
         Begin(a, label), UNCHANGED <<events, results>>,
         assignments' \in [Attempts -> AssignmentRecord],
         \A b \in Attempts \ {a} : assignments'[b] = assignments[b],
         Settled(assignments'[a], events[a], results[a]),
         label \notin {"persist", "persist_ack"} => assignments'[a] = assignments[a],
         label \in {"persist", "persist_ack"} => assignments'[a].state # "absent",
         label \in {"event", "result"} => assignments'[a].state = "started",
         label \in {"persist_ack", "clear", "discard", "delete"} => Ended(assignments'[a]),
         label = "delete" => events[a] = {} /\ results[a] = NoResult
  PROVE  IInv'
<1> USE DEF IInv
<1>1. /\ Informed' /\ cur' = a /\ pc' = label /\ todo' = {} /\ todo = {}
      /\ status = "open" /\ ~poisoned /\ UNCHANGED <<status, poisoned, epoch>>
      /\ UNCHANGED <<eventFiles, resultFile, assignmentFile, identityFile, events, results>>
  BY DEF Begin, Ready, Informed, PhaseOK
<1>2. \A b \in Attempts : Agree(b) /\ Settled(assignments[b], events[b], results[b])
  BY ReadyKnows
<1>3. TypeOK'
  BY <1>1 DEF TypeOK, Labels, CallLabels
<1>4. DiskOK'
  BY <1>1 DEF DiskOK
<1>5. PhaseOK'
  BY <1>1 DEF PhaseOK, CallLabels, LoadLabels
<1>6. OthersAgree'
  BY <1>1, <1>2 DEF OthersAgree, Agree
<1>7. OthersSettled'
  <2>1. \A b \in Attempts \ {a} : Settled(assignments'[b], events'[b], results'[b])
    BY <1>1, <1>2
  <2>2. Settled(assignments'[a], events'[a], results'[a])
    BY <1>1
  <2> QED BY <2>1, <2>2 DEF OthersSettled
<1>8. CurrentOK'
  <2>1. /\ results'[a] = resultFile'[a] /\ events'[a] = eventFiles'[a]
        /\ label \notin {"persist", "persist_ack"} => assignments'[a] = assignmentFile'[a]
    BY <1>1, <1>2 DEF Agree
  <2>2. WellFormed(assignments'[a], eventFiles'[a], resultFile'[a])
    BY <1>1, <2>1, SettledIsWellFormed
  <2> QED BY <1>1, <2>1, <2>2 DEF CurrentOK, CallLabels
<1> QED BY <1>3, <1>4, <1>5, <1>6, <1>7, <1>8

LEMMA AppendEventOK ==
  ASSUME IInv, NEW a \in Attempts, AppendEvent(a)
  PROVE  IInv'
<1>1. Ready /\ Begin(a, "event") /\ UNCHANGED memory /\ assignments[a].state = "started"
  BY DEF AppendEvent, memory
<1> QED BY <1>1, ReadyKnows, BeginOK DEF IInv, TypeOK, memory, CallLabels

LEMMA StoreResultOK ==
  ASSUME IInv, NEW a \in Attempts, StoreResult(a)
  PROVE  IInv'
<1>1. Ready /\ Begin(a, "result") /\ UNCHANGED memory /\ assignments[a].state = "started"
  BY DEF StoreResult, memory
<1> QED BY <1>1, ReadyKnows, BeginOK DEF IInv, TypeOK, memory, CallLabels

LEMMA ClearTerminalEventsOK ==
  ASSUME IInv, NEW a \in Attempts, ClearTerminalEvents(a)
  PROVE  IInv'
<1>1. Ready /\ Begin(a, "clear") /\ UNCHANGED memory /\ Ended(assignments[a])
  BY DEF ClearTerminalEvents, memory, Ended, Terminal
<1> QED BY <1>1, ReadyKnows, BeginOK DEF IInv, TypeOK, memory, CallLabels

LEMMA DiscardTerminalSpoolOK ==
  ASSUME IInv, NEW a \in Attempts, DiscardTerminalSpool(a)
  PROVE  IInv'
<1>1. Ready /\ Begin(a, "discard") /\ UNCHANGED memory /\ Ended(assignments[a])
  BY DEF DiscardTerminalSpool, memory, Ended
<1> QED BY <1>1, ReadyKnows, BeginOK DEF IInv, TypeOK, memory, CallLabels

LEMMA DeleteAssignmentOK ==
  ASSUME IInv, NEW a \in Attempts, DeleteAssignment(a)
  PROVE  IInv'
<1>1. Ready /\ Begin(a, "delete") /\ UNCHANGED memory /\ Ended(assignments[a])
      /\ events[a] = {} /\ results[a] = NoResult
  BY DEF DeleteAssignment, memory, Ended
<1> QED BY <1>1, ReadyKnows, BeginOK DEF IInv, TypeOK, memory, CallLabels

LEMMA AckResultOK ==
  ASSUME IInv, NEW a \in Attempts, AckResult(a)
  PROVE  IInv'
<1>1. /\ Ready /\ Begin(a, "persist_ack") /\ UNCHANGED <<events, results>>
      /\ assignments' = [assignments EXCEPT ![a].state = "result_acked"]
  BY DEF AckResult
<1>2. /\ assignments' \in [Attempts -> AssignmentRecord]
      /\ \A b \in Attempts \ {a} : assignments'[b] = assignments[b]
      /\ assignments'[a].state = "result_acked"
  <2>1. "result_acked" \in States /\ assignments \in [Attempts -> AssignmentRecord]
    BY StatesAre DEF IInv, TypeOK
  <2>2. [assignments[a] EXCEPT !.state = "result_acked"].state = "result_acked"
    BY <2>1 DEF AssignmentRecord
  <2> QED BY <1>1, <2>1, <2>2, StateUpdate
<1>3. Ended(assignments'[a]) /\ Settled(assignments'[a], events[a], results[a])
  BY <1>1, <1>2, ReadyKnows DEF Ended, Terminal, Settled, Running
<1> QED BY <1>1, <1>2, <1>3, BeginOK DEF CallLabels

LEMMA CreateAssignmentOK ==
  ASSUME IInv, NEW a \in Attempts, CreateAssignment(a)
  PROVE  IInv'
<1>1. Ready /\ Begin(a, "persist") /\ UNCHANGED <<events, results>>
  BY DEF CreateAssignment
<1>2. Settled(assignments[a], events[a], results[a])
  BY <1>1, ReadyKnows
<1>3. CASE assignments[a] = NoRecord
  <2>1. events[a] = {} /\ results[a] = NoResult
    BY <1>2, <1>3 DEF Settled, NoRecord
  <2>2. /\ assignments' \in [Attempts -> AssignmentRecord]
        /\ \A b \in Attempts \ {a} : assignments'[b] = assignments[b]
        /\ assignments'[a] = Received
    BY <1>3, ConstantsTyped DEF IInv, TypeOK, CreateAssignment
  <2> QED BY <1>1, <2>1, <2>2, ReceivedSettled, BeginOK DEF CallLabels, Received, NoRecord
<1>4. CASE assignments[a] # NoRecord
  <2>1. assignments' = assignments /\ assignments[a].state # "absent"
    BY <1>2, <1>4 DEF CreateAssignment, Settled
  <2> QED BY <1>1, <1>2, <2>1, BeginOK DEF IInv, TypeOK, CallLabels
<1> QED BY <1>3, <1>4

LEMMA AdvanceAssignmentOK ==
  ASSUME IInv, NEW a \in Attempts, NEW state \in WorkerTargets, AdvanceAssignment(a, state)
  PROVE  IInv'
<1> DEFINE old == assignments[a]
           new == assignments'[a]
<1>1. /\ Ready /\ Begin(a, "persist") /\ UNCHANGED <<events, results>>
      /\ old # NoRecord /\ state \in Transitions[old.state] \union {old.state}
      /\ assignments' = [assignments EXCEPT ![a].state = state]
  BY DEF AdvanceAssignment
<1>2. old \in AssignmentRecord /\ Settled(old, events[a], results[a])
  BY <1>1, ReadyKnows
<1>3. old.state \in States /\ old.state # "absent"
  BY <1>1, <1>2 DEF AssignmentRecord, Settled
<1>4. /\ state \in States /\ state # "absent"
      /\ \/ state = old.state
         \/ Running(old) /\ state \in Terminal
         \/ Running(old) /\ old.state \notin {"started", "finished"} /\ state # "finished"
  BY <1>1, <1>3, WorkerEdges DEF Running
<1>5. /\ assignments' \in [Attempts -> AssignmentRecord]
      /\ \A b \in Attempts \ {a} : assignments'[b] = assignments[b]
      /\ new = [old EXCEPT !.state = state]
  BY <1>1, <1>4, StateUpdate DEF IInv, TypeOK
<1>6. Settled(new, events[a], results[a]) /\ new.state # "absent"
  BY <1>2, <1>4, <1>5 DEF AssignmentRecord, Settled, Running, Terminal
<1> QED BY <1>1, <1>5, <1>6, BeginOK DEF CallLabels

\* What an Event ACK does to a record of 1..last Events: it stays a record, only
\* the acknowledged sequences change, and by exactly the one acknowledged.
LEMMA ApplyEventAckKeeps ==
  ASSUME NEW r \in AssignmentRecord, NEW seq \in 1 .. r.last
  PROVE  LET new == ApplyEventAck(r, seq)
         IN /\ new \in AssignmentRecord
            /\ new.state = r.state /\ new.last = r.last /\ new.rid = r.rid
            /\ AckedSeqs(new) = AckedSeqs(r) \union {seq}
<1> DEFINE S == {k \in seq .. r.last : (seq + 1) .. k \subseteq r.ooo}
           top == Max(S)
           new == ApplyEventAck(r, seq)
<1>1. /\ r.last \in Nat /\ r.acked \in Nat /\ r.ooo \in SUBSET (Nat \ {0})
      /\ seq \in Nat /\ seq >= 1 /\ seq <= r.last
  BY DEF AssignmentRecord
<1>2. CASE seq \in AckedSeqs(r)
  BY <1>2 DEF ApplyEventAck
<1>3. CASE seq \notin AckedSeqs(r) /\ seq = r.acked + 1
  <2>1. S \in SUBSET Nat /\ seq \in S /\ \A k \in S : k <= r.last
    BY <1>1
  <2>2. top \in S
    <3> HIDE DEF S
    <3> QED BY <1>1, <2>1, MaxExists
  <2> HIDE DEF top
  <2>3. top \in Nat /\ top >= seq /\ (seq + 1) .. top \subseteq r.ooo
    BY <1>1, <2>2
  <2>4. new = [r EXCEPT !.acked = top, !.ooo = {i \in r.ooo : i > top}]
    BY <1>3 DEF ApplyEventAck, top
  <2>5. /\ new \in AssignmentRecord
        /\ new.state = r.state /\ new.last = r.last /\ new.rid = r.rid
        /\ new.acked = top /\ new.ooo = {i \in r.ooo : i > top}
    BY <1>1, <2>3, <2>4 DEF AssignmentRecord
  <2>6. (1 .. top) \union {i \in r.ooo : i > top}
          = ((1 .. r.acked) \union r.ooo) \union {seq}
    <3>1. ASSUME NEW i \in Nat, i >= 1, i <= top, i > seq
          PROVE  i \in r.ooo
      <4>1. i \in (seq + 1) .. top
        BY <1>1, <2>3, <3>1
      <4> QED BY <4>1, <2>3
    <3>2. (1 .. top) \union {i \in r.ooo : i > top} \subseteq (1 .. r.acked) \union r.ooo \union {seq}
      <4>1. \A i \in 1 .. top : i > seq => i \in r.ooo
        BY <2>3, <3>1
      <4> QED BY <1>1, <1>3, <2>3, <4>1
    <3>3. (1 .. r.acked) \union r.ooo \union {seq} \subseteq (1 .. top) \union {i \in r.ooo : i > top}
      BY <1>1, <1>3, <2>3
    <3> QED BY <3>2, <3>3
  <2> QED BY <2>5, <2>6 DEF AckedSeqs
<1>4. CASE seq \notin AckedSeqs(r) /\ seq # r.acked + 1
  <2>1. new = [r EXCEPT !.ooo = @ \union {seq}]
    BY <1>4 DEF ApplyEventAck
  <2> QED BY <1>1, <2>1 DEF AssignmentRecord, AckedSeqs
<1> QED BY <1>2, <1>3, <1>4

LEMMA AckEventOK ==
  ASSUME IInv, NEW a \in Attempts, NEW seq \in 1 .. MaxEvents, AckEvent(a, seq)
  PROVE  IInv'
<1> DEFINE old == assignments[a]
           new == ApplyEventAck(old, seq)
<1>1. /\ Ready /\ Begin(a, "persist") /\ UNCHANGED <<events, results>>
      /\ old.state \in {"started", "finished"} /\ seq \in Seqs(events[a])
      /\ assignments' = [assignments EXCEPT ![a] = ApplyEventAck(assignments[a], seq)]
  BY DEF AckEvent
<1>2. old \in AssignmentRecord /\ Settled(old, events[a], results[a])
  BY <1>1, ReadyKnows
<1>3. seq \in 1 .. old.last
  BY <1>1, <1>2 DEF Settled, Running, Terminal, Numbered
<1>4. /\ new \in AssignmentRecord
      /\ new.state = old.state /\ new.last = old.last /\ new.rid = old.rid
  BY <1>2, <1>3, ApplyEventAckKeeps
<1> HIDE DEF new
<1>5. /\ assignments' \in [Attempts -> AssignmentRecord]
      /\ \A b \in Attempts \ {a} : assignments'[b] = assignments[b]
      /\ assignments'[a] = new
  BY <1>1, <1>4 DEF IInv, TypeOK, new
<1>6. Settled(new, events[a], results[a]) /\ new.state # "absent"
  BY <1>1, <1>2, <1>4 DEF Settled, Running, Terminal
<1> QED BY <1>1, <1>5, <1>6, BeginOK DEF CallLabels

LEMMA PersistAckOK ==
  ASSUME IInv, PersistAck
  PROVE  IInv'
<1> USE DEF IInv
<1>1. Informed /\ cur \in Attempts /\ status = "open" /\ ~poisoned /\ pc = "persist_ack"
  BY DEF PersistAck, PhaseOK, Informed, CallLabels, LoadLabels, TypeOK, CurrentOK
<1>2. ASSUME PutAssignment(cur) PROVE DiskOK' /\ DiskTyped'
  BY <1>1, <1>2 DEF TypeOK, DiskTyped, DiskOK, CurrentOK, PutAssignment, WellFormed, Running, Ended
<1>3. CASE PutAssignment(cur) /\ GoTo("unlink_result")
  <2>1. TypeOK'
    BY <1>1, <1>2, <1>3 DEF TypeOK, DiskTyped, GoTo, Labels, Statuses
  <2>2. PhaseOK' /\ Informed'
    BY <1>1, <1>3 DEF PhaseOK, Informed, GoTo, CallLabels, LoadLabels
  <2>3. OthersAgree'
    BY <1>1, <1>3 DEF TypeOK, OthersAgree, Agree, PutAssignment, GoTo
  <2>4. OthersSettled'
    BY <1>1, <1>3 DEF TypeOK, OthersSettled, PutAssignment, GoTo, Settled, Running, CurrentOK, Ended
  <2>5. CurrentOK'
    BY <1>1, <1>3, <2>2 DEF TypeOK, CurrentOK, PutAssignment, GoTo, Ended, Running
  <2> QED BY <1>2, <1>3, <2>1, <2>2, <2>3, <2>4, <2>5
<1> QED BY <1>1, <1>2, <1>3, RaiseOK, UntouchedOK DEF PersistAck, FileStep

LEMMA UnlinkResultOK ==
  ASSUME IInv, UnlinkResult
  PROVE  IInv'
<1> USE DEF IInv
<1> DEFINE Then == /\ results' = [results EXCEPT ![cur] = NoResult]
                   /\ pc' = "idle"
                   /\ UNCHANGED <<assignments, events, epoch, status, poisoned, cur, todo>>
<1>1. Informed /\ cur \in Attempts /\ status = "open" /\ ~poisoned /\ pc = "unlink_result"
  BY DEF UnlinkResult, PhaseOK, Informed, CallLabels, LoadLabels, TypeOK, CurrentOK
<1>2. ASSUME DropResult(cur) PROVE DiskOK' /\ DiskTyped'
  BY <1>1, <1>2, ConstantsTyped DEF TypeOK, DiskTyped, DiskOK, CurrentOK, DropResult, WellFormed, Running, Ended
<1>3. CASE DropResult(cur) /\ Then
  <2>1. TypeOK'
    BY <1>1, <1>2, <1>3, ConstantsTyped DEF TypeOK, DiskTyped, Then, Labels, Statuses
  <2>2. PhaseOK' /\ Informed'
    BY <1>1, <1>3 DEF PhaseOK, Informed, Then, CallLabels, LoadLabels
  <2>3. OthersAgree'
    BY <1>1, <1>3 DEF TypeOK, OthersAgree, Agree, DropResult, Then
  <2>4. OthersSettled'
    BY <1>1, <1>3 DEF TypeOK, OthersSettled, DropResult, Then, Settled, Running, CurrentOK, Ended, Distinct
  <2>5. CurrentOK'
    BY <1>1, <1>3, <2>2 DEF TypeOK, CurrentOK, DropResult, Then, Ended, Running
  <2> QED BY <1>2, <1>3, <2>1, <2>2, <2>3, <2>4, <2>5
<1> QED BY <1>1, <1>2, <1>3, RaiseOK, UntouchedOK DEF UnlinkResult, FileStep

LEMMA DiscardResultOK ==
  ASSUME IInv, DiscardResult
  PROVE  IInv'
<1> USE DEF IInv
<1> DEFINE Then == /\ events' = [events EXCEPT ![cur] = {}]
                   /\ results' = [results EXCEPT ![cur] = NoResult]
                   /\ pc' = "idle"
                   /\ UNCHANGED <<assignments, epoch, status, poisoned, cur, todo>>
<1>1. Informed /\ cur \in Attempts /\ status = "open" /\ ~poisoned /\ pc = "discard" /\ eventFiles[cur] = {}
  BY DEF DiscardResult, PhaseOK, Informed, CallLabels, LoadLabels, TypeOK, CurrentOK
<1>2. ASSUME DropResult(cur) PROVE DiskOK' /\ DiskTyped'
  BY <1>1, <1>2, ConstantsTyped DEF TypeOK, DiskTyped, DiskOK, CurrentOK, DropResult, WellFormed, Running, Ended
<1>3. CASE DropResult(cur) /\ Then
  <2>1. TypeOK'
    BY <1>1, <1>2, <1>3, ConstantsTyped DEF TypeOK, DiskTyped, Then, Labels, Statuses
  <2>2. PhaseOK' /\ Informed'
    BY <1>1, <1>3 DEF PhaseOK, Informed, Then, CallLabels, LoadLabels
  <2>3. OthersAgree'
    BY <1>1, <1>3 DEF TypeOK, OthersAgree, Agree, DropResult, Then
  <2>4. OthersSettled'
    BY <1>1, <1>3 DEF TypeOK, OthersSettled, DropResult, Then, Settled, Running, CurrentOK, Ended, Distinct
  <2>5. CurrentOK'
    BY <1>1, <1>3, <2>2 DEF TypeOK, CurrentOK, DropResult, Then, Ended, Running
  <2> QED BY <1>2, <1>3, <2>1, <2>2, <2>3, <2>4, <2>5
<1> QED BY <1>1, <1>2, <1>3, RaiseOK, UntouchedOK DEF DiscardResult, FileStep

LEMMA UnlinkAssignmentOK ==
  ASSUME IInv, UnlinkAssignment
  PROVE  IInv'
<1> USE DEF IInv
<1> DEFINE Then == /\ assignments' = [assignments EXCEPT ![cur] = NoRecord]
                   /\ pc' = "idle"
                   /\ UNCHANGED <<events, results, epoch, status, poisoned, cur, todo>>
<1>1. Informed /\ cur \in Attempts /\ status = "open" /\ ~poisoned /\ pc = "delete"
  BY DEF UnlinkAssignment, PhaseOK, Informed, CallLabels, LoadLabels, TypeOK, CurrentOK
<1>2. ASSUME DropAssignment(cur) PROVE DiskOK' /\ DiskTyped'
  BY <1>1, <1>2, ConstantsTyped
  DEF TypeOK, DiskTyped, DiskOK, CurrentOK, DropAssignment, WellFormed, Running, Ended, NoRecord
<1>3. CASE DropAssignment(cur) /\ Then
  <2>1. TypeOK'
    BY <1>1, <1>2, <1>3, ConstantsTyped DEF TypeOK, DiskTyped, Then, Labels, Statuses
  <2>2. PhaseOK' /\ Informed'
    BY <1>1, <1>3 DEF PhaseOK, Informed, Then, CallLabels, LoadLabels
  <2>3. OthersAgree'
    BY <1>1, <1>3 DEF TypeOK, OthersAgree, Agree, DropAssignment, Then
  <2>4. OthersSettled'
    BY <1>1, <1>3 DEF TypeOK, OthersSettled, DropAssignment, Then, Settled, Running, CurrentOK, NoRecord
  <2>5. CurrentOK'
    BY <1>1, <1>3, <2>2 DEF TypeOK, CurrentOK, DropAssignment, Then, Ended, Running
  <2> QED BY <1>2, <1>3, <2>1, <2>2, <2>3, <2>4, <2>5
<1> QED BY <1>1, <1>2, <1>3, RaiseOK, UntouchedOK DEF UnlinkAssignment, FileStep

LEMMA RecoverDropResultOK ==
  ASSUME IInv, RecoverDropResult
  PROVE  IInv'
<1> USE DEF IInv
<1> DEFINE Then == /\ results' = [results EXCEPT ![cur] = NoResult]
                   /\ pc' = "drop_events"
                   /\ UNCHANGED <<assignments, events, epoch, status, poisoned, cur, todo>>
<1>1. Informed /\ cur \in Attempts /\ status = "loading" /\ pc = "drop_result"
  BY DEF RecoverDropResult, PhaseOK, Informed, CallLabels, LoadLabels, TypeOK, CurrentOK
<1>2. ASSUME DropResult(cur) PROVE DiskOK' /\ DiskTyped'
  BY <1>1, <1>2, ConstantsTyped DEF TypeOK, DiskTyped, DiskOK, CurrentOK, DropResult, WellFormed, Running, Ended
<1>3. CASE DropResult(cur) /\ Then
  <2>1. TypeOK'
    BY <1>1, <1>2, <1>3, ConstantsTyped DEF TypeOK, DiskTyped, Then, Labels, Statuses
  <2>2. PhaseOK' /\ Informed'
    BY <1>1, <1>3 DEF PhaseOK, Informed, Then, CallLabels, LoadLabels
  <2>3. OthersAgree'
    BY <1>1, <1>3 DEF TypeOK, OthersAgree, Agree, DropResult, Then
  <2>4. OthersSettled'
    BY <1>1, <1>3 DEF TypeOK, OthersSettled, DropResult, Then, Settled, Running, CurrentOK, Ended, Distinct
  <2>5. CurrentOK'
    BY <1>1, <1>3, <2>2 DEF TypeOK, CurrentOK, DropResult, Then, Ended, Running
  <2> QED BY <1>2, <1>3, <2>1, <2>2, <2>3, <2>4, <2>5
<1>4. CASE UNCHANGED disk /\ GoTo("drop_events") /\ results[cur] = NoResult
  <2>1. DiskOK' /\ DiskTyped' /\ TypeOK'
    BY <1>4, UntouchedOK DEF TypeOK, DiskTyped, GoTo, Labels
  <2>2. PhaseOK' /\ Informed'
    BY <1>1, <1>4 DEF PhaseOK, Informed, GoTo, CallLabels, LoadLabels
  <2>3. OthersAgree' /\ OthersSettled' /\ CurrentOK'
    BY <1>1, <1>4 DEF OthersAgree, Agree, OthersSettled, CurrentOK, GoTo, disk, Ended
  <2> QED BY <2>1, <2>2, <2>3
<1> QED BY <1>1, <1>2, <1>3, <1>4, RaiseOK, UntouchedOK DEF RecoverDropResult, FileStep

LEMMA RepairEventsOK ==
  ASSUME IInv, RepairEvents
  PROVE  IInv'
<1> USE DEF IInv
<1>1. Informed /\ cur \in Attempts /\ status = "loading" /\ pc = "repair_events"
  BY DEF RepairEvents, PhaseOK, Informed, CallLabels, LoadLabels, TypeOK, CurrentOK
<1>2. ASSUME PutAssignment(cur) PROVE DiskOK' /\ DiskTyped'
  BY <1>1, <1>2 DEF TypeOK, DiskTyped, DiskOK, CurrentOK, PutAssignment, WellFormed, Running, Ended
<1>3. CASE PutAssignment(cur) /\ GoTo("check_result")
  <2>1. TypeOK'
    BY <1>1, <1>2, <1>3 DEF TypeOK, DiskTyped, GoTo, Labels, Statuses
  <2>2. PhaseOK' /\ Informed'
    BY <1>1, <1>3 DEF PhaseOK, Informed, GoTo, CallLabels, LoadLabels
  <2>3. OthersAgree'
    BY <1>1, <1>3 DEF TypeOK, OthersAgree, Agree, PutAssignment, GoTo
  <2>4. OthersSettled'
    BY <1>1, <1>3 DEF TypeOK, OthersSettled, PutAssignment, GoTo, Settled, Running, CurrentOK, Ended
  <2>5. CurrentOK'
    BY <1>1, <1>3, <2>2 DEF TypeOK, CurrentOK, PutAssignment, GoTo, Ended, Running
  <2> QED BY <1>2, <1>3, <2>1, <2>2, <2>3, <2>4, <2>5
<1> QED BY <1>1, <1>2, <1>3, RaiseOK, UntouchedOK DEF RepairEvents, FileStep

LEMMA RepairResultOK ==
  ASSUME IInv, RepairResult
  PROVE  IInv'
<1> USE DEF IInv
<1>1. Informed /\ cur \in Attempts /\ status = "loading" /\ pc = "repair_result"
  BY DEF RepairResult, PhaseOK, Informed, CallLabels, LoadLabels, TypeOK, CurrentOK
<1>2. ASSUME PutAssignment(cur) PROVE DiskOK' /\ DiskTyped'
  BY <1>1, <1>2 DEF TypeOK, DiskTyped, DiskOK, CurrentOK, PutAssignment, WellFormed, Running, Ended
<1>3. CASE PutAssignment(cur) /\ GoTo("scan")
  <2>1. TypeOK'
    BY <1>1, <1>2, <1>3 DEF TypeOK, DiskTyped, GoTo, Labels, Statuses
  <2>2. PhaseOK' /\ Informed'
    BY <1>1, <1>3 DEF PhaseOK, Informed, GoTo, CallLabels, LoadLabels
  <2>3. OthersAgree'
    BY <1>1, <1>3 DEF TypeOK, OthersAgree, Agree, PutAssignment, GoTo
  <2>4. OthersSettled'
    BY <1>1, <1>3 DEF TypeOK, OthersSettled, PutAssignment, GoTo, Settled, Running, CurrentOK, Ended
  <2>5. CurrentOK'
    BY <1>1, <1>3, <2>2 DEF TypeOK, CurrentOK, PutAssignment, GoTo, Ended, Running
  <2> QED BY <1>2, <1>3, <2>1, <2>2, <2>3, <2>4, <2>5
<1> QED BY <1>1, <1>2, <1>3, RaiseOK, UntouchedOK DEF RepairResult, FileStep

LEMMA WriteEventOK ==
  ASSUME IInv, WriteEvent
  PROVE  IInv'
<1> USE DEF IInv
<1> DEFINE f == <<assignments[cur].last + 1, epoch>>
           Then == /\ events' = [events EXCEPT ![cur] = @ \union {f}]
                   /\ assignments' = [assignments EXCEPT ![cur].last = f[1]]
                   /\ pc' = "persist"
                   /\ UNCHANGED <<results, epoch, status, poisoned, cur, todo>>
<1>1. Informed /\ cur \in Attempts /\ status = "open" /\ ~poisoned /\ pc = "event" /\ assignments[cur].state = "started"
  BY DEF WriteEvent, PhaseOK, Informed, CallLabels, LoadLabels, TypeOK, CurrentOK
<1>a. /\ Agree(cur) /\ Numbered(events[cur], assignments[cur].last)
      /\ Settled(assignments[cur], events[cur], results[cur])
      /\ results[cur] = NoResult
  BY <1>1 DEF CurrentOK, OthersSettled, PhaseOK, Agree, Settled, Running, Terminal
<1>b. /\ Numbered(eventFiles[cur] \union {f}, assignments[cur].last + 1)
      /\ eventFiles[cur] \union {f} \in SUBSET EventFile
      /\ f[1] = assignments[cur].last + 1 /\ f[1] \in Nat
  <2>1. assignments[cur].last \in Nat /\ epoch \in Nat /\ eventFiles[cur] \in SUBSET EventFile
    BY <1>1 DEF TypeOK, AssignmentRecord
  <2>2. f[1] = assignments[cur].last + 1 /\ f[1] \in Nat
    BY <2>1
  <2> QED BY <1>a, <2>1, <2>2, NumberedNext DEF Agree
<1> HIDE DEF f
<1>2. ASSUME PutEvent(cur, f) PROVE DiskOK' /\ DiskTyped'
  BY <1>1, <1>2, <1>a, <1>b DEF TypeOK, DiskTyped, DiskOK, Agree, PutEvent, WellFormed, Settled, Running, Terminal, Numbered
<1>3. CASE PutEvent(cur, f) /\ Then
  <2>a. /\ assignments' \in [Attempts -> AssignmentRecord]
        /\ assignments'[cur] = [assignments[cur] EXCEPT !.last = f[1]]
        /\ \A a \in Attempts \ {cur} : assignments'[a] = assignments[a]
    BY <1>1, <1>3, <1>b, LastUpdate DEF TypeOK
  <2>b. /\ WellFormed(assignments'[cur], eventFiles'[cur], results[cur])
        /\ Settled(assignments'[cur], eventFiles'[cur], results[cur])
        /\ assignments'[cur].state = "started"
    BY <1>1, <1>3, <1>a, <1>b, <2>a
    DEF PutEvent, WellFormed, Settled, Running, TypeOK, AssignmentRecord, Numbered
  <2>1. TypeOK'
    BY <1>1, <1>2, <1>3, <1>a, <1>b, <2>a DEF TypeOK, DiskTyped, Then, Labels, Statuses
  <2>2. PhaseOK' /\ Informed'
    BY <1>1, <1>3 DEF PhaseOK, Informed, Then, CallLabels, LoadLabels
  <2>3. OthersAgree'
    BY <1>1, <1>3, <2>a DEF TypeOK, OthersAgree, Agree, PutEvent, Then
  <2>4. OthersSettled'
    BY <1>1, <1>3, <1>a, <2>a, <2>b DEF TypeOK, OthersSettled, PutEvent, Agree
  <2>5. CurrentOK'
    BY <1>1, <1>3, <1>a, <2>2, <2>a, <2>b DEF TypeOK, CurrentOK, PutEvent, Agree
  <2> QED BY <1>2, <1>3, <2>1, <2>2, <2>3, <2>4, <2>5
<1> QED BY <1>1, <1>2, <1>3, RaiseOK, UntouchedOK DEF WriteEvent, FileStep, f

LEMMA WriteResultOK ==
  ASSUME IInv, WriteResult
  PROVE  IInv'
<1> USE DEF IInv
<1> DEFINE r == [id |-> epoch, final |-> assignments[cur].last]
           Then == /\ results' = [results EXCEPT ![cur] = r]
                   /\ assignments' = [assignments EXCEPT ![cur].state = "finished",
                                                         ![cur].rid = r.id]
                   /\ pc' = "persist"
                   /\ UNCHANGED <<events, epoch, status, poisoned, cur, todo>>
<1>1. Informed /\ cur \in Attempts /\ status = "open" /\ ~poisoned /\ pc = "result" /\ assignments[cur].state = "started"
  BY DEF WriteResult, PhaseOK, Informed, CallLabels, LoadLabels, TypeOK, CurrentOK
<1>a. /\ Agree(cur) /\ Numbered(events[cur], assignments[cur].last)
      /\ Settled(assignments[cur], events[cur], results[cur])
  BY <1>1 DEF CurrentOK, OthersSettled, PhaseOK, Agree, Settled, Running, Terminal
<1>b. /\ r \in ResultRecord /\ r.final = assignments[cur].last /\ r.id = epoch
      /\ assignments[cur].rid = 0 /\ r # NoResult
  BY <1>1, <1>a DEF TypeOK, AssignmentRecord, ResultRecord, NoResult, PhaseOK, Settled, Running, Terminal
<1> HIDE DEF r
<1>2. ASSUME PutResult(cur, r) PROVE DiskOK' /\ DiskTyped'
  BY <1>1, <1>2, <1>a, <1>b DEF TypeOK, DiskTyped, DiskOK, Agree, PutResult, WellFormed, Settled, Running, Terminal
<1>3. CASE PutResult(cur, r) /\ Then
  <2>a. /\ assignments' \in [Attempts -> AssignmentRecord]
        /\ assignments'[cur] = [assignments[cur] EXCEPT !.state = "finished", !.rid = r.id]
        /\ \A a \in Attempts \ {cur} : assignments'[a] = assignments[a]
    <3>1. "finished" \in States /\ r.id \in Nat /\ assignments \in [Attempts -> AssignmentRecord]
      BY <1>b, StatesAre DEF TypeOK, ResultRecord
    <3>2. /\ assignments' = [assignments EXCEPT ![cur].state = "finished", ![cur].rid = r.id]
          /\ cur \in Attempts
      BY <1>1, <1>3
    <3>3. \A a \in Attempts \ {cur} : assignments'[a] = assignments[a]
      BY <3>1, <3>2
    <3>4. [assignments EXCEPT ![cur].state = "finished", ![cur].rid = r.id][cur]
            = [assignments[cur] EXCEPT !.state = "finished", !.rid = r.id]
      BY <3>1, <3>2
    <3>5. [assignments EXCEPT ![cur].state = "finished", ![cur].rid = r.id]
            \in [Attempts -> AssignmentRecord]
      BY <3>1, <3>2, FinishUpdate
    <3> QED BY <3>2, <3>3, <3>4, <3>5
  <2>b. /\ WellFormed(assignments'[cur], events[cur], r)
        /\ Settled(assignments'[cur], events[cur], r)
        /\ assignments'[cur].state = "finished"
    BY <1>1, <1>3, <1>a, <1>b, <2>a
    DEF WellFormed, Settled, Running, TypeOK, AssignmentRecord
  <2>1. TypeOK'
    BY <1>1, <1>2, <1>3, <1>a, <1>b, <2>a DEF TypeOK, DiskTyped, Then, Labels, Statuses
  <2>2. PhaseOK' /\ Informed'
    BY <1>1, <1>3 DEF PhaseOK, Informed, Then, CallLabels, LoadLabels
  <2>3. OthersAgree'
    BY <1>1, <1>3, <2>a DEF TypeOK, OthersAgree, Agree, PutResult, Then
  <2>4. OthersSettled'
    BY <1>1, <1>3, <1>a, <2>a, <2>b DEF TypeOK, OthersSettled, PutResult, Agree
  <2>5. CurrentOK'
    BY <1>1, <1>3, <1>a, <2>2, <2>a, <2>b DEF TypeOK, CurrentOK, PutResult, Agree
  <2> QED BY <1>2, <1>3, <2>1, <2>2, <2>3, <2>4, <2>5
<1> QED BY <1>1, <1>2, <1>3, RaiseOK, UntouchedOK DEF WriteResult, FileStep, r

LEMMA RemoveEventOK ==
  ASSUME IInv, RemoveEvent
  PROVE  IInv'
<1> USE DEF IInv
<1>1. /\ Informed /\ cur \in Attempts /\ status = "open" /\ ~poisoned
      /\ pc \in {"clear", "discard"} /\ Ended(assignments[cur])
  BY DEF RemoveEvent, PhaseOK, Informed, CallLabels, TypeOK, CurrentOK
<1>2. PICK f \in eventFiles[cur] : FileStep(DropEvent(cur, f), GoTo(pc))
  BY DEF RemoveEvent
<1>3. ASSUME DropEvent(cur, f) PROVE DiskOK' /\ DiskTyped'
  BY <1>1, <1>3 DEF TypeOK, DiskTyped, DiskOK, CurrentOK, DropEvent, WellFormed, Running, Ended, Terminal, Distinct
<1>4. CASE DropEvent(cur, f) /\ GoTo(pc)
  <2>1. TypeOK'
    BY <1>1, <1>3, <1>4 DEF TypeOK, DiskTyped, GoTo, Labels
  <2>2. PhaseOK' /\ Informed'
    BY <1>1, <1>4 DEF PhaseOK, Informed, GoTo, CallLabels, LoadLabels
  <2>3. OthersAgree' /\ OthersSettled'
    BY <1>1, <1>4 DEF TypeOK, OthersAgree, OthersSettled, Agree, DropEvent, GoTo
  <2>4. CurrentOK'
    BY <1>1, <1>4 DEF TypeOK, CurrentOK, DropEvent, GoTo
  <2> QED BY <1>3, <1>4, <2>1, <2>2, <2>3, <2>4
<1> QED BY <1>2, <1>3, <1>4, RaiseOK, UntouchedOK DEF FileStep

LEMMA RecoverDropEventOK ==
  ASSUME IInv, RecoverDropEvent
  PROVE  IInv'
<1> USE DEF IInv
<1>1. /\ Informed /\ cur \in Attempts /\ status = "loading"
      /\ pc = "drop_events" /\ Ended(assignments[cur])
  BY DEF RecoverDropEvent, PhaseOK, Informed, LoadLabels, TypeOK, CurrentOK
<1>2. PICK f \in eventFiles[cur] : FileStep(DropEvent(cur, f), GoTo("drop_events"))
  BY DEF RecoverDropEvent
<1>3. ASSUME DropEvent(cur, f) PROVE DiskOK' /\ DiskTyped'
  BY <1>1, <1>3 DEF TypeOK, DiskTyped, DiskOK, CurrentOK, DropEvent, WellFormed, Running, Ended, Terminal, Distinct
<1>4. CASE DropEvent(cur, f) /\ GoTo("drop_events")
  <2>1. TypeOK'
    BY <1>1, <1>3, <1>4 DEF TypeOK, DiskTyped, GoTo, Labels
  <2>2. PhaseOK' /\ Informed'
    BY <1>1, <1>4 DEF PhaseOK, Informed, GoTo, CallLabels, LoadLabels
  <2>3. OthersAgree' /\ OthersSettled'
    BY <1>1, <1>4 DEF TypeOK, OthersAgree, OthersSettled, Agree, DropEvent, GoTo
  <2>4. CurrentOK'
    BY <1>1, <1>4 DEF TypeOK, CurrentOK, DropEvent, GoTo
  <2> QED BY <1>3, <1>4, <2>1, <2>2, <2>3, <2>4
<1> QED BY <1>2, <1>3, <1>4, RaiseOK, UntouchedOK DEF FileStep

\* Forgetting the Events of an attempt that has no Event file left.
LEMMA ForgetEventsOK ==
  ASSUME IInv, pc \in {"clear", "discard", "drop_events"}, eventFiles[cur] = {},
         events' = [events EXCEPT ![cur] = {}],
         pc' = IF pc = "drop_events" THEN "scan" ELSE "idle",
         UNCHANGED <<assignmentFile, eventFiles, resultFile, identityFile, assignments,
                     results, epoch, status, poisoned, cur, todo>>
  PROVE  IInv'
<1> USE DEF IInv
<1>1. Informed /\ cur \in Attempts /\ Ended(assignments[cur]) /\ Informed'
  BY DEF PhaseOK, Informed, CallLabels, LoadLabels, TypeOK, CurrentOK
<1>2. TypeOK' /\ DiskOK'
  BY DEF TypeOK, DiskOK, Labels
<1>3. PhaseOK'
  BY DEF PhaseOK, CallLabels, LoadLabels
<1>4. OthersAgree'
  BY <1>1 DEF TypeOK, OthersAgree, Agree
<1>5. OthersSettled'
  <2>1. SUFFICES ASSUME NEW a \in Attempts \ todo
                 PROVE  Settled(assignments[a], events'[a], results[a])
    BY DEF OthersSettled
  <2>2. Settled(assignments[a], events[a], results[a])
    BY <1>1, <2>1 DEF OthersSettled
  <2>3. CASE a = cur
    BY <1>1, <2>2, <2>3 DEF TypeOK, Settled, Running, Ended, Terminal, Distinct
  <2>4. CASE a # cur
    BY <2>2, <2>4 DEF TypeOK
  <2> QED BY <2>3, <2>4
<1>6. CurrentOK'
  BY <1>1 DEF TypeOK, CurrentOK
<1> QED BY <1>2, <1>3, <1>4, <1>5, <1>6

LEMMA HaltOK ==
  ASSUME IInv, Halt, UNCHANGED disk
  PROVE  IInv'
<1>1. TypeOK' /\ DiskOK'
  BY ConstantsTyped DEF IInv, TypeOK, DiskOK, disk, Halt, EmptyMemory, Labels, Statuses
<1>2. PhaseOK' /\ ~Informed'
  BY DEF IInv, PhaseOK, Informed, Halt, CallLabels, LoadLabels
<1> QED BY <1>1, <1>2 DEF IInv, OthersAgree, OthersSettled, CurrentOK

LEMMA OpenIdentityOK ==
  ASSUME IInv, OpenIdentity
  PROVE  IInv'
<1> USE DEF IInv
<1> DEFINE Effect == /\ identityFile' = identityFile + 1
                     /\ UNCHANGED <<assignmentFile, eventFiles, resultFile>>
           Then == /\ epoch' = identityFile + 1
                   /\ status' = "loading"
                   /\ pc' = "load"
                   /\ UNCHANGED <<assignments, events, results, poisoned, cur, todo>>
<1>1. status = "closed" /\ pc \notin CallLabels /\ ~poisoned
  BY DEF OpenIdentity, PhaseOK
<1>2. ASSUME Effect PROVE DiskOK' /\ DiskTyped'
  BY <1>2 DEF TypeOK, DiskTyped, DiskOK
<1>3. CASE Effect /\ Then
  <2>1. TypeOK'
    BY <1>2, <1>3 DEF TypeOK, DiskTyped, Labels, Statuses
  <2>2. PhaseOK' /\ ~Informed'
    BY <1>1, <1>3 DEF TypeOK, PhaseOK, Informed, CallLabels, LoadLabels
  <2> QED BY <1>2, <1>3, <2>1, <2>2 DEF OthersAgree, OthersSettled, CurrentOK
<1> QED BY <1>2, <1>3, RaiseOK, UntouchedOK DEF OpenIdentity, FileStep

\* A directory a crash may leave passes the three scans.
LEMMA DiskReadable ==
  ASSUME TypeOK, DiskOK
  PROVE  ~Unreadable
<1> SUFFICES ASSUME NEW a \in Attempts
             PROVE  ~Orphaned(a) /\ ~DuplicateSeq(a)
  BY DEF Unreadable
<1> DEFINE r == assignmentFile[a]
           E == eventFiles[a]
<1>1. WellFormed(r, E, resultFile[a]) /\ E \in SUBSET EventFile /\ r.last \in Nat
  BY DEF DiskOK, TypeOK, AssignmentRecord
<1>2. ~Orphaned(a)
  BY <1>1 DEF WellFormed, Orphaned, NoRecord
<1>3. ~DuplicateSeq(a)
  BY <1>1 DEF WellFormed, DuplicateSeq, Distinct
<1> QED BY <1>2, <1>3

LEMMA ReadRecordsOK ==
  ASSUME IInv, ReadRecords
  PROVE  IInv'
<1> USE DEF IInv
<1>1. /\ pc = "load" /\ status = "loading" /\ pc' = "scan"
      /\ assignments' = assignmentFile /\ events' = eventFiles /\ results' = resultFile
      /\ todo' = {a \in Attempts : assignmentFile[a] # NoRecord}
      /\ UNCHANGED <<assignmentFile, eventFiles, resultFile, identityFile, epoch,
                     status, poisoned, cur>>
  BY DiskReadable DEF ReadRecords, PhaseOK
<1>2. TypeOK' /\ DiskOK'
  BY <1>1 DEF TypeOK, DiskOK, Labels
<1>3. PhaseOK' /\ Informed'
  BY <1>1 DEF PhaseOK, Informed, CallLabels, LoadLabels, DiskOK, WellFormed, NoRecord
<1>4. OthersAgree' /\ CurrentOK'
  BY <1>1 DEF TypeOK, OthersAgree, Agree, CurrentOK
<1>5. OthersSettled'
  <2>1. \A a \in Attempts \ todo' : Settled(NoRecord, {}, NoResult)
                                    /\ assignments'[a] = NoRecord
                                    /\ events'[a] = {} /\ results'[a] = NoResult
    BY <1>1 DEF DiskOK, WellFormed, NoRecord, Settled, Running, Distinct
  <2> QED BY <2>1 DEF OthersSettled
<1> QED BY <1>2, <1>3, <1>4, <1>5

LEMMA ScanOK ==
  ASSUME IInv, NEW a \in Attempts, Scan(a)
  PROVE  IInv'
<1> USE DEF IInv
<1>1. /\ Informed /\ Informed' /\ pc = "scan" /\ status = "loading" /\ cur' = a
      /\ todo' = todo \ {a} /\ a \in todo
      /\ pc' = IF assignments[a].state \in Terminal THEN "drop_result" ELSE "check_events"
      /\ UNCHANGED <<assignmentFile, eventFiles, resultFile, identityFile, assignments,
                     events, results, epoch, status, poisoned>>
  BY DEF Scan, PhaseOK, Informed, LoadLabels
<1>2. \A b \in Attempts : Agree(b)
  BY <1>1 DEF OthersAgree, CurrentOK, Agree
<1>3. TypeOK' /\ DiskOK'
  BY <1>1 DEF TypeOK, DiskOK, Labels
<1>4. PhaseOK'
  BY <1>1 DEF PhaseOK, CallLabels, LoadLabels
<1>5. OthersAgree'
  BY <1>1, <1>2 DEF OthersAgree, Agree
<1>6. WellFormed(assignments[a], events[a], results[a]) /\ assignments[a].state # "absent"
  BY <1>1, <1>2 DEF DiskOK, Agree, PhaseOK
<1>7. OthersSettled'
  <2>1. SUFFICES ASSUME NEW b \in Attempts \ todo'
                 PROVE  \/ b = a /\ pc' = "check_events"
                        \/ Settled(assignments[b], events[b], results[b])
    BY <1>1 DEF OthersSettled
  <2>2. CASE b # a
    BY <1>1, <2>2 DEF OthersSettled
  <2>3. CASE b = a
    BY <1>1, <1>6, <2>3 DEF WellFormed, Settled, Running
  <2> QED BY <2>2, <2>3
<1>8. CurrentOK'
  BY <1>1, <1>2, <1>6 DEF CurrentOK, Agree, Ended, Running
<1> QED BY <1>3, <1>4, <1>5, <1>7, <1>8

LEMMA OpenedOK ==
  ASSUME IInv, Opened
  PROVE  IInv'
<1> USE DEF IInv
<1>1. /\ Informed /\ Informed' /\ pc = "scan" /\ status = "loading" /\ ~poisoned
      /\ todo = {} /\ status' = "open" /\ pc' = "idle"
      /\ UNCHANGED <<assignmentFile, eventFiles, resultFile, identityFile, assignments,
                     events, results, epoch, poisoned, cur, todo>>
  BY DEF Opened, PhaseOK, Informed, LoadLabels
<1>2. TypeOK' /\ DiskOK'
  BY <1>1 DEF TypeOK, DiskOK, Labels, Statuses
<1>3. PhaseOK'
  BY <1>1 DEF PhaseOK, CallLabels, LoadLabels
<1>4. OthersAgree' /\ OthersSettled' /\ CurrentOK'
  BY <1>1 DEF OthersAgree, Agree, OthersSettled, CurrentOK
<1> QED BY <1>2, <1>3, <1>4

LEMMA RecoverEventsOK ==
  ASSUME IInv, RecoverEvents
  PROVE  IInv'
<1> USE DEF IInv
<1> DEFINE r == assignments[cur]
           E == eventFiles[cur]
           R == resultFile[cur]
<1>1. /\ Informed /\ cur \in Attempts /\ pc = "check_events" /\ status = "loading"
      /\ r = assignmentFile[cur] /\ E = events[cur] /\ R = results[cur]
      /\ Running(r) /\ cur \notin todo /\ r \in AssignmentRecord /\ E \in SUBSET EventFile
      /\ WellFormed(r, E, R)
  BY DEF RecoverEvents, PhaseOK, Informed, LoadLabels, CurrentOK, DiskOK, TypeOK
<1>2. \/ Numbered(E, r.last)
      \/ Numbered(E, r.last + 1) /\ r.state = "started" /\ R = NoResult
  BY <1>1 DEF WellFormed
<1>3. CASE Numbered(E, r.last)
  <2>1. LastSeq(E) = r.last /\ ~Gap(E) /\ r.last \in Nat
    BY <1>1, <1>3, NumberedFiles DEF AssignmentRecord
  <2>2. UNCHANGED disk /\ GoTo("check_result")
    BY <1>1, <2>1 DEF RecoverEvents, EventsDisagree
  <2>3. TypeOK' /\ DiskOK'
    BY <2>2 DEF TypeOK, DiskOK, disk, GoTo, Labels
  <2>4. PhaseOK' /\ Informed'
    BY <1>1, <2>2 DEF PhaseOK, Informed, GoTo, CallLabels, LoadLabels
  <2>5. OthersAgree' /\ OthersSettled'
    BY <1>1, <2>2 DEF OthersAgree, Agree, OthersSettled, disk, GoTo
  <2>6. CurrentOK'
    BY <1>1, <1>3, <2>2 DEF CurrentOK, disk, GoTo
  <2> QED BY <2>3, <2>4, <2>5, <2>6
<1>4. CASE Numbered(E, r.last + 1) /\ r.state = "started" /\ R = NoResult
  <2>1. LastSeq(E) = r.last + 1 /\ ~Gap(E) /\ r.last \in Nat
    <3>1. r.last \in Nat /\ r.last + 1 \in Nat
      BY <1>1 DEF AssignmentRecord
    <3>2. LastSeq(E) = r.last + 1 /\ ~Gap(E)
      BY <1>1, <1>4, <3>1, NumberedFiles
    <3> QED BY <3>1, <3>2
  <2>2. /\ assignments' = [assignments EXCEPT ![cur].last = r.last + 1]
        /\ pc' = "repair_events"
        /\ UNCHANGED <<assignmentFile, eventFiles, resultFile, identityFile, events,
                       results, epoch, status, poisoned, cur, todo>>
    <3>1. LastSeq(events[cur]) = r.last + 1 /\ ~EventsDisagree
      BY <1>1, <2>1 DEF EventsDisagree
    <3> QED BY <2>1, <3>1 DEF RecoverEvents
  <2>3. /\ assignments' \in [Attempts -> AssignmentRecord]
        /\ assignments'[cur] = [r EXCEPT !.last = r.last + 1]
        /\ \A a \in Attempts \ {cur} : assignments'[a] = assignments[a]
    <3>1. assignments \in [Attempts -> AssignmentRecord] /\ r.last + 1 \in Nat
      BY <2>1 DEF TypeOK
    <3>2. \A a \in Attempts \ {cur} : assignments'[a] = assignments[a]
      BY <2>2, <3>1
    <3>3. /\ [assignments EXCEPT ![cur].last = r.last + 1] \in [Attempts -> AssignmentRecord]
          /\ [assignments EXCEPT ![cur].last = r.last + 1][cur] = [r EXCEPT !.last = r.last + 1]
      <4> DEFINE n == r.last + 1
      <4>1. cur \in Attempts /\ n \in Nat
        BY <1>1, <3>1
      <4> HIDE DEF n
      <4> QED BY <3>1, <4>1, LastUpdate DEF n
    <3> QED BY <2>2, <3>2, <3>3
  <2>4. TypeOK' /\ DiskOK'
    BY <2>2, <2>3 DEF TypeOK, DiskOK, Labels
  <2>5. PhaseOK' /\ Informed'
    BY <1>1, <2>2 DEF PhaseOK, Informed, CallLabels, LoadLabels
  <2>6. OthersAgree' /\ OthersSettled'
    BY <1>1, <2>2, <2>3 DEF OthersAgree, Agree, OthersSettled
  <2>7. /\ WellFormed(assignments'[cur], E, R) /\ assignments'[cur].state = "started"
        /\ Numbered(E, assignments'[cur].last)
    BY <1>1, <1>4, <2>1, <2>3 DEF WellFormed, Running, AssignmentRecord
  <2>8. CurrentOK'
    BY <1>1, <2>2, <2>7 DEF CurrentOK, Running, Terminal
  <2> QED BY <2>4, <2>5, <2>6, <2>8
<1> QED BY <1>2, <1>3, <1>4

LEMMA RecoverResultOK ==
  ASSUME IInv, RecoverResult
  PROVE  IInv'
<1> USE DEF IInv
<1> DEFINE r == assignments[cur]
           E == eventFiles[cur]
           R == resultFile[cur]
<1>1. /\ Informed /\ cur \in Attempts /\ pc = "check_result" /\ status = "loading"
      /\ r = assignmentFile[cur] /\ E = events[cur] /\ R = results[cur]
      /\ Running(r) /\ cur \notin todo /\ r \in AssignmentRecord /\ R \in ResultRecord
      /\ WellFormed(r, E, R) /\ Numbered(E, r.last)
  BY DEF RecoverResult, PhaseOK, Informed, LoadLabels, CurrentOK, DiskOK, TypeOK
<1>2. ~ResultDisagrees
  BY <1>1 DEF ResultDisagrees, WellFormed
<1>3. CASE R # NoResult /\ r.state = "started" /\ r.rid = 0
  <2>2. /\ assignments' = [assignments EXCEPT ![cur].state = "finished", ![cur].rid = R.id]
        /\ pc' = "repair_result"
        /\ UNCHANGED <<assignmentFile, eventFiles, resultFile, identityFile, events,
                       results, epoch, status, poisoned, cur, todo>>
    BY <1>1, <1>2, <1>3 DEF RecoverResult
  <2>3. /\ assignments' \in [Attempts -> AssignmentRecord]
        /\ assignments'[cur] = [r EXCEPT !.state = "finished", !.rid = R.id]
        /\ \A a \in Attempts \ {cur} : assignments'[a] = assignments[a]
    <3>1. "finished" \in States /\ R.id \in Nat /\ assignments \in [Attempts -> AssignmentRecord]
      BY <1>1, StatesAre DEF TypeOK, ResultRecord
    <3>2. \A a \in Attempts \ {cur} : assignments'[a] = assignments[a]
      BY <2>2, <3>1
    <3>3. /\ [assignments EXCEPT ![cur].state = "finished", ![cur].rid = R.id]
               \in [Attempts -> AssignmentRecord]
          /\ [assignments EXCEPT ![cur].state = "finished", ![cur].rid = R.id][cur]
               = [r EXCEPT !.state = "finished", !.rid = R.id]
      <4> DEFINE n == R.id
      <4>1. cur \in Attempts /\ n \in Nat
        BY <1>1, <3>1
      <4> HIDE DEF n
      <4>2. [assignments EXCEPT ![cur].state = "finished", ![cur].rid = n]
              \in [Attempts -> AssignmentRecord]
        BY <3>1, <4>1, FinishUpdate
      <4>3. [assignments EXCEPT ![cur].state = "finished", ![cur].rid = n][cur]
              = [assignments[cur] EXCEPT !.state = "finished", !.rid = n]
        BY <3>1, <4>1
      <4> QED BY <4>2, <4>3 DEF n
    <3> QED BY <2>2, <3>2, <3>3
  <2>4. TypeOK' /\ DiskOK'
    BY <2>2, <2>3 DEF TypeOK, DiskOK, Labels
  <2>5. PhaseOK' /\ Informed'
    BY <1>1, <2>2, <2>3 DEF TypeOK, PhaseOK, Informed, CallLabels, LoadLabels
  <2>6. /\ WellFormed(assignments'[cur], E, R) /\ Settled(assignments'[cur], E, R)
        /\ assignments'[cur].state = "finished"
        /\ Numbered(E, assignments'[cur].last)
    BY <1>1, <1>3, <2>3 DEF WellFormed, Settled, Running, AssignmentRecord
  <2>7. OthersAgree' /\ OthersSettled'
    BY <1>1, <2>2, <2>3, <2>6 DEF OthersAgree, Agree, OthersSettled
  <2>8. CurrentOK'
    BY <1>1, <2>2, <2>6 DEF CurrentOK, Running, Terminal
  <2> QED BY <2>4, <2>5, <2>7, <2>8
<1>4. CASE ~(R # NoResult /\ r.state = "started" /\ r.rid = 0)
  <2>1. UNCHANGED disk /\ GoTo("scan")
    BY <1>1, <1>2, <1>4 DEF RecoverResult
  <2>2. TypeOK' /\ DiskOK'
    BY <2>1 DEF TypeOK, DiskOK, disk, GoTo, Labels
  <2>3. PhaseOK' /\ Informed'
    BY <1>1, <2>1 DEF PhaseOK, Informed, GoTo, CallLabels, LoadLabels
  <2>4. Settled(r, E, R)
    BY <1>1, <1>4 DEF WellFormed, Settled, Running
  <2>5. OthersAgree' /\ OthersSettled'
    BY <1>1, <2>1, <2>4 DEF OthersAgree, Agree, OthersSettled, disk, GoTo
  <2>6. CurrentOK'
    BY <1>1, <2>1 DEF CurrentOK, disk, GoTo
  <2> QED BY <2>2, <2>3, <2>5, <2>6
<1> QED BY <1>3, <1>4

-----------------------------------------------------------------------------
(* Theorems *)

LEMMA InitOK == Init => IInv
<1> SUFFICES ASSUME Init PROVE IInv
  OBVIOUS
<1>1. TypeOK
  BY ConstantsTyped DEF Init, TypeOK, Labels, Statuses
<1>2. DiskOK
  BY DEF Init, DiskOK, WellFormed, NoRecord, Running, Distinct
<1>3. PhaseOK /\ ~Informed
  BY DEF Init, PhaseOK, Informed, CallLabels, LoadLabels
<1> QED BY <1>1, <1>2, <1>3 DEF IInv, OthersAgree, OthersSettled, CurrentOK

LEMMA StepOK == IInv /\ [Next]_vars => IInv'
<1> SUFFICES ASSUME IInv, [Next]_vars PROVE IInv'
  OBVIOUS
<1>1. ASSUME NEW a \in Attempts, Operation(a) PROVE IInv'
  BY <1>1, CreateAssignmentOK, AdvanceAssignmentOK, AppendEventOK, AckEventOK, StoreResultOK,
     AckResultOK, ClearTerminalEventsOK, DiscardTerminalSpoolOK, DeleteAssignmentOK DEF Operation
<1>2. CASE FileOperation
  <2>1. CASE ClearDone
    BY <2>1, ForgetEventsOK DEF ClearDone
  <2>2. CASE DiscardDone
    BY <2>2, ForgetEventsOK DEF DiscardDone
  <2> QED BY <1>2, <2>1, <2>2, PersistAssignmentOK, WriteEventOK, WriteResultOK, PersistAckOK,
             UnlinkResultOK, RemoveEventOK, DiscardResultOK, UnlinkAssignmentOK DEF FileOperation
<1>3. CASE Recovery
  <2>1. CASE RecoverDropped
    BY <2>1, ForgetEventsOK DEF RecoverDropped
  <2> QED BY <1>3, <2>1, OpenIdentityOK, ReadRecordsOK, ScanOK, OpenedOK, RecoverDropResultOK,
             RecoverDropEventOK, RecoverEventsOK, RepairEventsOK, RecoverResultOK,
             RepairResultOK DEF Recovery
<1>4. CASE Close
  BY <1>4, HaltOK DEF Close
<1>5. CASE Crash
  BY <1>5, HaltOK DEF Crash
<1>6. CASE UNCHANGED vars
  BY <1>6 DEF vars, IInv, TypeOK, DiskOK, PhaseOK, Informed, OthersAgree, Agree,
              OthersSettled, CurrentOK
<1> QED BY <1>1, <1>2, <1>3, <1>4, <1>5, <1>6 DEF Next

\* The inductive invariant holds of every behaviour.
THEOREM InvariantHolds == Spec => []IInv
BY InitOK, StepOK, PTL DEF Spec

\* Every variable keeps its type, for every bound and every number of restarts.
THEOREM TypeCorrect == Spec => []TypeOK
BY InvariantHolds, PTL DEF IInv

\* However often operations are cut short by crashes and failing writes, the
\* recovery accepts what they leave on disk.
THEOREM RecoveryAccepts == Spec => []RecoveryNeverRefuses
<1>1. IInv => RecoveryNeverRefuses
  BY DEF IInv, PhaseOK, RecoveryNeverRefuses
<1> QED BY <1>1, InvariantHolds, PTL

\* Between operations the memory of a sound store is what is on disk.
THEOREM Durability == Spec => []ReturnedMeansDurable
<1>1. IInv => ReturnedMeansDurable
  <2> SUFFICES ASSUME IInv, Ready PROVE memory = <<assignmentFile, eventFiles, resultFile>>
    BY DEF ReturnedMeansDurable
  <2>1. \A a \in Attempts : Agree(a)
    BY ReadyKnows
  <2> QED BY <2>1 DEF IInv, TypeOK, Agree, memory
<1> QED BY <1>1, InvariantHolds, PTL

\* The part of SpoolOutlivesAttempt about one attempt.
SpoolKept(a) ==
  (eventFiles[a] \ eventFiles'[a] # {} \/ (resultFile[a] # NoResult /\ resultFile'[a] # resultFile[a]))
    => assignmentFile[a].state \in Terminal

\* Only these steps touch the Event and Result files.
LEMMA SpoolTouched ==
  ASSUME Next
  PROVE  \/ UNCHANGED <<eventFiles, resultFile>>
         \/ WriteEvent \/ WriteResult \/ UnlinkResult \/ RemoveEvent \/ DiscardResult
         \/ RecoverDropResult \/ RecoverDropEvent
<1>1. ASSUME NEW a \in Attempts, Operation(a) PROVE UNCHANGED <<eventFiles, resultFile>>
  BY <1>1 DEF Operation, CreateAssignment, AdvanceAssignment, AppendEvent, AckEvent, StoreResult,
     AckResult, ClearTerminalEvents, DiscardTerminalSpool, DeleteAssignment, Begin
<1>2. CASE PersistAssignment \/ PersistAck \/ ClearDone \/ DiscardDone \/ UnlinkAssignment
  BY <1>2 DEF PersistAssignment, PersistAck, ClearDone, DiscardDone, UnlinkAssignment, FileStep,
     PutAssignment, DropAssignment, disk
<1>3. CASE OpenIdentity \/ ReadRecords \/ (\E a \in Attempts : Scan(a)) \/ Opened \/ RecoverDropped
  BY <1>3 DEF OpenIdentity, ReadRecords, Refuse, Scan, Opened, RecoverDropped, FileStep, disk
<1>4. CASE RecoverEvents \/ RepairEvents \/ RecoverResult \/ RepairResult
  BY <1>4 DEF RecoverEvents, RepairEvents, RecoverResult, RepairResult, Refuse, FileStep,
     PutAssignment, disk
<1>5. CASE Close \/ Crash
  BY <1>5 DEF Close, Crash, disk
<1> QED BY <1>1, <1>2, <1>3, <1>4, <1>5 DEF Next, FileOperation, Recovery

\* A file of the spool goes only when the journal on disk is terminal.
THEOREM SpoolSafety == Spec => SpoolOutlivesAttempt
<1>1. IInv /\ [Next]_vars => [\A a \in Attempts : SpoolKept(a)]_vars
  <2> SUFFICES ASSUME IInv, Next, NEW a \in Attempts PROVE SpoolKept(a)
    OBVIOUS
  <2>1. CASE UNCHANGED <<eventFiles, resultFile>>
    BY <2>1 DEF SpoolKept
  <2>2. CASE WriteEvent
    BY <2>2 DEF IInv, TypeOK, SpoolKept, WriteEvent, FileStep, PutEvent, disk
  <2>3. CASE WriteResult
    <3>1. resultFile[cur] = NoResult
      BY <2>3 DEF IInv, WriteResult, PhaseOK, CallLabels, Informed, CurrentOK, OthersSettled,
                  TypeOK, Settled, Running, Terminal
    <3> QED BY <2>3, <3>1 DEF IInv, TypeOK, SpoolKept, WriteResult, FileStep, PutResult, disk
  <2>4. CASE UnlinkResult \/ DiscardResult \/ RecoverDropResult
    <3>1. assignmentFile[cur].state \in Terminal
      BY <2>4 DEF IInv, UnlinkResult, DiscardResult, RecoverDropResult, PhaseOK, CallLabels,
                  LoadLabels, Informed, CurrentOK, Ended
    <3>2. eventFiles' = eventFiles /\ (a # cur => resultFile'[a] = resultFile[a])
      BY <2>4 DEF IInv, TypeOK, UnlinkResult, DiscardResult, RecoverDropResult, FileStep,
                  DropResult, disk
    <3> QED BY <3>1, <3>2 DEF SpoolKept
  <2>5. CASE RemoveEvent \/ RecoverDropEvent
    <3>1. assignmentFile[cur].state \in Terminal
      BY <2>5 DEF IInv, RemoveEvent, RecoverDropEvent, PhaseOK, CallLabels, LoadLabels,
                  Informed, CurrentOK, Ended
    <3>2. resultFile' = resultFile /\ (a # cur => eventFiles'[a] = eventFiles[a])
      BY <2>5 DEF IInv, TypeOK, RemoveEvent, RecoverDropEvent, FileStep, DropEvent, disk
    <3> QED BY <3>1, <3>2 DEF SpoolKept
  <2> QED BY <2>1, <2>2, <2>3, <2>4, <2>5, SpoolTouched
<1> QED BY <1>1, InvariantHolds, PTL DEF Spec, SpoolOutlivesAttempt, SpoolKept

\* The epoch in use is on disk.
EpochOnDisk == epoch <= identityFile

\* Only opening the store draws an epoch, and it draws a new one.
LEMMA EpochStep ==
  ASSUME IInv, EpochOnDisk, Next
  PROVE  \/ UNCHANGED <<epoch, identityFile>>
         \/ epoch' \in {epoch, identityFile + 1} /\ identityFile' = identityFile + 1
<1>1. ASSUME NEW a \in Attempts, Operation(a) PROVE UNCHANGED <<epoch, identityFile>>
  BY <1>1 DEF Operation, CreateAssignment, AdvanceAssignment, AppendEvent, AckEvent, StoreResult,
     AckResult, ClearTerminalEvents, DiscardTerminalSpool, DeleteAssignment, Begin
<1>2. CASE FileOperation
  BY <1>2 DEF FileOperation, PersistAssignment, WriteEvent, WriteResult, PersistAck, UnlinkResult,
     RemoveEvent, ClearDone, DiscardResult, DiscardDone, UnlinkAssignment, FileStep, Raise, Halt,
     GoTo, PutAssignment, PutEvent, PutResult, DropAssignment, DropEvent, DropResult, disk
<1>3. CASE Recovery
  BY <1>3 DEF Recovery, OpenIdentity, ReadRecords, Refuse, Scan, Opened, RecoverDropResult,
     RecoverDropEvent, RecoverDropped, RecoverEvents, RepairEvents, RecoverResult, RepairResult,
     FileStep, Raise, Halt, GoTo, PutAssignment, DropEvent, DropResult, disk
<1>4. CASE Close \/ Crash
  BY <1>4 DEF Close, Crash, Halt, disk
<1> QED BY <1>1, <1>2, <1>3, <1>4 DEF Next

\* No session epoch is used twice.
THEOREM EpochsAreFresh == Spec => EpochNeverReused
<1>1. Init => EpochOnDisk
  BY DEF Init, EpochOnDisk
<1>2. IInv /\ EpochOnDisk /\ [Next]_vars => EpochOnDisk'
  <2>1. CASE UNCHANGED vars
    BY <2>1 DEF vars, EpochOnDisk
  <2> QED BY <2>1, EpochStep DEF EpochOnDisk, IInv, TypeOK
<1>3. IInv /\ EpochOnDisk /\ [Next]_vars
        => [(epoch' # epoch => epoch' > epoch) /\ epoch' <= identityFile']_vars
  BY EpochStep DEF EpochOnDisk, IInv, TypeOK
<1> QED BY <1>1, <1>2, <1>3, InvariantHolds, PTL DEF Spec, EpochNeverReused

-----------------------------------------------------------------------------
(* The journal: which edges a write takes, and what was acknowledged *)

\* The watermark does not reach the numbers beyond it, and none is beyond the last Event.
Normal(r) == \A i \in r.ooo : i > r.acked + 1 /\ i <= r.last

StateEdge(old, new) ==
  \/ new = old
  \/ old = "absent" /\ new = "received"
  \/ old # "absent" /\ new \in Transitions[old]

\* What one operation acknowledges: one appended Event at most, and nothing is forgotten.
AckEdge(old, new, E) ==
  /\ AckedSeqs(old) \subseteq AckedSeqs(new)
  /\ AckedSeqs(new) \subseteq Seqs(E) \union AckedSeqs(old)
  /\ Cardinality(AckedSeqs(new) \ AckedSeqs(old)) <= 1
  /\ Normal(new)

\* The record that waits to be written is one step ahead of the one on disk.
PutLabels == {"persist", "persist_ack", "repair_events", "repair_result"}
JournalInv ==
  /\ \A a \in Attempts : Normal(assignmentFile[a])
  /\ Informed /\ pc \in PutLabels =>
       /\ StateEdge(assignmentFile[cur].state, assignments[cur].state)
       /\ AckEdge(assignmentFile[cur], assignments[cur], eventFiles[cur])

\* The parts of JournalFollowsTransitions and AcksNeverLost about one attempt.
Follows(a) ==
  \/ StateEdge(assignmentFile[a].state, assignmentFile'[a].state)
  \/ assignmentFile[a].state \in Terminal /\ assignmentFile'[a].state = "absent"
AcksKept(a) ==
  assignmentFile'[a].state # "absent" => AckEdge(assignmentFile[a], assignmentFile'[a], eventFiles[a])

JournalStep == JournalInv' /\ \A a \in Attempts : Follows(a) /\ AcksKept(a)

\* A record whose acknowledgements are the same, and which has no fewer Events.
LEMMA SameAcks ==
  ASSUME NEW r, NEW new, NEW E, Normal(r), r.last \in Nat, new.last \in Nat, r.ooo \subseteq Nat,
         new.acked = r.acked, new.ooo = r.ooo, new.last >= r.last
  PROVE  AckEdge(r, new, E)
<1>1. AckedSeqs(new) = AckedSeqs(r) /\ AckedSeqs(new) \ AckedSeqs(r) = {}
  BY DEF AckedSeqs
<1>2. Cardinality(AckedSeqs(new) \ AckedSeqs(r)) = 0
  BY <1>1, FS_EmptySet
<1>3. Normal(new)
  BY DEF Normal
<1> QED BY <1>1, <1>2, <1>3 DEF AckEdge

\* _apply_event_ack leaves the watermark in normal form: it stops where a number is missing.
LEMMA WatermarkNormal ==
  ASSUME NEW r \in AssignmentRecord, NEW seq \in 1 .. r.last, Normal(r)
  PROVE  Normal(ApplyEventAck(r, seq))
<1> DEFINE S == {k \in seq .. r.last : (seq + 1) .. k \subseteq r.ooo}
           top == Max(S)
<1>1. /\ r.last \in Nat /\ r.acked \in Nat /\ r.ooo \in SUBSET (Nat \ {0})
      /\ seq \in Nat /\ seq >= 1 /\ seq <= r.last
  BY DEF AssignmentRecord
<1>2. CASE seq \in AckedSeqs(r)
  BY <1>2 DEF ApplyEventAck
<1>3. CASE seq \notin AckedSeqs(r) /\ seq = r.acked + 1
  <2>1. S \in SUBSET Nat /\ seq \in S /\ \A k \in S : k <= r.last
    BY <1>1
  <2>2. top \in S /\ \A k \in S : k <= top
    <3> HIDE DEF S
    <3> QED BY <1>1, <2>1, MaxExists
  <2>3. ApplyEventAck(r, seq) = [r EXCEPT !.acked = top, !.ooo = {i \in r.ooo : i > top}]
    BY <1>3 DEF ApplyEventAck
  <2> HIDE DEF top
  <2>4. top \in Nat /\ top >= seq /\ (seq + 1) .. top \subseteq r.ooo
    BY <1>1, <2>2
  <2>5. top + 1 \notin r.ooo
    <3> SUFFICES ASSUME top + 1 \in r.ooo PROVE FALSE
      OBVIOUS
    <3>1. top + 1 <= r.last
      BY DEF Normal
    <3>2. (seq + 1) .. (top + 1) \subseteq r.ooo
      <4>1. \A i \in (seq + 1) .. (top + 1) : i \in (seq + 1) .. top \/ i = top + 1
        BY <1>1, <2>4
      <4> QED BY <2>4, <4>1
    <3>3. top + 1 \in S
      BY <1>1, <2>4, <3>1, <3>2
    <3>4. top + 1 <= top
      <4> HIDE DEF S
      <4> QED BY <2>2, <3>3
    <3> QED BY <2>4, <3>4
  <2>6. /\ ApplyEventAck(r, seq).acked = top /\ ApplyEventAck(r, seq).last = r.last
        /\ ApplyEventAck(r, seq).ooo = {i \in r.ooo : i > top}
    BY <2>3 DEF AssignmentRecord
  <2> HIDE DEF S
  <2>7. \A i \in r.ooo : i > top => i > top + 1 /\ i <= r.last
    BY <1>1, <2>4, <2>5 DEF Normal
  <2> QED BY <2>6, <2>7 DEF Normal
<1>4. CASE seq \notin AckedSeqs(r) /\ seq # r.acked + 1
  <2>1. ApplyEventAck(r, seq) = [r EXCEPT !.ooo = @ \union {seq}]
    BY <1>4 DEF ApplyEventAck
  <2>2. seq > r.acked + 1
    BY <1>1, <1>4 DEF AckedSeqs
  <2>3. /\ ApplyEventAck(r, seq).acked = r.acked /\ ApplyEventAck(r, seq).last = r.last
        /\ ApplyEventAck(r, seq).ooo = r.ooo \union {seq}
    BY <2>1 DEF AssignmentRecord
  <2> QED BY <1>1, <2>2, <2>3 DEF Normal
<1> QED BY <1>2, <1>3, <1>4

\* A step that leaves the journal alone and does not start a write.
LEMMA JournalUntouched ==
  ASSUME IInv, JournalInv, UNCHANGED assignmentFile,
         \/ ~Informed' \/ pc' \notin PutLabels
         \/ /\ StateEdge(assignmentFile[cur'].state, assignments'[cur'].state)
            /\ AckEdge(assignmentFile[cur'], assignments'[cur'], eventFiles'[cur'])
  PROVE  JournalStep
<1>1. \A a \in Attempts : assignmentFile[a].last \in Nat /\ assignmentFile[a].ooo \subseteq Nat
  BY DEF IInv, TypeOK, AssignmentRecord
<1>2. \A a \in Attempts : Follows(a) /\ AcksKept(a)
  BY <1>1, SameAcks DEF JournalInv, Follows, AcksKept, StateEdge
<1>3. JournalInv'
  BY DEF JournalInv
<1> QED BY <1>2, <1>3 DEF JournalStep

\* A step that writes the record of the running operation.
LEMMA JournalWritten ==
  ASSUME IInv, JournalInv, Informed, pc \in PutLabels, PutAssignment(cur),
         ~Informed' \/ pc' \notin PutLabels
  PROVE  JournalStep
<1>1. cur \in Attempts /\ assignmentFile'[cur] = assignments[cur]
      /\ \A a \in Attempts \ {cur} : assignmentFile'[a] = assignmentFile[a]
  BY DEF IInv, TypeOK, PutAssignment
<1>2. \A a \in Attempts : assignmentFile[a].last \in Nat /\ assignmentFile[a].ooo \subseteq Nat
  BY DEF IInv, TypeOK, AssignmentRecord
<1>3. \A a \in Attempts \ {cur} : Follows(a) /\ AcksKept(a) /\ Normal(assignmentFile'[a])
  BY <1>1, <1>2, SameAcks DEF JournalInv, Follows, AcksKept, StateEdge
<1>4. Follows(cur) /\ AcksKept(cur) /\ Normal(assignmentFile'[cur])
  BY <1>1 DEF JournalInv, Follows, AcksKept, AckEdge
<1>5. JournalInv'
  BY <1>3, <1>4 DEF JournalInv
<1> QED BY <1>3, <1>4, <1>5 DEF JournalStep

\* A write of the journal, whether it ends the operation, raises after it or before.
LEMMA WriteFollows ==
  ASSUME IInv, JournalInv, PersistAssignment \/ PersistAck \/ RepairEvents \/ RepairResult
  PROVE  JournalStep
<1>1. Informed /\ pc \in PutLabels
  BY DEF PersistAssignment, PersistAck, RepairEvents, RepairResult, PutLabels, IInv, PhaseOK,
         Informed, CallLabels, LoadLabels
<1>2. ~Informed' \/ pc' \notin PutLabels
  BY DEF PersistAssignment, PersistAck, RepairEvents, RepairResult, FileStep, GoTo, Raise, Halt,
         PutLabels, Informed
<1>3. PutAssignment(cur) \/ UNCHANGED disk
  BY DEF PersistAssignment, PersistAck, RepairEvents, RepairResult, FileStep
<1> QED BY <1>1, <1>2, <1>3, JournalWritten, JournalUntouched DEF disk

\* The memory part of an operation: the record in memory is one step ahead.
LEMMA OperationFollows ==
  ASSUME IInv, JournalInv, NEW a \in Attempts, Operation(a)
  PROVE  JournalStep
<1>1. Ready /\ UNCHANGED <<assignmentFile, eventFiles>> /\ cur' = a
  BY DEF Operation, CreateAssignment, AdvanceAssignment, AppendEvent, AckEvent, StoreResult,
     AckResult, ClearTerminalEvents, DiscardTerminalSpool, DeleteAssignment, Begin
<1>2. /\ assignmentFile[a] = assignments[a] /\ events[a] = eventFiles[a]
      /\ assignments[a] \in AssignmentRecord /\ assignments \in [Attempts -> AssignmentRecord]
      /\ Settled(assignments[a], events[a], results[a])
  BY <1>1, ReadyKnows DEF Agree, IInv, TypeOK
<1> DEFINE old == assignmentFile[a]
           new == assignments'[a]
<1>3. old \in AssignmentRecord /\ Normal(old) /\ old.last \in Nat /\ old.ooo \subseteq Nat
  BY <1>2 DEF JournalInv, AssignmentRecord
<1>4. CASE CreateAssignment(a)
  <2>1. CASE assignments[a] = NoRecord
    <3>1. new = Received
      BY <1>2, <1>4, <2>1 DEF CreateAssignment
    <3>2. new.acked = old.acked /\ new.ooo = old.ooo /\ new.last = old.last /\ StateEdge(old.state, new.state)
      BY <1>2, <2>1, <3>1 DEF Received, NoRecord, StateEdge
    <3> QED BY <1>1, <1>3, <3>2, SameAcks, JournalUntouched
  <2>2. CASE assignments[a] # NoRecord
    <3>1. new = old
      BY <1>2, <1>4, <2>2 DEF CreateAssignment
    <3> QED BY <1>1, <1>3, <3>1, SameAcks, JournalUntouched DEF StateEdge
  <2> QED BY <2>1, <2>2
<1>5. ASSUME NEW state \in States, assignments' = [assignments EXCEPT ![a].state = state],
             StateEdge(old.state, state)
      PROVE  JournalStep
  <2>1. new = [old EXCEPT !.state = state]
    BY <1>2, <1>5, StateUpdate
  <2>2. /\ new.acked = old.acked /\ new.ooo = old.ooo /\ new.last = old.last
        /\ new.state = state
    BY <1>3, <2>1 DEF AssignmentRecord
  <2>3. AckEdge(old, new, eventFiles[a])
    BY <1>3, <2>2, SameAcks
  <2>4. StateEdge(old.state, new.state)
    BY <1>5, <2>2
  <2> QED BY <1>1, <2>3, <2>4, JournalUntouched
<1>6. ASSUME NEW state \in WorkerTargets, AdvanceAssignment(a, state) PROVE JournalStep
  <2>1. /\ assignments[a] # NoRecord /\ state \in Transitions[old.state] \union {old.state}
        /\ assignments' = [assignments EXCEPT ![a].state = state]
    BY <1>2, <1>6 DEF AdvanceAssignment
  <2>2. old.state # "absent" /\ state \in States
    BY <1>2, <2>1, StatesAre DEF Settled, WorkerTargets
  <2>3. StateEdge(old.state, state)
    BY <2>1, <2>2 DEF StateEdge
  <2> QED BY <2>1, <2>2, <2>3, <1>5
<1>7. CASE AckResult(a)
  <2>1. old.state = "finished" /\ assignments' = [assignments EXCEPT ![a].state = "result_acked"]
    BY <1>2, <1>7 DEF AckResult
  <2>2. StateEdge(old.state, "result_acked") /\ "result_acked" \in States
    BY <2>1, StatesAre DEF StateEdge, Transitions
  <2> QED BY <2>1, <2>2, <1>5
<1>8. ASSUME NEW seq \in 1 .. MaxEvents, AckEvent(a, seq) PROVE JournalStep
  <2>1. /\ old.state \in {"started", "finished"} /\ seq \in Seqs(eventFiles[a])
        /\ assignments' = [assignments EXCEPT ![a] = ApplyEventAck(old, seq)]
    BY <1>2, <1>8 DEF AckEvent
  <2>2. seq \in 1 .. old.last
    BY <1>2, <2>1 DEF Settled, Running, Terminal, Numbered
  <2>3. new = ApplyEventAck(old, seq)
    BY <1>2, <2>1
  <2>4. new.state = old.state /\ AckedSeqs(new) = AckedSeqs(old) \union {seq} /\ Normal(new)
    BY <1>3, <2>2, <2>3, ApplyEventAckKeeps, WatermarkNormal
  <2> HIDE DEF new
  <2>5. Cardinality(AckedSeqs(new) \ AckedSeqs(old)) <= 1
    <3>1. AckedSeqs(new) \ AckedSeqs(old) = {} \/ AckedSeqs(new) \ AckedSeqs(old) = {seq}
      BY <2>4
    <3>2. Cardinality({}) = 0 /\ Cardinality({seq}) = 1
      BY FS_EmptySet, FS_Singleton
    <3> QED BY <3>1, <3>2
  <2>6. AckEdge(old, new, eventFiles[a])
    BY <2>1, <2>4, <2>5 DEF AckEdge
  <2> QED BY <1>1, <2>4, <2>6, JournalUntouched DEF StateEdge, new
<1>9. CASE \/ AppendEvent(a) \/ StoreResult(a) \/ ClearTerminalEvents(a)
           \/ DiscardTerminalSpool(a) \/ DeleteAssignment(a)
  <2>1. pc' \notin PutLabels
    BY <1>9 DEF AppendEvent, StoreResult, ClearTerminalEvents, DiscardTerminalSpool,
                DeleteAssignment, Begin, PutLabels
  <2> QED BY <1>1, <2>1, JournalUntouched
<1> QED BY <1>4, <1>6, <1>7, <1>8, <1>9 DEF Operation

\* An Event or a Result was written: the record in memory is told of it.
LEMMA EventWrittenFollows ==
  ASSUME IInv, JournalInv, WriteEvent
  PROVE  JournalStep
<1>1. Informed /\ cur \in Attempts /\ pc = "event" /\ assignments[cur] = assignmentFile[cur]
      /\ assignments \in [Attempts -> AssignmentRecord]
  BY DEF WriteEvent, IInv, PhaseOK, Informed, CallLabels, LoadLabels, TypeOK, CurrentOK
<1>2. assignmentFile' = assignmentFile
  BY DEF WriteEvent, FileStep, PutEvent, disk
<1>3. CASE Raise
  BY <1>2, <1>3, JournalUntouched DEF Raise, Halt, PutLabels
<1>4. CASE cur' = cur /\ assignments' = [assignments EXCEPT ![cur].last = assignments[cur].last + 1]
  <2> DEFINE r == assignments[cur]
  <2>0. r \in AssignmentRecord /\ r.last \in Nat /\ r.last + 1 \in Nat /\ r.ooo \subseteq Nat
    BY <1>1 DEF AssignmentRecord
  <2>1. assignments'[cur] = [r EXCEPT !.last = r.last + 1]
    BY <1>1, <1>4, <2>0, LastUpdate
  <2>2. /\ assignments'[cur].acked = r.acked /\ assignments'[cur].ooo = r.ooo
        /\ assignments'[cur].last = r.last + 1 /\ assignments'[cur].state = r.state
    BY <2>0, <2>1 DEF AssignmentRecord
  <2>3. Normal(r) /\ assignments'[cur].last \in Nat /\ assignments'[cur].last >= r.last
    BY <1>1, <2>0, <2>2 DEF JournalInv
  <2>4. AckEdge(r, assignments'[cur], eventFiles'[cur])
    BY <2>0, <2>2, <2>3, SameAcks
  <2> QED BY <1>1, <1>2, <1>4, <2>2, <2>4, JournalUntouched DEF StateEdge
<1> QED BY <1>3, <1>4 DEF WriteEvent, FileStep

LEMMA ResultWrittenFollows ==
  ASSUME IInv, JournalInv, WriteResult
  PROVE  JournalStep
<1>1. Informed /\ cur \in Attempts /\ pc = "result" /\ assignments[cur] = assignmentFile[cur]
      /\ assignments \in [Attempts -> AssignmentRecord] /\ assignments[cur].state = "started"
      /\ epoch \in Nat
  BY DEF WriteResult, IInv, PhaseOK, Informed, CallLabels, LoadLabels, TypeOK, CurrentOK
<1>2. assignmentFile' = assignmentFile
  BY DEF WriteResult, FileStep, PutResult, disk
<1>3. CASE Raise
  BY <1>2, <1>3, JournalUntouched DEF Raise, Halt, PutLabels
<1>4. CASE cur' = cur /\ assignments' = [assignments EXCEPT ![cur].state = "finished", ![cur].rid = epoch]
  <2> DEFINE r == assignments[cur]
  <2>1. assignments'[cur] = [r EXCEPT !.state = "finished", !.rid = epoch]
    BY <1>1, <1>4
  <2>2. /\ assignments'[cur].acked = r.acked /\ assignments'[cur].ooo = r.ooo
        /\ assignments'[cur].last = r.last /\ assignments'[cur].state = "finished"
        /\ r.last \in Nat /\ r.ooo \subseteq Nat
    BY <1>1, <2>1 DEF AssignmentRecord
  <2>3. Normal(r) /\ StateEdge(r.state, "finished")
    BY <1>1 DEF JournalInv, StateEdge, Transitions
  <2>4. AckEdge(r, assignments'[cur], eventFiles'[cur])
    BY <2>2, <2>3, SameAcks
  <2> QED BY <1>1, <1>2, <1>4, <2>2, <2>3, <2>4, JournalUntouched
<1> QED BY <1>3, <1>4 DEF WriteResult, FileStep

\* What the recovery repairs in memory before it writes the journal.
LEMMA RepairFollows ==
  ASSUME IInv, JournalInv, RecoverEvents \/ RecoverResult
  PROVE  JournalStep
<1>1. /\ Informed /\ cur \in Attempts /\ pc \in {"check_events", "check_result"}
      /\ assignments[cur] = assignmentFile[cur] /\ assignments \in [Attempts -> AssignmentRecord]
      /\ events[cur] = eventFiles[cur] /\ results[cur] = resultFile[cur]
      /\ results[cur] \in ResultRecord
      /\ pc = "check_events" => Running(assignments[cur])
  BY DEF RecoverEvents, RecoverResult, IInv, PhaseOK, Informed, LoadLabels, TypeOK, CurrentOK
<1> DEFINE r == assignments[cur]
<1>2. /\ r \in AssignmentRecord /\ r.last \in Nat /\ r.ooo \subseteq Nat /\ Normal(r)
      /\ WellFormed(r, eventFiles[cur], resultFile[cur]) /\ eventFiles[cur] \in SUBSET EventFile
  BY <1>1 DEF IInv, TypeOK, DiskOK, AssignmentRecord, JournalInv
<1>3. UNCHANGED <<assignmentFile, eventFiles, cur>>
  BY DEF RecoverEvents, RecoverResult, Refuse, GoTo, disk
<1>4. CASE pc' \notin PutLabels
  BY <1>3, <1>4, JournalUntouched
<1>5. CASE RecoverEvents /\ pc' \in PutLabels
  <2>1. /\ pc = "check_events" /\ LastSeq(events[cur]) > r.last
        /\ assignments' = [assignments EXCEPT ![cur].last = LastSeq(events[cur])]
    BY <1>5 DEF RecoverEvents, Refuse, GoTo, PutLabels
  <2>2. LastSeq(events[cur]) \in Nat
    BY <1>1, <1>2, <2>1, NumberedFiles DEF WellFormed
  <2>3. assignments'[cur] = [r EXCEPT !.last = LastSeq(events[cur])]
    BY <1>1, <2>1, <2>2, LastUpdate
  <2>4. /\ assignments'[cur].acked = r.acked /\ assignments'[cur].ooo = r.ooo
        /\ assignments'[cur].last = LastSeq(events[cur]) /\ assignments'[cur].state = r.state
    BY <1>2, <2>2, <2>3 DEF AssignmentRecord
  <2>5. assignments'[cur].last \in Nat /\ assignments'[cur].last >= r.last
    BY <1>2, <2>1, <2>2, <2>4
  <2> HIDE DEF r
  <2>6. AckEdge(r, assignments'[cur], eventFiles'[cur])
    BY <1>2, <2>4, <2>5, SameAcks
  <2> QED BY <1>1, <1>3, <2>4, <2>6, JournalUntouched DEF StateEdge, r
<1>6. CASE RecoverResult /\ pc' \in PutLabels
  <2>1. /\ r.state = "started"
        /\ assignments' = [assignments EXCEPT ![cur].state = "finished", ![cur].rid = results[cur].id]
    BY <1>6 DEF RecoverResult, Refuse, GoTo, PutLabels
  <2>2. results[cur].id \in Nat
    BY <1>1 DEF ResultRecord
  <2>3. assignments'[cur] = [r EXCEPT !.state = "finished", !.rid = results[cur].id]
    BY <1>1, <2>1
  <2>4. /\ assignments'[cur].acked = r.acked /\ assignments'[cur].ooo = r.ooo
        /\ assignments'[cur].last = r.last /\ assignments'[cur].state = "finished"
    BY <1>2, <2>3 DEF AssignmentRecord
  <2>5. StateEdge(r.state, "finished")
    BY <2>1 DEF StateEdge, Transitions
  <2> HIDE DEF r
  <2>6. AckEdge(r, assignments'[cur], eventFiles'[cur])
    BY <1>2, <2>4, SameAcks
  <2> QED BY <1>1, <1>3, <2>4, <2>5, <2>6, JournalUntouched DEF r
<1> QED BY <1>4, <1>5, <1>6

\* A record that is removed is terminal on disk.
LEMMA RemovalFollows ==
  ASSUME IInv, JournalInv, UnlinkAssignment
  PROVE  JournalStep
<1>1. Informed /\ cur \in Attempts /\ assignmentFile[cur].state \in Terminal
  BY DEF UnlinkAssignment, IInv, PhaseOK, Informed, CallLabels, LoadLabels, TypeOK, CurrentOK, Ended
<1>2. pc' \notin PutLabels
  BY DEF UnlinkAssignment, FileStep, Raise, Halt, PutLabels
<1>3. CASE UNCHANGED disk
  BY <1>2, <1>3, JournalUntouched DEF disk
<1>4. CASE DropAssignment(cur)
  <2>1. assignmentFile'[cur] = NoRecord
        /\ \A a \in Attempts \ {cur} : assignmentFile'[a] = assignmentFile[a]
    BY <1>1, <1>4 DEF DropAssignment, IInv, TypeOK
  <2>2. \A a \in Attempts : assignmentFile[a].last \in Nat /\ assignmentFile[a].ooo \subseteq Nat
    BY DEF IInv, TypeOK, AssignmentRecord
  <2>3. \A a \in Attempts \ {cur} : Follows(a) /\ AcksKept(a) /\ Normal(assignmentFile'[a])
    BY <2>1, <2>2, SameAcks DEF JournalInv, Follows, AcksKept, StateEdge
  <2>4. Follows(cur) /\ AcksKept(cur) /\ Normal(assignmentFile'[cur])
    BY <1>1, <2>1 DEF Follows, AcksKept, Normal, NoRecord
  <2> QED BY <1>2, <2>3, <2>4 DEF JournalInv, JournalStep
<1> QED BY <1>3, <1>4 DEF UnlinkAssignment, FileStep

LEMMA NextFollows ==
  ASSUME IInv, JournalInv, Next
  PROVE  JournalStep
<1>1. CASE \/ UnlinkResult \/ RemoveEvent \/ ClearDone \/ DiscardResult \/ DiscardDone
  <2>1. assignmentFile' = assignmentFile /\ pc' \notin PutLabels
    BY <1>1 DEF UnlinkResult, RemoveEvent, ClearDone, DiscardResult, DiscardDone, FileStep, Raise,
                Halt, GoTo, DropResult, DropEvent, disk, PutLabels
  <2> QED BY <2>1, JournalUntouched
<1>2. CASE OpenIdentity \/ ReadRecords \/ (\E a \in Attempts : Scan(a)) \/ Opened
  <2>1. assignmentFile' = assignmentFile /\ pc' \notin PutLabels
    BY <1>2 DEF OpenIdentity, ReadRecords, Refuse, Scan, Opened, FileStep, Raise, Halt, disk,
                PutLabels, IInv, PhaseOK, CallLabels, LoadLabels
  <2> QED BY <2>1, JournalUntouched
<1>3. CASE RecoverDropResult \/ RecoverDropEvent \/ RecoverDropped
  <2>1. assignmentFile' = assignmentFile /\ pc' \notin PutLabels
    BY <1>3 DEF RecoverDropResult, RecoverDropEvent, RecoverDropped, FileStep, Raise, Halt, GoTo,
                DropResult, DropEvent, disk, PutLabels
  <2> QED BY <2>1, JournalUntouched
<1>4. CASE Close \/ Crash
  <2>1. assignmentFile' = assignmentFile /\ pc' \notin PutLabels
    BY <1>4 DEF Close, Crash, Halt, disk, PutLabels
  <2> QED BY <2>1, JournalUntouched
<1> QED BY <1>1, <1>2, <1>3, <1>4, OperationFollows, WriteFollows, EventWrittenFollows,
           ResultWrittenFollows, RemovalFollows, RepairFollows DEF Next, FileOperation, Recovery

LEMMA InitJournal == Init => JournalInv
  BY DEF Init, JournalInv, Normal, NoRecord, Informed, LoadLabels

LEMMA StepJournal ==
  /\ IInv /\ JournalInv /\ [Next]_vars => JournalInv'
  /\ IInv /\ JournalInv /\ [Next]_vars => [\A a \in Attempts : Follows(a) /\ AcksKept(a)]_vars
<1>1. CASE UNCHANGED vars
  BY <1>1 DEF vars, JournalInv, Informed
<1> QED BY <1>1, NextFollows DEF JournalStep

\* The journal on disk takes one edge of _TRANSITIONS at a time, through crashes, failing
\* writes and repairs (advance_assignment, store_result, ack_result, _load_records).
THEOREM JournalOrder == Spec => JournalFollowsTransitions
<1>1. (\A a \in Attempts : Follows(a) /\ AcksKept(a)) =>
        \A a \in Attempts :
          LET old == assignmentFile[a].state  new == assignmentFile'[a].state
          IN \/ new = old
             \/ old = "absent" /\ new = "received"
             \/ old \in Terminal /\ new = "absent"
             \/ old # "absent" /\ new \in Transitions[old]
  BY DEF Follows, StateEdge
<1> QED BY <1>1, InvariantHolds, InitJournal, StepJournal, PTL DEF Spec, JournalFollowsTransitions

\* No acknowledgement of Core is lost or made up on disk, whatever the order the ACKs of
\* Events come in (ack_event, _apply_event_ack).
THEOREM AcksAreKept == Spec => AcksNeverLost
<1>1. (\A a \in Attempts : Follows(a) /\ AcksKept(a)) =>
        \A a \in Attempts :
          LET old == assignmentFile[a]  new == assignmentFile'[a]
          IN new.state # "absent" =>
               /\ AckedSeqs(old) \subseteq AckedSeqs(new)
               /\ AckedSeqs(new) \subseteq Seqs(eventFiles[a]) \union AckedSeqs(old)
               /\ Cardinality(AckedSeqs(new) \ AckedSeqs(old)) <= 1
               /\ \A i \in new.ooo : i > new.acked + 1
  BY DEF AcksKept, AckEdge, Normal
<1> QED BY <1>1, InvariantHolds, InitJournal, StepJournal, PTL DEF Spec, AcksNeverLost
=============================================================================
