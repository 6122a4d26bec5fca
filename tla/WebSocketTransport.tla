------------------------- MODULE WebSocketTransport -------------------------
(***************************************************************************)
(* One WebSocket connection of the worker (runtime/transport.py), from its *)
(* handshake to its end.  Requests of many tasks share it: an              *)
(* answer finds its request by the identity of the message it replies to;  *)
(* what replies to nothing is a push, an assignment or a command, and goes *)
(* to the queue of the loop that polls for it.                             *)
(*                                                                         *)
(* Core answers a request with as many envelopes as were asked for (one,   *)
(* or one per Attempt of a resume), or with one error; it may be slow, and *)
(* pushes when it likes.  The connection is FIFO and may drop.             *)
(***************************************************************************)
EXTENDS Naturals, SequencesExt

CONSTANTS
  Tasks,
  Cancelable,     \* the lease renewals: cancelled when their attempt ends
  ResumeSize,     \* Attempts in a resume
  Queues,         \* of "assignments" and "commands", those that are looked at
  MaxRequests,
  MaxPushes,      \* to all queues together
  MaxGivenUp      \* requests that time out or are cancelled

ASSUME SizesAssumption ==
  /\ Cancelable \subseteq Tasks
  /\ Queues \subseteq {"assignments", "commands"}
  /\ ResumeSize \in Nat \ {0}
  /\ {MaxRequests, MaxPushes, MaxGivenUp} \subseteq Nat

VARIABLES
  up,          \* the connection
  fromCore,    \* envelopes on their way to the worker
  core,        \* requests Core has not answered in full
  pushed,      \* pushes of Core to each queue
  attach,      \* connect: waits for the "upgrade", to send "hello", for "ready"; it
               \* returned ("attached") or raised ("failed")
  open,        \* _socket is not None
  reading,     \* _reader runs
  closed,      \* _closed
  error,       \* _closed_error: "none", "connection" or "protocol"
  atEnd,       \* observed only: requests made when the end was last announced
  pending,     \* _pending: the answers of each registered request
  queue,       \* _assignments and _commands
  poll,        \* _queue_or_closed of the claim loop and of the command loop
  delivered,   \* observed only: what each loop was given
  task,        \* the request each task makes
  requests,    \* requests made so far: the next message identity
  returned,    \* observed only: requests that succeeded
  givenUp      \* requests that timed out or were cancelled

connection == <<up, fromCore, core, pushed>>
reader == <<attach, open, reading, closed, error, atEnd>>
polls == <<queue, poll, delivered>>
calls == <<task, requests, returned>>
vars == <<connection, reader, pending, polls, calls, givenUp>>

Answer(to, n) == [type |-> "answer", to |-> to, n |-> n]
Refusal(to) == [type |-> "error", to |-> to, n |-> 0]
Push(q, n) == [type |-> q, to |-> 0, n |-> n]
Sentinel == [type |-> "closed", to |-> 0, n |-> 0]

\* got: the answers so far; size: how many are asked for.
Idle == [pc |-> "idle", id |-> 0, size |-> 0, got |-> <<>>]
NotPolling == [pc |-> "idle", held |-> <<>>]

Init ==
  /\ up = FALSE /\ fromCore = <<>> /\ core = {} /\ pushed = [q \in Queues |-> 0]
  /\ attach = "upgrade" /\ open = FALSE /\ reading = FALSE /\ closed = FALSE
  /\ error = "none" /\ atEnd = 0
  /\ pending = <<>>
  /\ queue = [q \in Queues |-> <<>>] /\ poll = [q \in Queues |-> NotPolling]
  /\ delivered = [q \in Queues |-> <<>>]
  /\ task = [t \in Tasks |-> Idle] /\ requests = 0 /\ returned = {}
  /\ givenUp = 0

Registered == DOMAIN pending
Forgotten(id) == [i \in Registered \ {id} |-> pending[i]]
Put(id, envelope) == [pending EXCEPT ![id] = Append(@, envelope)]
SentinelToAll == [i \in Registered |-> Append(pending[i], Sentinel)]

-----------------------------------------------------------------------------
(* connect: the upgrade, the hello, and runtime.ready as its answer *)

Hello == [id |-> 0, size |-> 1, next |-> 1]
Ready == Answer(Hello.id, 1)

\* Opened, also with a renewed certificate, or refused.
Upgrades ==
  /\ attach = "upgrade"
  /\ \/ attach' = "hello" /\ up' = TRUE /\ open' = TRUE
     \/ attach' = "failed" /\ UNCHANGED <<up, open>>
  /\ UNCHANGED <<fromCore, core, pushed, reading, closed, error, atEnd, pending, polls, calls, givenUp>>

HelloSent ==
  /\ attach = "hello" /\ up
  /\ attach' = "ready" /\ core' = {Hello}
  /\ UNCHANGED <<up, fromCore, pushed, open, reading, closed, error, atEnd, pending, polls, calls, givenUp>>

\* The hello is sent outside the `try` that closes.
HelloFails ==
  /\ attach = "hello" /\ ~up
  /\ attach' = "failed"
  /\ UNCHANGED <<connection, open, reading, closed, error, atEnd, pending, polls, calls, givenUp>>

\* What Core pushed behind it waits for the reader.
Attaches ==
  /\ attach = "ready" /\ IsPrefix(<<Ready>>, fromCore)
  /\ attach' = "attached" /\ reading' = TRUE /\ fromCore' = Tail(fromCore)
  /\ UNCHANGED <<up, core, pushed, open, closed, error, atEnd, pending, polls, calls, givenUp>>

\* An error of Core, the end of the connection, or five seconds: close begins.
HandshakeFails ==
  /\ attach = "ready" /\ ~IsPrefix(<<Ready>>, fromCore)
  /\ attach' = "failed" /\ open' = FALSE
  /\ UNCHANGED <<connection, reading, closed, error, atEnd, pending, polls, calls, givenUp>>

\* A cancellation is no Exception: the socket is left to the caller.
HandshakeCancelled ==
  /\ attach \in {"upgrade", "hello", "ready"}
  /\ attach' = "failed"
  /\ core' \in {core} \union (IF attach = "hello" /\ up THEN {{Hello}} ELSE {})
  /\ UNCHANGED <<up, fromCore, pushed, open, reading, closed, error, atEnd, pending, polls, calls, givenUp>>

-----------------------------------------------------------------------------
(* A request: _start_request, _request_one, resume *)

\* The request is registered, then it waits for _send_lock and for the socket.
RequestStarts(t, size) ==
  /\ task[t] = Idle /\ attach = "attached" /\ open /\ requests < MaxRequests
  /\ requests' = requests + 1
  /\ task' = [task EXCEPT ![t] = [Idle EXCEPT !.pc = "sending", !.id = requests + 1, !.size = size]]
  /\ pending' = [i \in Registered \union {requests + 1} |-> IF i \in Registered THEN pending[i] ELSE <<>>]
  /\ UNCHANGED <<connection, reader, polls, returned, givenUp>>

Asked(t) == [id |-> task[t].id, size |-> task[t].size, next |-> 1]

Sent(t) ==
  /\ task[t].pc = "sending" /\ up
  /\ core' = core \union {Asked(t)}
  /\ task' = [task EXCEPT ![t].pc = "waiting"]
  /\ UNCHANGED <<up, fromCore, pushed, reader, pending, polls, requests, returned, givenUp>>

\* The connection is gone, or close took the socket while the request waited for the lock.
SendFails(t) ==
  /\ task[t].pc = "sending" /\ (~up \/ ~open)
  /\ pending' = Forgotten(task[t].id)
  /\ task' = [task EXCEPT ![t] = Idle]
  /\ UNCHANGED <<connection, reader, polls, requests, returned, givenUp>>

\* Mutant: the request is forgotten with the first answer, a resume waits for more.
ReceivesOnce(t) ==
  /\ task[t].pc = "waiting" /\ pending[task[t].id] # <<>>
  /\ pending' = Forgotten(task[t].id)
  /\ task' = [task EXCEPT ![t] = IF task[t].size > 1 THEN [@ EXCEPT !.size = 1] ELSE Idle]
  /\ UNCHANGED <<connection, reader, polls, requests, returned, givenUp>>

\* The next envelope of its queue: the last answer ends the request, an error or the
\* sentinel fails it.
Receives(t) ==
  LET envelope == Head(pending[task[t].id])
      got == Append(task[t].got, envelope)
      complete == Len(got) = task[t].size
  IN /\ task[t].pc = "waiting" /\ pending[task[t].id] # <<>>
     /\ IF envelope.type = "answer" /\ ~complete
          THEN /\ task' = [task EXCEPT ![t].got = got]
               /\ pending' = [pending EXCEPT ![task[t].id] = Tail(@)]
          ELSE task' = [task EXCEPT ![t] = Idle] /\ pending' = Forgotten(task[t].id)
     /\ returned' = IF envelope.type = "answer" /\ complete
                      THEN returned \union {[id |-> task[t].id, size |-> task[t].size, got |-> got]}
                      ELSE returned
     /\ UNCHANGED <<connection, reader, polls, requests, givenUp>>

\* 20 seconds without an envelope: the request is forgotten, Core may still answer it.
TimesOut(t) ==
  /\ task[t].pc = "waiting" /\ pending[task[t].id] = <<>> /\ givenUp < MaxGivenUp
  /\ givenUp' = givenUp + 1
  /\ pending' = Forgotten(task[t].id)
  /\ task' = [task EXCEPT ![t] = Idle]
  /\ UNCHANGED <<connection, reader, polls, requests, returned>>

\* A cancellation is no Exception: in _start_request it leaves the registration behind,
\* and the envelope is on its way or not.
Cancelled(t) ==
  /\ t \in Cancelable /\ task[t].pc # "idle" /\ givenUp < MaxGivenUp
  /\ givenUp' = givenUp + 1
  /\ task' = [task EXCEPT ![t] = Idle]
  /\ \/ task[t].pc = "waiting" /\ pending' = Forgotten(task[t].id) /\ UNCHANGED core
     \/ /\ task[t].pc = "sending" /\ UNCHANGED pending
        /\ core' \in {core} \union (IF up THEN {core \union {Asked(t)}} ELSE {})
  /\ UNCHANGED <<up, fromCore, pushed, reader, polls, requests, returned>>

-----------------------------------------------------------------------------
(* _read_loop *)

Incoming == Head(fromCore)
Reads == reading /\ fromCore # <<>> /\ fromCore' = Tail(fromCore)

\* Mutant: answers are taken to come in the order of the requests.
ReadsAnswerInOrder ==
  /\ Reads /\ Incoming.to > 0 /\ Registered # {}
  /\ pending' = Put(CHOOSE i \in Registered : \A j \in Registered : i <= j, Incoming)
  /\ UNCHANGED <<up, core, pushed, reader, polls, calls, givenUp>>

ReadsAnswer ==
  /\ Reads /\ Incoming.to \in Registered
  /\ pending' = Put(Incoming.to, Incoming)
  /\ UNCHANGED <<up, core, pushed, reader, polls, calls, givenUp>>

ReadsPush ==
  /\ Reads /\ Incoming.type \in Queues
  /\ queue' = [queue EXCEPT ![Incoming.type] = Append(@, Incoming.n)]
  /\ UNCHANGED <<up, core, pushed, reader, pending, poll, delivered, calls, givenUp>>

\* The finally of _read_loop: whoever is registered by now gets the sentinel.
Ends(why) ==
  /\ reading' = FALSE /\ closed' = TRUE /\ error' = why
  /\ pending' = SentinelToAll /\ atEnd' = requests

\* Mutant: the reader wakes nobody when it ends with a protocol error.
ReadsUnexpectedSilently ==
  /\ Reads /\ Incoming.to > 0 /\ Incoming.to \notin Registered
  /\ reading' = FALSE /\ closed' = TRUE /\ error' = "protocol" /\ atEnd' = requests
  /\ UNCHANGED <<up, core, pushed, attach, open, pending, polls, calls, givenUp>>

\* "unexpected Runtime push": an answer whose request is forgotten.
ReadsUnexpected ==
  /\ Reads /\ Incoming.to > 0 /\ Incoming.to \notin Registered
  /\ Ends("protocol")
  /\ UNCHANGED <<up, core, pushed, attach, open, polls, calls, givenUp>>

\* Mutant: the reader only leaves a note that it ended.
ReaderEndsSilently ==
  /\ reading /\ ~up /\ fromCore = <<>>
  /\ reading' = FALSE /\ closed' = TRUE /\ error' = "connection" /\ atEnd' = requests
  /\ UNCHANGED <<connection, attach, open, pending, polls, calls, givenUp>>

ReaderEnds ==
  /\ reading /\ ~up /\ fromCore = <<>>
  /\ Ends("connection")
  /\ UNCHANGED <<connection, attach, open, polls, calls, givenUp>>

-----------------------------------------------------------------------------
(* _queue_or_closed, claim_assignment, poll_commands *)

\* It waits for two tasks, one that gets from the queue and one that waits for the end.
PollStarts(q) ==
  /\ poll[q] = NotPolling /\ attach = "attached" /\ ~closed
  /\ poll' = [poll EXCEPT ![q].pc = "waiting"]
  /\ UNCHANGED <<connection, reader, pending, queue, delivered, calls, givenUp>>

\* The getting task is done; the poll is not running yet.
PollTakes(q) ==
  /\ poll[q].pc = "waiting" /\ queue[q] # <<>>
  /\ poll' = [poll EXCEPT ![q] = [pc |-> "taken", held |-> <<Head(queue[q])>>]]
  /\ queue' = [queue EXCEPT ![q] = Tail(@)]
  /\ UNCHANGED <<connection, reader, pending, delivered, calls, givenUp>>

\* What was got is returned, also when the wait timed out or the connection ended; a poll
\* for commands returns all there are.
PollReturns(q) ==
  LET rest == IF q = "commands" THEN queue[q] ELSE <<>>
  IN /\ poll[q].pc = "taken"
     /\ delivered' = [delivered EXCEPT ![q] = @ \o poll[q].held \o rest]
     /\ queue' = [queue EXCEPT ![q] = IF q = "commands" THEN <<>> ELSE @]
     /\ poll' = [poll EXCEPT ![q] = NotPolling]
     /\ UNCHANGED <<connection, reader, pending, calls, givenUp>>

\* Mutant: the end of the wait is looked at before the result of the getting task.
PollEndsFirst(q) ==
  /\ poll[q].pc \in {"waiting", "taken"}
  /\ poll' = [poll EXCEPT ![q] = NotPolling]
  /\ UNCHANGED <<connection, reader, pending, queue, delivered, calls, givenUp>>

\* Nothing was got: the wait timed out, or the connection ended; the getting task is
\* cancelled and what comes now stays in the queue.
PollEnds(q) ==
  /\ poll[q].pc = "waiting"
  /\ poll' = [poll EXCEPT ![q] = NotPolling]
  /\ UNCHANGED <<connection, reader, pending, queue, delivered, calls, givenUp>>

-----------------------------------------------------------------------------
(* close, by the worker that replaces the transport or whose connect was in vain *)

CloseStarts ==
  /\ attach \in {"attached", "failed"}
  /\ open /\ open' = FALSE
  /\ UNCHANGED <<connection, attach, reading, closed, error, atEnd, pending, polls, calls, givenUp>>

\* The socket is closed; the reader is cancelled unless it ended.
CloseEnds ==
  /\ attach \in {"attached", "failed"} /\ ~open /\ (up \/ reading)
  /\ up' = FALSE /\ fromCore' = <<>>
  /\ reading' = FALSE /\ closed' = TRUE
  /\ pending' = SentinelToAll /\ atEnd' = requests
  /\ UNCHANGED <<core, pushed, attach, open, error, polls, calls, givenUp>>

-----------------------------------------------------------------------------
(* Core, and the network *)

CoreAnswers(r) ==
  /\ up
  /\ fromCore' = Append(fromCore, Answer(r.id, r.next))
  /\ core' = (core \ {r}) \union (IF r.next < r.size THEN {[r EXCEPT !.next = @ + 1]} ELSE {})
  /\ UNCHANGED <<up, pushed, reader, pending, polls, calls, givenUp>>

CoreRefuses(r) ==
  /\ up /\ r.next = 1
  /\ fromCore' = Append(fromCore, Refusal(r.id))
  /\ core' = core \ {r}
  /\ UNCHANGED <<up, pushed, reader, pending, polls, calls, givenUp>>

\* Core pushes as soon as it has sent runtime.ready.
CorePushes(q) ==
  /\ up /\ (attach = "attached" \/ Contains(fromCore, Ready))
  /\ FoldFunction(+, 0, pushed) < MaxPushes
  /\ pushed' = [pushed EXCEPT ![q] = @ + 1]
  /\ fromCore' = Append(fromCore, Push(q, pushed[q] + 1))
  /\ UNCHANGED <<up, core, reader, pending, polls, calls, givenUp>>

\* Of what was on its way the worker still gets a first part.
ConnectionDrops ==
  /\ up /\ up' = FALSE
  /\ \E n \in 0 .. Len(fromCore) : fromCore' = SubSeq(fromCore, 1, n)
  /\ UNCHANGED <<core, pushed, reader, pending, polls, calls, givenUp>>

-----------------------------------------------------------------------------
Handshake ==
  \/ Upgrades \/ HelloSent \/ HelloFails \/ Attaches \/ HandshakeFails \/ HandshakeCancelled

RequestStep(t) ==
  \/ \E size \in {1, ResumeSize} : RequestStarts(t, size)
  \/ Sent(t) \/ SendFails(t) \/ Receives(t) \/ TimesOut(t) \/ Cancelled(t)

PollStep(q) == PollStarts(q) \/ PollTakes(q) \/ PollReturns(q) \/ PollEnds(q)

ReaderStep == ReadsAnswer \/ ReadsPush \/ ReadsUnexpected \/ ReaderEnds

CoreStep ==
  \/ \E r \in core : CoreAnswers(r) \/ CoreRefuses(r)
  \/ \E q \in Queues : CorePushes(q)
  \/ ConnectionDrops

Next ==
  \/ Handshake
  \/ \E t \in Tasks : RequestStep(t)
  \/ \E q \in Queues : PollStep(q)
  \/ ReaderStep \/ CloseStarts \/ CloseEnds \/ CoreStep

Spec == Init /\ [][Next]_vars

-----------------------------------------------------------------------------
(* Properties *)

TypeOK ==
  /\ {up, open, reading, closed} \subseteq BOOLEAN
  /\ error \in {"none", "connection", "protocol"}
  /\ attach \in {"upgrade", "hello", "ready", "attached", "failed"}
  /\ reading => attach = "attached"
  /\ attach = "attached" => (closed <=> ~reading)
  /\ Registered \subseteq 1 .. requests
  /\ \A t \in Tasks :
       /\ task[t].pc \in {"idle", "sending", "waiting"}
       /\ task[t].pc # "idle" => task[t].id \in Registered
  /\ \A t, u \in Tasks : t # u /\ task[t].pc # "idle" => task[t].id # task[u].id

\* A request that returns was answered by Core in full: every answer is one to this
\* request, a resume has each of its decisions once, and neither an error nor the end of
\* the connection nor an answer another task gave up is counted among them (_request_one,
\* resume).
AnsweredInFull ==
  \A r \in returned : r.got = [n \in 1 .. r.size |-> Answer(r.id, n)]

InFlight(q) == {fromCore[x].n : x \in {y \in DOMAIN fromCore : fromCore[y].type = q}}

\* A command or an assignment the reader took from the socket is given to its loop once and
\* in the order of Core, also when the poll times out or the connection ends while it is
\* being taken from the queue (_queue_or_closed).
NothingTakenIsLost ==
  \A q \in Queues :
    LET taken == delivered[q] \o poll[q].held \o queue[q]
    IN /\ \A n \in DOMAIN taken : taken[n] = n
       /\ up => InFlight(q) = Len(taken) + 1 .. pushed[q]

\* The end of the connection wakes every request that was made before it, however it ended:
\* also when an answer that came too late ended the reader, none of them waits for its 20
\* seconds (_read_loop's finally, close).  Only a request made after a reader that ended
\* with a protocol error may wait: it finds the socket still open.
EndWakesEveryRequest ==
  closed =>
    \A t \in Tasks : task[t].pc = "waiting" /\ pending[task[t].id] = <<>>
                      => error = "protocol" /\ task[t].id > atEnd
=============================================================================
