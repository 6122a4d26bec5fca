---------------------- MODULE WebSocketTransportProofs ----------------------
(***************************************************************************)
(* Proofs about WebSocketTransport.  What is on its way from Core is one   *)
(* sequence of many streams: the answers to each request, the pushes to    *)
(* each queue.  Each stream is numbered, ordered, and goes on where the    *)
(* worker's own part of it ends; a lost connection cuts it, from its end.  *)
(***************************************************************************)
EXTENDS WebSocketTransport, SequenceTheorems, TLAPS

Envelopes == [type : {"answer", "error", "closed"} \union Queues, to : Nat, n : Nat]
Requests == [id : Nat, size : Nat \ {0}, next : Nat \ {0}]
TaskRecords ==
  [pc : {"idle", "sending", "waiting"}, id : Nat, size : Nat, got : Seq(Envelopes)]
Polls == [pc : {"idle", "waiting", "taken"}, held : Seq(Nat)]

\* The numbers of a stream in a sequence of envelopes, in what order they come, and that
\* they go on from a first one.
Numbers(s, type, to) == {s[x].n : x \in {y \in DOMAIN s : s[y].type = type /\ s[y].to = to}}
Numbered(envelope) == envelope.type \in Queues \/ (envelope.type = "answer" /\ envelope.to > 0)
Ordered(s) ==
  \A x, y \in DOMAIN s :
    x < y /\ s[x].type = s[y].type /\ s[x].to = s[y].to /\ Numbered(s[x]) => s[x].n < s[y].n
GoesOn(numbers, first) == \A n \in numbers : n = first \/ n - 1 \in numbers

Types ==
  /\ up \in BOOLEAN /\ open \in BOOLEAN /\ reading \in BOOLEAN /\ closed \in BOOLEAN
  /\ error \in {"none", "connection", "protocol"}
  /\ attach \in {"upgrade", "hello", "ready", "attached", "failed"}
  /\ attach = "upgrade" => ~up
  /\ attach # "attached" => ~reading
  /\ attach \in {"upgrade", "hello", "ready"} => ~closed
  /\ attach = "attached" => (closed <=> ~reading)
  /\ fromCore \in Seq(Envelopes) /\ core \subseteq Requests
  /\ pushed \in [Queues -> Nat]
  /\ requests \in Nat /\ Registered \subseteq 1 .. requests
  /\ atEnd \in Nat /\ atEnd <= requests
  /\ pending \in [Registered -> Seq(Envelopes)]
  /\ queue \in [Queues -> Seq(Nat)] /\ delivered \in [Queues -> Seq(Nat)]
  /\ poll \in [Queues -> Polls]
  /\ task \in [Tasks -> TaskRecords]

\* Each request is one task's, and registered while the task makes it.
Owned ==
  /\ \A t \in Tasks : IF task[t].pc = "idle" THEN task[t] = Idle ELSE task[t].id \in Registered
  /\ \A t, u \in Tasks : t # u /\ task[t].pc # "idle" => task[t].id # task[u].id

\* Nothing that was on its way is lost yet.
Lossless == up \/ attach = "upgrade"

\* What Core and the network hold: streams in order, each request once and ahead of the
\* answers to it.
Coming ==
  /\ Ordered(fromCore)
  /\ \A x \in DOMAIN fromCore : /\ fromCore[x].to <= requests
                                /\ fromCore[x].type \in Queues => fromCore[x].to = 0
  /\ \A r \in core : /\ r.id <= requests
                     /\ r.id > 0 => \A n \in Numbers(fromCore, "answer", r.id) : n < r.next
  /\ \A r, v \in core : r.id = v.id => r = v

\* Core has not heard of a request that waits to be sent.
Unsent(t) ==
  /\ task[t].got = <<>> /\ task[t].size > 0
  /\ \A r \in core : r.id # task[t].id
  /\ \A x \in DOMAIN fromCore : fromCore[x].to # task[t].id
  /\ \A x \in DOMAIN pending[task[t].id] : pending[task[t].id][x].type # "answer"

OnlyAnswers(s) == \A x \in DOMAIN s : s[x].type = "answer"
Expected(t) == Len(task[t].got) + Len(pending[task[t].id]) + 1
OnTheirWay(t) == Numbers(fromCore, "answer", task[t].id)

\* The answers to a request that waits, from the first one the task got to the next one of
\* Core, are numbered without a gap; an error or the sentinel ends them.
InTurn(t) ==
  /\ Len(task[t].got) < task[t].size
  /\ \A n \in DOMAIN task[t].got : task[t].got[n] = Answer(task[t].id, n)
  /\ \A x \in DOMAIN pending[task[t].id] :
       \/ \E y \in 1 .. x : pending[task[t].id][y].type # "answer"
       \/ pending[task[t].id][x] = Answer(task[t].id, Len(task[t].got) + x)
  /\ OnlyAnswers(pending[task[t].id]) => GoesOn(OnTheirWay(t), Expected(t))
  /\ OnlyAnswers(pending[task[t].id]) /\ Lossless =>
       \A r \in core : r.id = task[t].id => r.next = Expected(t) \/ r.next - 1 \in OnTheirWay(t)

Asks(t) ==
  /\ task[t].pc = "sending" => Unsent(t)
  /\ task[t].pc = "waiting" => InTurn(t)
Asking == \A t \in Tasks : Asks(t)

\* The pushes the worker took, in the order of Core, and those on their way after them.
Taken(q) == delivered[q] \o poll[q].held \o queue[q]
Follows(q) ==
  /\ \A n \in DOMAIN Taken(q) : Taken(q)[n] = n
  /\ poll[q].pc # "taken" => poll[q].held = <<>>
  /\ Len(Taken(q)) <= pushed[q]
  /\ GoesOn(Numbers(fromCore, q, 0), Len(Taken(q)) + 1)
  /\ \A n \in Numbers(fromCore, q, 0) : n <= pushed[q]
  /\ Lossless => Numbers(fromCore, q, 0) = Len(Taken(q)) + 1 .. pushed[q]
Pushes == \A q \in Queues : Follows(q)

\* What the end has announced to a request made before it: its queue ends with the sentinel.
\* A request made later cannot be sent, unless the reader ended with a protocol error.
Told(envelopes) == envelopes # <<>> /\ envelopes[Len(envelopes)].type # "answer"
Heard(t) ==
  task[t].pc # "idle" =>
    /\ task[t].id <= atEnd => Told(pending[task[t].id])
    /\ task[t].pc = "waiting" => task[t].id <= atEnd \/ error = "protocol"
Woken ==
  closed => /\ error # "protocol" => ~up
            /\ \A t \in Tasks : Heard(t)

IInv == Types /\ Owned /\ Coming /\ Asking /\ Pushes /\ Woken /\ AnsweredInFull

-----------------------------------------------------------------------------
(* Streams in a sequence of envelopes *)

LEMMA InNumbers ==
  ASSUME NEW s, NEW type, NEW to, NEW n
  PROVE  n \in Numbers(s, type, to)
           <=> \E x \in DOMAIN s : s[x].type = type /\ s[x].to = to /\ s[x].n = n
BY DEF Numbers

LEMMA AppendFacts ==
  ASSUME NEW S, NEW s \in Seq(S), NEW e \in S
  PROVE  /\ Append(s, e) \in Seq(S) /\ Len(Append(s, e)) = Len(s) + 1
         /\ DOMAIN s = 1 .. Len(s) /\ DOMAIN Append(s, e) = 1 .. Len(s) + 1
         /\ \A x \in 1 .. Len(s) : Append(s, e)[x] = s[x]
         /\ Append(s, e)[Len(s) + 1] = e
         /\ Append(s, e) # <<>> /\ Len(s) \in Nat
OBVIOUS

LEMMA TailFacts ==
  ASSUME NEW S, NEW s \in Seq(S), s # <<>>
  PROVE  /\ Head(s) \in S /\ Head(s) = s[1] /\ 1 \in DOMAIN s
         /\ Tail(s) \in Seq(S) /\ Len(Tail(s)) = Len(s) - 1
         /\ DOMAIN s = 1 .. Len(s) /\ DOMAIN Tail(s) = 1 .. Len(s) - 1
         /\ \A x \in 1 .. Len(s) - 1 : Tail(s)[x] = s[x + 1]
         /\ Len(s) \in Nat \ {0}
OBVIOUS

LEMMA PrefixFacts ==
  ASSUME NEW S, NEW s \in Seq(S), NEW n \in 0 .. Len(s)
  PROVE  /\ SubSeq(s, 1, n) \in Seq(S) /\ DOMAIN SubSeq(s, 1, n) = 1 .. n
         /\ DOMAIN s = 1 .. Len(s) /\ Len(s) \in Nat
         /\ \A x \in 1 .. n : SubSeq(s, 1, n)[x] = s[x]
OBVIOUS

\* One more envelope at the end goes to the stream it belongs to.
LEMMA AppendedNumbers ==
  ASSUME NEW s \in Seq(Envelopes), NEW e \in Envelopes, NEW type, NEW to
  PROVE  Numbers(Append(s, e), type, to) =
           Numbers(s, type, to) \union (IF e.type = type /\ e.to = to THEN {e.n} ELSE {})
<1> DEFINE l == Append(s, e)
<1>1. /\ DOMAIN s = 1 .. Len(s) /\ DOMAIN l = 1 .. Len(s) + 1 /\ Len(s) \in Nat
      /\ \A x \in 1 .. Len(s) : l[x] = s[x]
      /\ l[Len(s) + 1] = e
  BY AppendFacts
<1> HIDE DEF l
<1>2. ASSUME NEW n
      PROVE  n \in Numbers(l, type, to) <=>
               n \in Numbers(s, type, to) \/ (e.type = type /\ e.to = to /\ n = e.n)
  <2>1. ASSUME n \in Numbers(l, type, to)
        PROVE  n \in Numbers(s, type, to) \/ (e.type = type /\ e.to = to /\ n = e.n)
    <3>1. PICK x \in DOMAIN l : l[x].type = type /\ l[x].to = to /\ l[x].n = n
      BY <2>1, InNumbers
    <3>2. CASE x = Len(s) + 1
      BY <3>1, <3>2, <1>1
    <3>3. CASE x # Len(s) + 1
      BY <3>1, <3>3, <1>1, InNumbers
    <3> QED
      BY <3>2, <3>3
  <2>2. ASSUME n \in Numbers(s, type, to)
        PROVE  n \in Numbers(l, type, to)
    <3>1. PICK x \in DOMAIN s : s[x].type = type /\ s[x].to = to /\ s[x].n = n
      BY <2>2, InNumbers
    <3>2. x \in DOMAIN l /\ l[x] = s[x]
      BY <1>1
    <3> QED
      BY <3>1, <3>2, InNumbers
  <2>3. ASSUME e.type = type /\ e.to = to /\ n = e.n
        PROVE  n \in Numbers(l, type, to)
    <3>1. Len(s) + 1 \in DOMAIN l
      BY <1>1
    <3> QED
      BY <2>3, <3>1, <1>1, InNumbers
  <2> QED
    BY <2>1, <2>2, <2>3
<1> QED
  BY <1>2 DEF l

\* It keeps the order if it is numbered past its stream.
LEMMA AppendedOrder ==
  ASSUME NEW s \in Seq(Envelopes), NEW e \in Envelopes, Ordered(s),
         Numbered(e) => \A n \in Numbers(s, e.type, e.to) : n < e.n
  PROVE  Ordered(Append(s, e))
<1> DEFINE l == Append(s, e)
<1>1. /\ DOMAIN s = 1 .. Len(s) /\ DOMAIN l = 1 .. Len(s) + 1 /\ Len(s) \in Nat
      /\ \A x \in 1 .. Len(s) : l[x] = s[x]
      /\ l[Len(s) + 1] = e
  BY AppendFacts
<1> HIDE DEF l
<1>2. SUFFICES ASSUME NEW x \in DOMAIN l, NEW y \in DOMAIN l, x < y,
                      l[x].type = l[y].type, l[x].to = l[y].to, Numbered(l[x])
               PROVE  l[x].n < l[y].n
  BY DEF Ordered, l
<1>3. x \in DOMAIN s /\ l[x] = s[x]
  BY <1>1, <1>2
<1>4. CASE y = Len(s) + 1
  <2>1. l[y] = e /\ Numbered(e)
    BY <1>1, <1>2, <1>4 DEF Numbered
  <2>2. l[x].n \in Numbers(s, e.type, e.to)
    BY <1>2, <1>3, <2>1, InNumbers
  <2> QED
    BY <2>1, <2>2
<1>5. CASE y # Len(s) + 1
  BY <1>1, <1>2, <1>3, <1>5 DEF Ordered
<1> QED
  BY <1>4, <1>5

\* The first envelope has the least number of its stream.
LEMMA TakenNumbers ==
  ASSUME NEW s \in Seq(Envelopes), s # <<>>, Ordered(s), NEW type, NEW to,
         type \in Queues \/ (type = "answer" /\ to > 0)
  PROVE  Numbers(Tail(s), type, to) =
           IF Head(s).type = type /\ Head(s).to = to
             THEN {n \in Numbers(s, type, to) : n > Head(s).n} ELSE Numbers(s, type, to)
<1> DEFINE l == Tail(s)
<1>1. /\ Head(s) = s[1] /\ DOMAIN s = 1 .. Len(s) /\ DOMAIN l = 1 .. Len(s) - 1
      /\ Len(s) \in Nat \ {0}
      /\ \A x \in 1 .. Len(s) - 1 : l[x] = s[x + 1]
      /\ \A x \in DOMAIN s : s[x] \in Envelopes
  BY TailFacts
<1> HIDE DEF l
<1>2. \A x \in DOMAIN s : s[x].n \in Nat
  BY <1>1 DEF Envelopes
<1>3. ASSUME NEW n
      PROVE  n \in Numbers(l, type, to) <=>
               n \in Numbers(s, type, to) /\ (Head(s).type = type /\ Head(s).to = to => n > Head(s).n)
  <2>1. ASSUME n \in Numbers(l, type, to)
        PROVE  n \in Numbers(s, type, to) /\ (Head(s).type = type /\ Head(s).to = to => n > Head(s).n)
    <3>1. PICK x \in DOMAIN l : l[x].type = type /\ l[x].to = to /\ l[x].n = n
      BY <2>1, InNumbers
    <3>2. x + 1 \in DOMAIN s /\ s[x + 1] = l[x] /\ 1 \in DOMAIN s /\ 1 < x + 1
      BY <1>1
    <3>3. n \in Numbers(s, type, to)
      BY <3>1, <3>2, InNumbers
    <3>4. ASSUME s[1].type = type /\ s[1].to = to
          PROVE  n > s[1].n
      <4>1. Numbered(s[1])
        BY <3>4 DEF Numbered
      <4>2. s[1].n < s[x + 1].n
        BY <3>1, <3>2, <3>4, <4>1 DEF Ordered
      <4> QED
        BY <4>2, <3>1, <3>2, <1>2
    <3> QED
      BY <3>3, <3>4, <1>1
  <2>2. ASSUME n \in Numbers(s, type, to), Head(s).type = type /\ Head(s).to = to => n > Head(s).n
        PROVE  n \in Numbers(l, type, to)
    <3>1. PICK x \in DOMAIN s : s[x].type = type /\ s[x].to = to /\ s[x].n = n
      BY <2>2, InNumbers
    <3>2. x # 1
      BY <3>1, <2>2, <1>1, <1>2
    <3>3. x - 1 \in DOMAIN l /\ l[x - 1] = s[x]
      BY <3>2, <1>1
    <3> QED
      BY <3>1, <3>3, InNumbers
  <2> QED
    BY <2>1, <2>2
<1> QED
  BY <1>3 DEF l

LEMMA TakenOrder ==
  ASSUME NEW s \in Seq(Envelopes), s # <<>>, Ordered(s)
  PROVE  Ordered(Tail(s))
<1> DEFINE l == Tail(s)
<1>1. /\ DOMAIN s = 1 .. Len(s) /\ DOMAIN l = 1 .. Len(s) - 1 /\ Len(s) \in Nat \ {0}
      /\ \A x \in 1 .. Len(s) - 1 : l[x] = s[x + 1]
  BY TailFacts
<1> HIDE DEF l
<1>2. SUFFICES ASSUME NEW x \in DOMAIN l, NEW y \in DOMAIN l, x < y,
                      l[x].type = l[y].type, l[x].to = l[y].to, Numbered(l[x])
               PROVE  l[x].n < l[y].n
  BY DEF Ordered, l
<1>3. /\ x + 1 \in DOMAIN s /\ y + 1 \in DOMAIN s /\ x + 1 < y + 1
      /\ l[x] = s[x + 1] /\ l[y] = s[y + 1]
  BY <1>1, <1>2
<1> QED
  BY <1>2, <1>3 DEF Ordered

\* A cut leaves the least numbers of each stream.
LEMMA CutNumbers ==
  ASSUME NEW s \in Seq(Envelopes), Ordered(s), NEW k \in 0 .. Len(s), NEW type, NEW to,
         type \in Queues \/ (type = "answer" /\ to > 0)
  PROVE  /\ Numbers(SubSeq(s, 1, k), type, to) \subseteq Numbers(s, type, to)
         /\ \A n \in Numbers(SubSeq(s, 1, k), type, to) : \A m \in Numbers(s, type, to) :
              m < n => m \in Numbers(SubSeq(s, 1, k), type, to)
<1> DEFINE l == SubSeq(s, 1, k)
<1>1. /\ DOMAIN s = 1 .. Len(s) /\ DOMAIN l = 1 .. k /\ Len(s) \in Nat
      /\ \A x \in 1 .. k : l[x] = s[x]
  BY PrefixFacts
<1> HIDE DEF l
<1>2. ASSUME NEW n \in Numbers(l, type, to)
      PROVE  n \in Numbers(s, type, to)
  <2>1. PICK x \in DOMAIN l : l[x].type = type /\ l[x].to = to /\ l[x].n = n
    BY InNumbers
  <2>2. x \in DOMAIN s /\ l[x] = s[x]
    BY <1>1
  <2> QED
    BY <2>1, <2>2, InNumbers
<1>3. ASSUME NEW n \in Numbers(l, type, to), NEW m \in Numbers(s, type, to), m < n
      PROVE  m \in Numbers(l, type, to)
  <2>1. PICK x \in DOMAIN l : l[x].type = type /\ l[x].to = to /\ l[x].n = n
    BY InNumbers
  <2>2. PICK y \in DOMAIN s : s[y].type = type /\ s[y].to = to /\ s[y].n = m
    BY InNumbers
  <2>3. x \in DOMAIN s /\ l[x] = s[x] /\ s[x].n \in Nat /\ s[y].n \in Nat
    <3>1. s[x] \in Envelopes /\ s[y] \in Envelopes
      BY <1>1
    <3> QED
      BY <1>1, <3>1 DEF Envelopes
  <2>4. Numbered(s[x])
    BY <2>1, <2>3 DEF Numbered
  <2>5. y <= x
    <3>1. SUFFICES ASSUME x < y
                   PROVE  FALSE
      BY <1>1
    <3>2. s[x].n < s[y].n
      BY <3>1, <2>1, <2>2, <2>3, <2>4 DEF Ordered
    <3> QED
      BY <3>2, <1>3, <2>1, <2>2, <2>3
  <2>6. y \in DOMAIN l /\ l[y] = s[y]
    BY <2>5, <1>1
  <2> QED
    BY <2>2, <2>6, InNumbers
<1> QED
  BY <1>2, <1>3 DEF l

LEMMA CutOrder ==
  ASSUME NEW s \in Seq(Envelopes), Ordered(s), NEW k \in 0 .. Len(s)
  PROVE  Ordered(SubSeq(s, 1, k))
<1> DEFINE l == SubSeq(s, 1, k)
<1>1. /\ DOMAIN s = 1 .. Len(s) /\ DOMAIN l = 1 .. k /\ Len(s) \in Nat
      /\ \A x \in 1 .. k : l[x] = s[x]
  BY PrefixFacts
<1> HIDE DEF l
<1>2. \A x \in DOMAIN l : x \in DOMAIN s /\ l[x] = s[x]
  BY <1>1
<1> QED
  BY <1>2 DEF Ordered, l

LEMMA NumbersAreNatural ==
  ASSUME NEW s \in Seq(Envelopes), NEW type, NEW to
  PROVE  Numbers(s, type, to) \subseteq Nat
<1>1. \A x \in DOMAIN s : s[x] \in Envelopes
  OBVIOUS
<1> QED
  BY <1>1 DEF Numbers, Envelopes

\* What a stream goes on from moves with the taking of its first envelope.
LEMMA GoesOnTaken ==
  ASSUME NEW s \in Seq(Envelopes), s # <<>>, Ordered(s), NEW type, NEW to, NEW first \in Nat,
         type \in Queues \/ (type = "answer" /\ to > 0),
         GoesOn(Numbers(s, type, to), first), Head(s).type = type, Head(s).to = to
  PROVE  Head(s).n = first /\ GoesOn(Numbers(Tail(s), type, to), first + 1)
<1> DEFINE old == Numbers(s, type, to)
           new == Numbers(Tail(s), type, to)
           h == Head(s).n
<1>1. new = {n \in old : n > h}
  BY TakenNumbers
<1>2. h \in old /\ old \subseteq Nat
  <2>1. Head(s) = s[1] /\ 1 \in DOMAIN s
    BY TailFacts
  <2> QED
    BY <2>1, InNumbers, NumbersAreNatural
<1>3. \A n \in old : n = h \/ n > h
  <2> SUFFICES ASSUME NEW n \in old, n # h
               PROVE  n > h
    OBVIOUS
  <2>1. PICK x \in DOMAIN s : s[x].type = type /\ s[x].to = to /\ s[x].n = n
    BY InNumbers
  <2>2. Head(s) = s[1] /\ 1 \in DOMAIN s /\ DOMAIN s = 1 .. Len(s) /\ Len(s) \in Nat
    BY TailFacts
  <2>3. x # 1 /\ 1 < x
    BY <2>1, <2>2
  <2>4. Numbered(s[1])
    BY <2>2 DEF Numbered
  <2>5. s[1].n < s[x].n
    BY <2>1, <2>2, <2>3, <2>4 DEF Ordered
  <2> QED
    BY <2>1, <2>2, <2>5, <1>2
<1>4. \A n \in old : n = first \/ n - 1 \in old
  BY DEF GoesOn
<1> HIDE DEF old, new, h
<1>5. h = first
  BY <1>2, <1>3, <1>4
<1>6. \A n \in new : n = first + 1 \/ n - 1 \in new
  BY <1>1, <1>2, <1>3, <1>4, <1>5
<1> QED
  BY <1>5, <1>6 DEF GoesOn, old, new, h

LEMMA GoesOnCut ==
  ASSUME NEW s \in Seq(Envelopes), Ordered(s), NEW k \in 0 .. Len(s), NEW type, NEW to, NEW first,
         type \in Queues \/ (type = "answer" /\ to > 0),
         GoesOn(Numbers(s, type, to), first)
  PROVE  GoesOn(Numbers(SubSeq(s, 1, k), type, to), first)
<1> DEFINE old == Numbers(s, type, to)
           new == Numbers(SubSeq(s, 1, k), type, to)
<1>1. new \subseteq old /\ \A n \in new : \A m \in old : m < n => m \in new
  BY CutNumbers
<1>2. old \subseteq Nat
  BY NumbersAreNatural
<1>3. \A n \in old : n = first \/ n - 1 \in old
  BY DEF GoesOn
<1> HIDE DEF old, new
<1>4. \A n \in new : n = first \/ n - 1 \in new
  BY <1>1, <1>2, <1>3
<1> QED
  BY <1>4 DEF GoesOn, old, new

-----------------------------------------------------------------------------
(* What a step leaves alone *)

LEMMA TaskFacts ==
  ASSUME Types, Owned, NEW t \in Tasks
  PROVE  /\ task[t] \in TaskRecords
         /\ task[t].id \in Nat /\ task[t].size \in Nat /\ task[t].got \in Seq(Envelopes)
         /\ task[t].pc \in {"idle", "sending", "waiting"}
         /\ task[t].pc # "idle" => /\ task[t].id \in Registered
                                   /\ task[t].id \in 1 .. requests
                                   /\ pending[task[t].id] \in Seq(Envelopes)
<1>1. task[t] \in TaskRecords
  BY DEF Types
<1>2. task[t].pc # "idle" => task[t].id \in Registered
  BY DEF Owned
<1> QED
  BY <1>1, <1>2 DEF Types, TaskRecords

LEMMA IdleFacts ==
  /\ Idle \in TaskRecords /\ Idle.pc = "idle" /\ Idle.id = 0 /\ Idle.size = 0 /\ Idle.got = <<>>
  /\ NotPolling \in Polls /\ NotPolling.pc = "idle" /\ NotPolling.held = <<>>
  /\ Sentinel \in Envelopes /\ Sentinel.type = "closed" /\ Sentinel.to = 0
  /\ Hello \in Requests /\ Hello.id = 0
BY DEF Idle, TaskRecords, NotPolling, Polls, Sentinel, Envelopes, Hello, Requests

\* Of the connection only the requests Core holds may be fewer.
LEMMA ComingKept ==
  ASSUME Types, Types', Coming, fromCore' = fromCore, core' \subseteq core, requests' >= requests
  PROVE  Coming'
<1>1. \A x \in DOMAIN fromCore : fromCore[x].to \in Nat
  <2>1. \A x \in DOMAIN fromCore : fromCore[x] \in Envelopes
    BY DEF Types
  <2> QED
    BY <2>1 DEF Envelopes
<1>2. \A r \in core : r.id \in Nat
  BY DEF Types, Requests
<1>3. requests \in Nat /\ requests' \in Nat
  BY DEF Types
<1> QED
  BY <1>1, <1>2, <1>3 DEF Coming, Ordered

LEMMA PushesKept ==
  ASSUME Pushes, fromCore' = fromCore, UNCHANGED <<pushed, queue, poll, delivered>>,
         Lossless' => Lossless
  PROVE  Pushes'
BY DEF Pushes, Follows, Taken

LEMMA AskKept ==
  ASSUME NEW t \in Tasks, Asks(t), task'[t] = task[t],
         task[t].pc = "idle" \/ pending'[task[t].id] = pending[task[t].id],
         fromCore' = fromCore, \A r \in core' : r \in core \/ r.id # task[t].id,
         Lossless' => Lossless
  PROVE  Asks(t)'
<1>1. CASE task[t].pc = "idle"
  BY <1>1 DEF Asks
<1>2. CASE task[t].pc # "idle"
  <2>1. task[t].pc = "sending" => Unsent(t)'
    BY <1>2 DEF Asks, Unsent
  <2>2. task[t].pc = "waiting" => InTurn(t)'
    BY <1>2 DEF Asks, InTurn, OnTheirWay, Expected
  <2> QED
    BY <2>1, <2>2 DEF Asks
<1> QED
  BY <1>1, <1>2

LEMMA AskingKept ==
  ASSUME Types, Owned, Asking, UNCHANGED <<task, pending, fromCore>>,
         core' \subseteq core \union {Hello}, Lossless' => Lossless
  PROVE  Asking'
<1>1. ASSUME NEW t \in Tasks
      PROVE  Asks(t)'
  <2>1. CASE task[t].pc = "idle"
    BY <1>1, <2>1 DEF Asks
  <2>2. CASE task[t].pc # "idle"
    <3>1. task[t].id # Hello.id
      BY <2>2, TaskFacts, IdleFacts
    <3>2. \A r \in core' : r \in core \/ r.id # task[t].id
      BY <3>1
    <3> QED
      BY <3>2, AskKept DEF Asking
  <2> QED
    BY <2>1, <2>2
<1> QED
  BY <1>1 DEF Asking

\* Steps of the handshake, and of close before its end.
LEMMA HandshakeKept ==
  ASSUME IInv, Types', UNCHANGED <<fromCore, pushed, closed, error, atEnd, pending, polls, calls>>,
         core' = core \/ core' = {Hello}, Lossless' => Lossless, up' => up \/ ~closed
  PROVE  IInv'
<1> USE DEF IInv
<1>1. Owned' /\ AnsweredInFull'
  BY DEF Owned, AnsweredInFull, calls, Registered
<1>2. Coming'
  <2>1. CASE core' = core
    BY <2>1, ComingKept DEF calls, Types
  <2>2. CASE core' = {Hello}
    <3>1. Hello.id = 0 /\ requests \in Nat /\ requests' = requests
      BY IdleFacts DEF Types, calls
    <3> QED
      BY <2>2, <3>1 DEF Coming, Ordered
  <2> QED
    BY <2>1, <2>2
<1>3. Asking'
  BY AskingKept DEF calls
<1>4. Pushes'
  BY PushesKept DEF polls
<1>5. Woken'
  BY DEF Woken, Heard, calls, Types
<1> QED
  BY <1>1, <1>2, <1>3, <1>4, <1>5

LEMMA HandshakeKeeps ==
  ASSUME IInv, Upgrades \/ HelloSent \/ HelloFails \/ HandshakeFails \/ HandshakeCancelled
               \/ CloseStarts
  PROVE  IInv'
<1>1. /\ UNCHANGED <<fromCore, pushed, closed, error, atEnd, pending, polls, calls>>
      /\ core' = core \/ core' = {Hello}
      /\ Lossless' => Lossless
      /\ up' => up \/ ~closed
      /\ UNCHANGED reading
      /\ up' \in BOOLEAN /\ open' \in BOOLEAN
  <2>1. /\ up \in BOOLEAN /\ open \in BOOLEAN /\ (attach = "upgrade" => ~up)
        /\ attach \in {"upgrade", "hello", "ready"} => ~closed
    BY DEF IInv, Types
  <2>2. CASE Upgrades
    BY <2>1, <2>2 DEF Upgrades, Lossless
  <2>3. CASE HelloSent
    BY <2>1, <2>3 DEF HelloSent, Lossless
  <2>4. CASE HelloFails \/ HandshakeFails
    <3>1. CASE HelloFails
      BY <2>1, <3>1 DEF HelloFails, connection, Lossless
    <3>2. CASE HandshakeFails
      BY <2>1, <3>2 DEF HandshakeFails, connection, Lossless
    <3> QED
      BY <2>4, <3>1, <3>2
  <2>6. CASE CloseStarts
    BY <2>1, <2>6 DEF CloseStarts, connection, Lossless
  <2>5. CASE HandshakeCancelled
    BY <2>1, <2>5 DEF HandshakeCancelled, Lossless
  <2> QED
    BY <2>2, <2>3, <2>4, <2>5, <2>6
<1>2. attach' = attach \/ (attach \in {"upgrade", "hello", "ready"} /\ attach' \in {"hello", "ready", "failed"})
  BY DEF Upgrades, HelloSent, HelloFails, HandshakeFails, HandshakeCancelled, CloseStarts
<1>3. attach' = "upgrade" => up' = up
  BY DEF Upgrades, HelloSent, HelloFails, HandshakeFails, HandshakeCancelled, CloseStarts, connection
<1>4. core' \subseteq Requests
  BY <1>1, IdleFacts DEF IInv, Types
<1>5. Types'
  BY <1>1, <1>2, <1>3, <1>4 DEF IInv, Types, polls, calls, Registered
<1> QED
  BY <1>1, <1>5, HandshakeKept

-----------------------------------------------------------------------------
(* The first envelope on its way is taken *)

LEMMA QueueFacts ==
  ASSUME Types, Pushes, NEW q \in Queues
  PROVE  /\ delivered[q] \in Seq(Nat) /\ queue[q] \in Seq(Nat)
         /\ poll[q] \in Polls /\ poll[q].held \in Seq(Nat)
         /\ poll[q].pc \in {"idle", "waiting", "taken"}
         /\ Taken(q) \in Seq(Nat) /\ Len(Taken(q)) \in Nat /\ DOMAIN Taken(q) = 1 .. Len(Taken(q))
         /\ pushed[q] \in Nat /\ q \in {"assignments", "commands"}
<1>1. /\ delivered[q] \in Seq(Nat) /\ queue[q] \in Seq(Nat) /\ poll[q] \in Polls /\ pushed[q] \in Nat
      /\ q \in {"assignments", "commands"}
  BY SizesAssumption DEF Types
<1>2. poll[q].held \in Seq(Nat) /\ poll[q].pc \in {"idle", "waiting", "taken"}
  BY <1>1 DEF Polls
<1>3. delivered[q] \o poll[q].held \in Seq(Nat)
  BY <1>1, <1>2
<1>4. Taken(q) \in Seq(Nat)
  BY <1>1, <1>3 DEF Taken
<1> QED
  BY <1>1, <1>2, <1>4

LEMMA HeadFacts ==
  ASSUME Types, Coming, fromCore # <<>>
  PROVE  /\ Incoming \in Envelopes /\ Incoming = fromCore[1] /\ 1 \in DOMAIN fromCore
         /\ Incoming.to \in Nat /\ Incoming.n \in Nat
         /\ Incoming.type \in {"answer", "error", "closed"} \union Queues
         /\ Incoming.to <= requests
         /\ Incoming.type \in Queues => Incoming.to = 0
         /\ Tail(fromCore) \in Seq(Envelopes)
         /\ \A x \in DOMAIN Tail(fromCore) : \E y \in DOMAIN fromCore : Tail(fromCore)[x] = fromCore[y]
<1>1. /\ Incoming \in Envelopes /\ Incoming = fromCore[1] /\ 1 \in DOMAIN fromCore
      /\ Tail(fromCore) \in Seq(Envelopes)
  BY TailFacts DEF Types, Incoming
<1>2. /\ Incoming.to <= requests
      /\ Incoming.type \in Queues => Incoming.to = 0
  BY <1>1 DEF Coming
<1>3. \A x \in DOMAIN Tail(fromCore) : \E y \in DOMAIN fromCore : Tail(fromCore)[x] = fromCore[y]
  <2>1. /\ DOMAIN fromCore = 1 .. Len(fromCore) /\ DOMAIN Tail(fromCore) = 1 .. Len(fromCore) - 1
        /\ Len(fromCore) \in Nat \ {0}
        /\ \A x \in 1 .. Len(fromCore) - 1 : Tail(fromCore)[x] = fromCore[x + 1]
    BY TailFacts DEF Types
  <2>2. \A x \in DOMAIN Tail(fromCore) : x + 1 \in DOMAIN fromCore
    BY <2>1
  <2> QED
    BY <2>1, <2>2
<1> QED
  BY <1>1, <1>2, <1>3 DEF Envelopes

LEMMA ComingTaken ==
  ASSUME Types, Coming, fromCore # <<>>, fromCore' = Tail(fromCore), core' = core,
         requests' = requests
  PROVE  Coming'
<1>1. fromCore \in Seq(Envelopes) /\ Ordered(fromCore)
  BY DEF Types, Coming
<1>2. Ordered(fromCore')
  BY <1>1, TakenOrder
<1>3. \A x \in DOMAIN fromCore' : \E y \in DOMAIN fromCore : fromCore'[x] = fromCore[y]
  BY HeadFacts
<1>4. \A x \in DOMAIN fromCore' : /\ fromCore'[x].to <= requests'
                                  /\ fromCore'[x].type \in Queues => fromCore'[x].to = 0
  BY <1>3 DEF Coming
<1>5. ASSUME NEW r \in core, r.id > 0, NEW n \in Numbers(fromCore', "answer", r.id)
      PROVE  n < r.next
  <2>1. n \in Numbers(fromCore, "answer", r.id)
    BY <1>1, <1>5, TakenNumbers
  <2> QED
    BY <1>5, <2>1 DEF Coming
<1> QED
  BY <1>2, <1>4, <1>5 DEF Coming

\* Nothing changes for a request it is not an answer to.
LEMMA AskTaken ==
  ASSUME Types, Owned, Coming, NEW t \in Tasks, Asks(t), task'[t] = task[t],
         task[t].pc # "idle" => /\ pending'[task[t].id] = pending[task[t].id]
                                /\ Incoming.type # "answer" \/ Incoming.to # task[t].id,
         fromCore # <<>>, fromCore' = Tail(fromCore), core' = core, Lossless' => Lossless
  PROVE  Asks(t)'
<1>1. CASE task[t].pc = "idle"
  BY <1>1 DEF Asks
<1>2. CASE task[t].pc = "sending"
  <2>1. Unsent(t)
    BY <1>2 DEF Asks
  <2>2. \A x \in DOMAIN fromCore' : fromCore'[x].to # task[t].id
    BY <2>1, HeadFacts DEF Unsent
  <2>3. Unsent(t)'
    BY <1>2, <2>1, <2>2 DEF Unsent
  <2> QED
    BY <1>2, <2>3 DEF Asks
<1>3. CASE task[t].pc = "waiting"
  <2>1. task[t].id > 0
    BY <1>3, TaskFacts
  <2>2. Numbers(fromCore', "answer", task[t].id) = Numbers(fromCore, "answer", task[t].id)
    BY <2>1, <1>3, TakenNumbers DEF Types, Coming, Incoming
  <2>3. InTurn(t)
    BY <1>3 DEF Asks
  <2>4. InTurn(t)'
    BY <1>3, <2>2, <2>3 DEF InTurn, OnTheirWay, Expected
  <2> QED
    BY <1>3, <2>4 DEF Asks
<1> QED
  BY <1>1, <1>2, <1>3, TaskFacts

LEMMA FollowsTaken ==
  ASSUME Types, Coming, NEW q \in Queues, Follows(q), Incoming.type # q,
         fromCore # <<>>, fromCore' = Tail(fromCore), UNCHANGED <<pushed, poll, delivered>>,
         queue'[q] = queue[q], Lossless' => Lossless
  PROVE  Follows(q)'
<1>1. Numbers(fromCore', q, 0) = Numbers(fromCore, q, 0)
  BY TakenNumbers DEF Types, Coming, Incoming
<1> QED
  BY <1>1 DEF Follows, Taken

LEMMA AttachesKeeps ==
  ASSUME IInv, Attaches
  PROVE  IInv'
<1>1. fromCore # <<>> /\ Incoming = Ready
  <2>1. fromCore \in Seq(Envelopes)
    BY DEF IInv, Types
  <2>2. IsPrefix(<<Ready>>, fromCore)
    BY DEF Attaches
  <2>3. Len(<<Ready>>) = 1 /\ <<Ready>>[1] = Ready
    OBVIOUS
  <2>4. Len(fromCore) >= 1 /\ SubSeq(<<Ready>>, 1, 1) = SubSeq(fromCore, 1, 1)
    BY <2>1, <2>2, <2>3 DEF IsPrefix
  <2>5. SubSeq(fromCore, 1, 1)[1] = fromCore[1] /\ SubSeq(<<Ready>>, 1, 1)[1] = Ready
    BY <2>1, <2>4
  <2> QED
    BY <2>1, <2>4, <2>5 DEF Incoming
<1>2. /\ Incoming.type = "answer" /\ Incoming.to = 0
  BY <1>1 DEF Ready, Hello, Answer
<1>3. /\ attach = "ready" /\ attach' = "attached" /\ reading' = TRUE /\ fromCore' = Tail(fromCore)
      /\ UNCHANGED <<up, core, pushed, open, closed, error, atEnd, pending, queue, poll, delivered, task,
                     requests, returned, givenUp>>
  BY DEF Attaches, polls, calls
<1>4. Lossless' => Lossless
  BY <1>3 DEF Lossless
<1> USE DEF IInv
<1>5. Types' /\ Owned' /\ Woken' /\ AnsweredInFull'
  <2>1. fromCore' \in Seq(Envelopes)
    BY <1>1, <1>3, HeadFacts
  <2>2. Types'
    BY <1>3, <2>1 DEF Types, Registered
  <2> QED
    BY <1>3, <2>2 DEF Owned, Woken, Heard, AnsweredInFull, Registered
<1>6. Coming'
  BY <1>1, <1>3, ComingTaken
<1>7. ASSUME NEW t \in Tasks
      PROVE  Asks(t)'
  <2>1. task[t].pc # "idle" => Incoming.to # task[t].id
    BY <1>2, TaskFacts
  <2> QED
    BY <1>1, <1>3, <1>4, <2>1, AskTaken DEF Asking
<1>8. ASSUME NEW q \in Queues
      PROVE  Follows(q)'
  <2>1. Incoming.type # q
    BY <1>2, SizesAssumption
  <2> QED
    BY <1>1, <1>3, <1>4, <2>1, FollowsTaken DEF Pushes
<1> QED
  BY <1>5, <1>6, <1>7, <1>8 DEF Asking, Pushes

-----------------------------------------------------------------------------
(* Requests *)

\* Core learns of a request.
LEMMA ComingAsked ==
  ASSUME Types, Owned, Coming, NEW t \in Tasks, task[t].pc = "sending", Asks(t),
         fromCore' = fromCore, requests' = requests, core' = core \union {Asked(t)}
  PROVE  /\ Coming' /\ Asked(t) \in Requests
         /\ Asked(t).id = task[t].id /\ Asked(t).next = 1
         /\ Numbers(fromCore, "answer", task[t].id) = {}
<1>1. Unsent(t)
  BY DEF Asks
<1>2. /\ Asked(t) \in Requests /\ Asked(t).id = task[t].id /\ Asked(t).next = 1
      /\ task[t].id <= requests
  BY <1>1, TaskFacts DEF Asked, Requests, Unsent
<1>3. Numbers(fromCore, "answer", task[t].id) = {}
  BY <1>1, InNumbers DEF Unsent
<1>4. ASSUME NEW r \in core'
      PROVE  /\ r.id <= requests
             /\ r.id > 0 => \A n \in Numbers(fromCore, "answer", r.id) : n < r.next
  <2>1. CASE r \in core
    BY <2>1 DEF Coming
  <2>2. CASE r = Asked(t)
    BY <2>2, <1>2, <1>3
  <2> QED
    BY <2>1, <2>2
<1>5. \A r, v \in core' : r.id = v.id => r = v
  BY <1>1, <1>2 DEF Coming, Unsent
<1>6. Coming'
  BY <1>4, <1>5 DEF Coming
<1> QED
  BY <1>2, <1>3, <1>6

\* The step of one task leaves the requests of the others alone.
LEMMA OthersAsk ==
  ASSUME Types, Owned, Asking, NEW t \in Tasks, NEW u \in Tasks \ {t}, task'[u] = task[u],
         task[u].pc # "idle" => pending'[task[u].id] = pending[task[u].id],
         fromCore' = fromCore, Lossless' => Lossless,
         core' = core \/ (core' = core \union {Asked(t)} /\ task[t].pc # "idle")
  PROVE  Asks(u)'
<1>1. CASE task[u].pc = "idle"
  BY <1>1 DEF Asks
<1>2. CASE task[u].pc # "idle"
  <2>1. \A r \in core' : r \in core \/ r.id # task[u].id
    BY DEF Owned, Asked
  <2> QED
    BY <1>2, <2>1, AskKept DEF Asking
<1> QED
  BY <1>1, <1>2

LEMMA ForgottenFacts ==
  ASSUME Types, Owned, NEW t \in Tasks, task[t].pc # "idle",
         pending' = pending \/ pending' = Forgotten(task[t].id)
  PROVE  /\ pending' \in [Registered' -> Seq(Envelopes)]
         /\ Registered' \subseteq Registered
         /\ \A i \in Registered \ {task[t].id} : i \in Registered' /\ pending'[i] = pending[i]
<1>1. CASE pending' = pending
  BY <1>1 DEF Types, Registered
<1>2. CASE pending' = Forgotten(task[t].id)
  <2>1. Registered' = Registered \ {task[t].id}
    BY <1>2 DEF Registered, Forgotten
  <2>2. pending' = [i \in Registered' |-> pending[i]]
    BY <1>2, <2>1 DEF Forgotten
  <2> HIDE DEF Registered
  <2> QED
    BY <2>1, <2>2 DEF Types
<1> QED
  BY <1>1, <1>2

\* A request ends: answered, refused or given up.
LEMMA RequestEnds ==
  ASSUME IInv, NEW t \in Tasks, task[t].pc # "idle", task' = [task EXCEPT ![t] = Idle],
         pending' = pending \/ pending' = Forgotten(task[t].id),
         core' = core \/ (core' = core \union {Asked(t)} /\ task[t].pc = "sending"),
         UNCHANGED <<up, fromCore, pushed, reader, polls, requests>>, AnsweredInFull'
  PROVE  IInv'
<1> USE DEF IInv
<1>1. /\ task' \in [Tasks -> TaskRecords] /\ task'[t] = Idle
      /\ \A u \in Tasks \ {t} : task'[u] = task[u]
  BY IdleFacts DEF Types
<1>2. /\ UNCHANGED <<attach, open, reading, closed, error, atEnd, queue, poll, delivered>>
      /\ Lossless' <=> Lossless
  BY DEF reader, polls, Lossless
<1>3. Coming' /\ core' \subseteq Requests
  <2>1. CASE core' = core
    <3>1. requests' >= requests
      BY DEF Types
    <3> QED
      BY <2>1, <3>1 DEF Coming, Types, Ordered
  <2>2. CASE core' = core \union {Asked(t)} /\ task[t].pc = "sending"
    BY <2>2, ComingAsked DEF Asking, Types
  <2> QED
    BY <2>1, <2>2
<1>4. Types'
  BY <1>1, <1>2, <1>3, ForgottenFacts DEF Types
<1>5. \A u \in Tasks \ {t} : task[u].pc # "idle" =>
        task[u].id \in Registered' /\ pending'[task[u].id] = pending[task[u].id]
  <2>1. \A u \in Tasks \ {t} : task[u].pc # "idle" => task[u].id \in Registered \ {task[t].id}
    BY DEF Owned
  <2> QED
    BY <2>1, ForgottenFacts
<1>6. Owned'
  <2>1. ASSUME NEW u \in Tasks
        PROVE  IF task'[u].pc = "idle" THEN task'[u] = Idle ELSE task'[u].id \in Registered'
    BY <1>1, <1>5, IdleFacts DEF Owned
  <2>2. ASSUME NEW u \in Tasks, NEW v \in Tasks, u # v, task'[u].pc # "idle"
        PROVE  task'[u].id # task'[v].id
    <3>1. u # t /\ task'[u] = task[u] /\ task[u].id \in 1 .. requests
      BY <1>1, <2>2, IdleFacts, TaskFacts
    <3>2. CASE v = t
      BY <3>1, <3>2, <1>1, IdleFacts DEF Types
    <3>3. CASE v # t
      BY <3>1, <3>3, <1>1, <2>2 DEF Owned
    <3> QED
      BY <3>2, <3>3
  <2> QED
    BY <2>1, <2>2 DEF Owned
<1>7. ASSUME NEW u \in Tasks
      PROVE  Asks(u)'
  <2>1. CASE u = t
    BY <2>1, <1>1, IdleFacts DEF Asks
  <2>2. CASE u # t
    <3>1. u \in Tasks \ {t} /\ task'[u] = task[u]
      BY <2>2, <1>1
    <3> QED
      BY <3>1, <1>2, <1>5, OthersAsk
  <2> QED
    BY <2>1, <2>2
<1>8. Pushes'
  BY <1>2, PushesKept
<1>9. Woken'
  <2>1. ASSUME closed, NEW u \in Tasks
        PROVE  Heard(u)'
    <3>1. CASE u = t
      BY <3>1, <1>1, IdleFacts DEF Heard
    <3>2. CASE u # t
      BY <2>1, <3>2, <1>1, <1>2, <1>5 DEF Woken, Heard
    <3> QED
      BY <3>1, <3>2
  <2> QED
    BY <2>1, <1>2 DEF Woken
<1> QED
  BY <1>3, <1>4, <1>6, <1>7, <1>8, <1>9 DEF Asking

LEMMA GivesUpKeeps ==
  ASSUME IInv, NEW t \in Tasks, SendFails(t) \/ TimesOut(t) \/ Cancelled(t)
  PROVE  IInv'
<1>1. CASE SendFails(t)
  <2>1. AnsweredInFull'
    BY <1>1 DEF SendFails, AnsweredInFull, IInv
  <2> QED
    BY <1>1, <2>1, RequestEnds DEF SendFails, connection
<1>2. CASE TimesOut(t)
  <2>1. AnsweredInFull'
    BY <1>2 DEF TimesOut, AnsweredInFull, IInv
  <2> QED
    BY <1>2, <2>1, RequestEnds DEF TimesOut, connection
<1>3. CASE Cancelled(t)
  <2>1. AnsweredInFull'
    BY <1>3 DEF Cancelled, AnsweredInFull, IInv
  <2>2. core' = core \/ (core' = core \union {Asked(t)} /\ task[t].pc = "sending")
    BY <1>3 DEF Cancelled
  <2>3. pending' = pending \/ pending' = Forgotten(task[t].id)
    BY <1>3 DEF Cancelled
  <2>4. /\ task[t].pc # "idle" /\ task' = [task EXCEPT ![t] = Idle]
        /\ UNCHANGED <<up, fromCore, pushed, reader, polls, requests>>
    BY <1>3 DEF Cancelled
  <2> QED
    BY <2>1, <2>2, <2>3, <2>4, RequestEnds
<1> QED
  BY <1>1, <1>2, <1>3

LEMMA RequestStartsKeeps ==
  ASSUME IInv, NEW t \in Tasks, NEW size \in {1, ResumeSize}, RequestStarts(t, size)
  PROVE  IInv'
<1> USE DEF IInv
<1> DEFINE r == [Idle EXCEPT !.pc = "sending", !.id = requests + 1, !.size = size]
           id == requests + 1
<1>1. /\ task[t] = Idle /\ requests' = id /\ task' = [task EXCEPT ![t] = r]
      /\ attach = "attached"
      /\ pending' = [i \in Registered \union {id} |-> IF i \in Registered THEN pending[i] ELSE <<>>]
      /\ UNCHANGED <<up, fromCore, core, pushed, attach, open, reading, closed, error, atEnd, queue, poll,
                     delivered, returned>>
  BY DEF RequestStarts, connection, reader, polls
<1>2. /\ r \in TaskRecords /\ r.pc = "sending" /\ r.id = id /\ r.size = size /\ r.got = <<>>
      /\ size > 0 /\ id \in Nat \ {0}
  <2>1. size \in Nat \ {0} /\ id \in Nat \ {0}
    BY SizesAssumption DEF Types
  <2> QED
    <3>1. /\ "sending" \in {"idle", "sending", "waiting"} /\ Idle \in TaskRecords
          /\ Idle.got = <<>> /\ size \in Nat
      BY <2>1, IdleFacts
    <3>2. /\ r \in TaskRecords /\ r.pc = "sending" /\ r.id = id /\ r.size = size
          /\ r.got = Idle.got
      BY <2>1, <3>1 DEF TaskRecords
    <3> QED
      BY <2>1, <3>1, <3>2
<1> HIDE DEF r
<1>3. task' \in [Tasks -> TaskRecords] /\ task'[t] = r /\ \A u \in Tasks \ {t} : task'[u] = task[u]
  BY <1>1, <1>2 DEF Types
<1>4. /\ Registered' = Registered \union {id} /\ id \notin Registered
      /\ Registered' \subseteq 1 .. requests' /\ pending' \in [Registered' -> Seq(Envelopes)]
      /\ pending'[id] = <<>> /\ \A i \in Registered : pending'[i] = pending[i]
  <2>1. Registered' = Registered \union {id} /\ id \notin Registered
    BY <1>1 DEF Registered, Types
  <2>2. pending' = [i \in Registered' |-> IF i \in Registered THEN pending[i] ELSE <<>>]
    BY <1>1, <2>1
  <2> HIDE DEF Registered
  <2>3. <<>> \in Seq(Envelopes)
    OBVIOUS
  <2> QED
    BY <1>1, <2>1, <2>2, <2>3 DEF Types
<1>5. Types'
  BY <1>1, <1>2, <1>3, <1>4 DEF Types
<1>6. Owned'
  <2>1. ASSUME NEW u \in Tasks
        PROVE  IF task'[u].pc = "idle" THEN task'[u] = Idle ELSE task'[u].id \in Registered'
    BY <1>2, <1>3, <1>4 DEF Owned
  <2>2. ASSUME NEW u \in Tasks, NEW v \in Tasks, u # v, task'[u].pc # "idle"
        PROVE  task'[u].id # task'[v].id
    <3>1. \A w \in Tasks : task[w].pc # "idle" => task[w].id # id
      BY <1>4 DEF Owned
    <3>2. \A w \in Tasks : task[w].pc = "idle" => task[w].id = 0
      BY IdleFacts DEF Owned
    <3>3. \A w \in Tasks : task[w].id # id
      BY <1>2, <3>1, <3>2
    <3>4. CASE u = t
      BY <3>3, <3>4, <2>2, <1>2, <1>3
    <3>5. CASE v = t
      BY <3>3, <3>5, <2>2, <1>2, <1>3
    <3>6. CASE u # t /\ v # t
      BY <3>6, <2>2, <1>3 DEF Owned
    <3> QED
      BY <3>4, <3>5, <3>6
  <2> QED
    BY <2>1, <2>2 DEF Owned
<1>7. Coming'
  BY <1>1, <1>5, ComingKept DEF Types
<1>8. Lossless' <=> Lossless
  BY <1>1 DEF Lossless
<1>9. ASSUME NEW u \in Tasks
      PROVE  Asks(u)'
  <2>1. CASE u = t
    <3>1. \A v \in core : v.id # id
      BY <1>2 DEF Coming, Types, Requests
    <3>2. \A x \in DOMAIN fromCore : fromCore[x].to # id
      <4>1. \A x \in DOMAIN fromCore : fromCore[x].to \in Nat
        <5>1. \A x \in DOMAIN fromCore : fromCore[x] \in Envelopes
          BY DEF Types
        <5> QED
          BY <5>1 DEF Envelopes
      <4> QED
        BY <1>2, <4>1 DEF Coming, Types
    <3>3. Unsent(t)'
      BY <1>1, <1>2, <1>3, <1>4, <3>1, <3>2 DEF Unsent
    <3> QED
      BY <2>1, <3>3, <1>2, <1>3 DEF Asks
  <2>2. CASE u # t
    <3>1. u \in Tasks \ {t} /\ task'[u] = task[u]
      BY <2>2, <1>3
    <3>2. task[u].pc # "idle" => pending'[task[u].id] = pending[task[u].id]
      BY <1>4 DEF Owned
    <3> QED
      BY <3>1, <3>2, <1>1, <1>8, OthersAsk
  <2> QED
    BY <2>1, <2>2
<1>10. Pushes'
  BY <1>1, <1>8, PushesKept
<1>11. Woken'
  <2>1. ASSUME closed, NEW u \in Tasks
        PROVE  Heard(u)'
    <3>1. CASE u = t
      <4>1. ~(id <= atEnd)
        BY DEF Types
      <4> QED
        BY <3>1, <4>1, <1>1, <1>2, <1>3 DEF Heard
    <3>2. CASE u # t
      <4>1. task'[u] = task[u] /\ (task[u].pc # "idle" => pending'[task[u].id] = pending[task[u].id])
        BY <3>2, <1>3, <1>4 DEF Owned
      <4> QED
        BY <2>1, <4>1, <1>1 DEF Woken, Heard
    <3> QED
      BY <3>1, <3>2
  <2> QED
    BY <2>1, <1>1 DEF Woken
<1>12. AnsweredInFull'
  BY <1>1 DEF AnsweredInFull
<1> QED
  BY <1>5, <1>6, <1>7, <1>9, <1>10, <1>11, <1>12 DEF Asking

LEMMA SentKeeps ==
  ASSUME IInv, NEW t \in Tasks, Sent(t)
  PROVE  IInv'
<1> USE DEF IInv
<1> DEFINE r == [task[t] EXCEPT !.pc = "waiting"]
<1>1. /\ task[t].pc = "sending" /\ up /\ core' = core \union {Asked(t)}
      /\ task' = [task EXCEPT ![t] = r]
      /\ UNCHANGED <<up, fromCore, pushed, attach, open, reading, closed, error, atEnd, pending, queue, poll,
                     delivered, requests, returned>>
  BY DEF Sent, reader, polls
<1>2. /\ r \in TaskRecords /\ r.pc = "waiting" /\ r.id = task[t].id /\ r.size = task[t].size
      /\ r.got = task[t].got
  BY TaskFacts DEF TaskRecords
<1> HIDE DEF r
<1>3. task' \in [Tasks -> TaskRecords] /\ task'[t] = r /\ \A u \in Tasks \ {t} : task'[u] = task[u]
  BY <1>1, <1>2 DEF Types
<1>4. /\ Coming' /\ Asked(t) \in Requests /\ Asked(t).id = task[t].id /\ Asked(t).next = 1
      /\ Numbers(fromCore, "answer", task[t].id) = {} /\ Unsent(t)
  BY <1>1, ComingAsked DEF Asking, Asks
<1>5. Types'
  BY <1>1, <1>3, <1>4 DEF Types, Registered
<1>6. \A u \in Tasks : task'[u].id = task[u].id /\ (task'[u].pc = "idle" <=> task[u].pc = "idle")
  BY <1>1, <1>2, <1>3
<1>7. Owned'
  BY <1>1, <1>3, <1>6 DEF Owned, Registered
<1>8. Lossless' <=> Lossless
  BY <1>1 DEF Lossless
<1>9. ASSUME NEW u \in Tasks
      PROVE  Asks(u)'
  <2>1. CASE u = t
    <3>1. pending[task[t].id] \in Seq(Envelopes) /\ task[t].id \in Nat
      BY <1>1, TaskFacts
    <3>2. /\ task[t].got = <<>> /\ Len(task[t].got) = 0
          /\ \A n \in DOMAIN task[t].got : FALSE
          /\ 0 < task[t].size
      BY <1>4 DEF Unsent
    <3>3. OnlyAnswers(pending[task[t].id]) => Len(pending[task[t].id]) = 0
      BY <1>4, <3>1 DEF Unsent, OnlyAnswers
    <3>4. \A x \in DOMAIN pending[task[t].id] :
            x \in 1 .. x /\ pending[task[t].id][x].type # "answer"
      BY <1>4, <3>1 DEF Unsent
    <3>5. \A v \in core' : v.id = task[t].id => v.next = 1
      BY <1>1, <1>4 DEF Unsent
    <3>6. /\ task'[t].got = task[t].got /\ task'[t].id = task[t].id /\ task'[t].size = task[t].size
          /\ OnTheirWay(t)' = {}
          /\ OnlyAnswers(pending[task[t].id]) => Expected(t)' = 1
      <4>1. /\ task'[t].got = task[t].got /\ task'[t].id = task[t].id /\ task'[t].size = task[t].size
        BY <1>2, <1>3
      <4>2. OnTheirWay(t)' = {}
        BY <1>1, <1>4, <4>1 DEF OnTheirWay
      <4>3. Expected(t)' = Len(task[t].got) + Len(pending[task[t].id]) + 1
        BY <1>1, <4>1 DEF Expected
      <4> QED
        BY <4>1, <4>2, <4>3, <3>2, <3>3
    <3>7. InTurn(t)'
      BY <1>1, <3>2, <3>4, <3>5, <3>6 DEF InTurn, GoesOn
    <3> QED
      BY <2>1, <3>7, <1>2, <1>3 DEF Asks
  <2>2. CASE u # t
    <3>1. u \in Tasks \ {t} /\ task'[u] = task[u]
      BY <2>2, <1>3
    <3> QED
      BY <3>1, <1>1, <1>8, OthersAsk
  <2> QED
    BY <2>1, <2>2
<1>10. Pushes'
  BY <1>1, <1>8, PushesKept
<1>11. Woken' /\ AnsweredInFull'
  <2>1. ASSUME closed, NEW u \in Tasks
        PROVE  Heard(u)'
    BY <2>1, <1>1, <1>2, <1>3 DEF Woken, Heard
  <2> QED
    BY <2>1, <1>1 DEF Woken, AnsweredInFull
<1> QED
  BY <1>4, <1>5, <1>7, <1>9, <1>10, <1>11 DEF Asking

\* The first of the envelopes a request waits for is the next answer to it, or none.
LEMMA NextAnswer ==
  ASSUME IInv, NEW t \in Tasks, task[t].pc = "waiting", pending[task[t].id] # <<>>
  PROVE  LET p == pending[task[t].id]
             got == Append(task[t].got, Head(p))
         IN /\ p \in Seq(Envelopes) /\ Head(p) \in Envelopes /\ Head(p) = p[1]
            /\ got \in Seq(Envelopes) /\ Len(got) = Len(task[t].got) + 1
            /\ Head(p).type = "answer" =>
                 /\ Head(p) = Answer(task[t].id, Len(task[t].got) + 1)
                 /\ \A n \in DOMAIN got : got[n] = Answer(task[t].id, n)
<1> DEFINE p == pending[task[t].id]
           got == Append(task[t].got, Head(p))
<1>1. p \in Seq(Envelopes) /\ task[t].got \in Seq(Envelopes) /\ InTurn(t)
  BY TaskFacts DEF IInv, Asking, Asks
<1>2. Head(p) \in Envelopes /\ Head(p) = p[1] /\ 1 \in DOMAIN p
  BY <1>1, TailFacts
<1>3. /\ got \in Seq(Envelopes) /\ Len(got) = Len(task[t].got) + 1
      /\ DOMAIN got = 1 .. Len(task[t].got) + 1 /\ DOMAIN task[t].got = 1 .. Len(task[t].got)
      /\ \A n \in 1 .. Len(task[t].got) : got[n] = task[t].got[n]
      /\ got[Len(task[t].got) + 1] = Head(p)
      /\ Len(task[t].got) \in Nat
  BY <1>1, <1>2, AppendFacts
<1>4. ASSUME Head(p).type = "answer"
      PROVE  Head(p) = Answer(task[t].id, Len(task[t].got) + 1)
  <2>1. \/ \E y \in 1 .. 1 : p[y].type # "answer"
        \/ p[1] = Answer(task[t].id, Len(task[t].got) + 1)
    BY <1>1, <1>2 DEF InTurn
  <2>2. \A y \in 1 .. 1 : y = 1
    OBVIOUS
  <2> QED
    BY <2>1, <2>2, <1>2, <1>4
<1>5. ASSUME Head(p).type = "answer", NEW n \in DOMAIN got
      PROVE  got[n] = Answer(task[t].id, n)
  <2>1. CASE n = Len(task[t].got) + 1
    BY <2>1, <1>3, <1>4, <1>5
  <2>2. CASE n # Len(task[t].got) + 1
    <3>1. n \in DOMAIN task[t].got /\ got[n] = task[t].got[n]
      BY <2>2, <1>3, <1>5
    <3> QED
      BY <3>1, <1>1 DEF InTurn
  <2> QED
    BY <2>1, <2>2
<1> QED
  BY <1>1, <1>2, <1>3, <1>4, <1>5

\* The task takes an answer and waits for the next one.
LEMMA ReceivesMoreKeeps ==
  ASSUME IInv, NEW t \in Tasks, Receives(t), Head(pending[task[t].id]).type = "answer",
         Len(task[t].got) + 1 # task[t].size
  PROVE  IInv'
<1> USE DEF IInv
<1> DEFINE id == task[t].id
           p == pending[id]
           got == Append(task[t].got, Head(p))
           r == [task[t] EXCEPT !.got = got]
<1>1. /\ task[t].pc = "waiting" /\ p # <<>>
      /\ UNCHANGED <<up, fromCore, core, pushed, attach, open, reading, closed, error, atEnd, queue, poll,
                     delivered, requests>>
  BY DEF Receives, connection, reader, polls
<1>2. /\ p \in Seq(Envelopes) /\ Head(p) \in Envelopes /\ Head(p) = p[1] /\ p[1].type = "answer"
      /\ got \in Seq(Envelopes) /\ Len(got) = Len(task[t].got) + 1
      /\ \A n \in DOMAIN got : got[n] = Answer(id, n)
  BY <1>1, NextAnswer
<1>3. /\ task' = [task EXCEPT ![t] = r] /\ pending' = [pending EXCEPT ![id] = Tail(p)]
      /\ returned' = returned
  BY <1>2 DEF Receives
<1>4. /\ r \in TaskRecords /\ r.pc = "waiting" /\ r.id = id /\ r.size = task[t].size /\ r.got = got
      /\ id \in Registered /\ id \in Nat
  BY <1>1, <1>2, TaskFacts DEF TaskRecords
<1>5. /\ Tail(p) \in Seq(Envelopes) /\ Len(Tail(p)) = Len(p) - 1 /\ Len(p) \in Nat \ {0}
      /\ DOMAIN p = 1 .. Len(p) /\ DOMAIN Tail(p) = 1 .. Len(p) - 1
      /\ \A x \in 1 .. Len(p) - 1 : Tail(p)[x] = p[x + 1]
  BY <1>1, <1>2, TailFacts
<1>6. task[t].got \in Seq(Envelopes) /\ Len(task[t].got) \in Nat /\ InTurn(t)
  BY <1>1, TaskFacts DEF Asking, Asks
<1> DEFINE q == Tail(p)
<1> HIDE DEF r, got, p, q
<1>7. task' \in [Tasks -> TaskRecords] /\ task'[t] = r /\ \A u \in Tasks \ {t} : task'[u] = task[u]
  BY <1>3, <1>4 DEF Types
<1>8. /\ Registered' = Registered /\ pending' \in [Registered -> Seq(Envelopes)]
      /\ pending'[id] = q /\ \A i \in Registered \ {id} : pending'[i] = pending[i]
  BY <1>3, <1>4, <1>5 DEF Types, Registered, q
<1>9. Types'
  BY <1>1, <1>7, <1>8 DEF Types
<1>10. \A u \in Tasks : task'[u].id = task[u].id /\ (task'[u].pc = "idle" <=> task[u].pc = "idle")
  BY <1>1, <1>4, <1>7
<1>11. Owned'
  <2>1. ASSUME NEW u \in Tasks
        PROVE  IF task'[u].pc = "idle" THEN task'[u] = Idle ELSE task'[u].id \in Registered
    BY <1>4, <1>7 DEF Owned
  <2>2. ASSUME NEW u \in Tasks, NEW v \in Tasks, u # v, task'[u].pc # "idle"
        PROVE  task'[u].id # task'[v].id
    BY <2>2, <1>10 DEF Owned
  <2> QED
    BY <2>1, <2>2, <1>8 DEF Owned
<1>12. Coming'
  BY <1>1, <1>9, ComingKept DEF Types
<1>13. Lossless' <=> Lossless
  BY <1>1 DEF Lossless
<1>14. InTurn(t)'
  <2>1. /\ task'[t].got = got /\ task'[t].id = id /\ task'[t].size = task[t].size
        /\ pending'[id] = q /\ OnTheirWay(t)' = OnTheirWay(t)
    BY <1>1, <1>4, <1>7, <1>8 DEF OnTheirWay
  <2>2. Expected(t)' = Len(got) + Len(q) + 1 /\ Expected(t) = Len(task[t].got) + Len(p) + 1
    BY <2>1 DEF Expected, p
  <2>3. Expected(t)' = Expected(t)
    BY <2>2, <1>2, <1>5, <1>6 DEF q
  <2>4. ASSUME NEW x \in DOMAIN q
        PROVE  \/ \E y \in 1 .. x : q[y].type # "answer"
               \/ q[x] = Answer(id, Len(got) + x)
    <3>1. x + 1 \in DOMAIN p /\ q[x] = p[x + 1] /\ x \in 1 .. Len(p) - 1
      BY <1>5 DEF q
    <3>2. \/ \E y \in 1 .. x + 1 : p[y].type # "answer"
          \/ p[x + 1] = Answer(id, Len(task[t].got) + (x + 1))
      BY <3>1, <1>6 DEF InTurn, p
    <3>3. CASE \E y \in 1 .. x + 1 : p[y].type # "answer"
      <4>1. PICK y \in 1 .. x + 1 : p[y].type # "answer"
        BY <3>3
      <4>2. y # 1
        BY <4>1, <1>2
      <4>3. y - 1 \in 1 .. x /\ q[y - 1] = p[y]
        BY <4>2, <3>1, <1>5 DEF q
      <4> QED
        BY <4>1, <4>3
    <3>4. CASE p[x + 1] = Answer(id, Len(task[t].got) + (x + 1))
      <4>1. Len(task[t].got) + (x + 1) = Len(got) + x
        <5>1. x \in Nat /\ Len(got) = Len(task[t].got) + 1 /\ Len(task[t].got) \in Nat
          BY <3>1, <1>2, <1>5, <1>6
        <5> QED
          BY <5>1
      <4> QED
        BY <3>1, <3>4, <4>1
    <3> QED
      BY <3>2, <3>3, <3>4
  <2>5. OnlyAnswers(q) => OnlyAnswers(p)
    <3>1. \A x \in DOMAIN p : x = 1 \/ (x - 1 \in DOMAIN q /\ q[x - 1] = p[x])
      BY <1>5 DEF q
    <3> QED
      BY <3>1, <1>2 DEF OnlyAnswers
  <2>6. Len(got) < task[t].size
    <3>1. Len(task[t].got) < task[t].size /\ task[t].size \in Nat
      BY <1>6, TaskFacts DEF InTurn
    <3> QED
      BY <3>1, <1>2, <1>6
  <2>7. OnlyAnswers(q) => GoesOn(OnTheirWay(t), Expected(t))
    BY <2>5, <1>6 DEF InTurn, p
  <2>8. OnlyAnswers(q) /\ Lossless =>
          \A v \in core : v.id = id => v.next = Expected(t) \/ v.next - 1 \in OnTheirWay(t)
    BY <2>5, <1>6 DEF InTurn, p
  <2> QED
    BY <2>1, <2>3, <2>4, <2>6, <2>7, <2>8, <1>1, <1>2, <1>13 DEF InTurn
<1>15. ASSUME NEW u \in Tasks
      PROVE  Asks(u)'
  <2>1. CASE u = t
    BY <2>1, <1>4, <1>7, <1>14 DEF Asks
  <2>2. CASE u # t
    <3>1. u \in Tasks \ {t} /\ task'[u] = task[u]
      BY <2>2, <1>7
    <3>2. task[u].pc # "idle" => pending'[task[u].id] = pending[task[u].id]
      BY <1>8, <2>2 DEF Owned
    <3> QED
      BY <3>1, <3>2, <1>1, <1>13, OthersAsk
  <2> QED
    BY <2>1, <2>2
<1>16. Pushes'
  BY <1>1, <1>13, PushesKept
<1>17. Woken'
  <2>1. ASSUME closed, NEW u \in Tasks
        PROVE  Heard(u)'
    <3>1. CASE u = t
      <4>1. ASSUME id <= atEnd
            PROVE  Told(q)
        <5>1. p[Len(p)].type # "answer"
          BY <2>1, <4>1, <1>1 DEF Woken, Heard, Told, p
        <5>2. Len(p) # 1
          BY <5>1, <1>2
        <5>3. Len(q) = Len(p) - 1 /\ q[Len(p) - 1] = p[Len(p)]
          BY <5>2, <1>5 DEF q
        <5>4. q # <<>>
          BY <5>2, <5>3, <1>5
        <5> QED
          BY <5>1, <5>3, <5>4 DEF Told
      <4> QED
        BY <2>1, <3>1, <4>1, <1>1, <1>4, <1>7, <1>8 DEF Woken, Heard
    <3>2. CASE u # t
      <4>1. task'[u] = task[u] /\ (task[u].pc # "idle" => pending'[task[u].id] = pending[task[u].id])
        BY <3>2, <1>7, <1>8 DEF Owned
      <4> QED
        BY <2>1, <4>1, <1>1 DEF Woken, Heard
    <3> QED
      BY <3>1, <3>2
  <2> QED
    BY <2>1, <1>1 DEF Woken
<1>18. AnsweredInFull'
  BY <1>3 DEF AnsweredInFull
<1> QED
  BY <1>9, <1>11, <1>12, <1>15, <1>16, <1>17, <1>18 DEF Asking

LEMMA ReceivesKeeps ==
  ASSUME IInv, NEW t \in Tasks, Receives(t)
  PROVE  IInv'
<1> DEFINE p == pending[task[t].id]
           got == Append(task[t].got, Head(p))
<1>1. task[t].pc = "waiting" /\ p # <<>>
  BY DEF Receives
<1>2. /\ got \in Seq(Envelopes) /\ Len(got) = Len(task[t].got) + 1
      /\ Head(p).type = "answer" => \A n \in DOMAIN got : got[n] = Answer(task[t].id, n)
  BY <1>1, NextAnswer
<1>3. CASE Head(p).type = "answer" /\ Len(task[t].got) + 1 # task[t].size
  BY <1>3, ReceivesMoreKeeps
<1>4. CASE ~(Head(p).type = "answer" /\ Len(task[t].got) + 1 # task[t].size)
  <2>1. /\ task' = [task EXCEPT ![t] = Idle] /\ pending' = Forgotten(task[t].id)
        /\ UNCHANGED <<connection, reader, polls, requests>>
    BY <1>2, <1>4 DEF Receives
  <2>2. \/ returned' = returned
        \/ /\ Head(p).type = "answer" /\ Len(got) = task[t].size
           /\ returned' = returned \union {[id |-> task[t].id, size |-> task[t].size, got |-> got]}
    BY <1>2 DEF Receives
  <2>3. AnsweredInFull'
    <3>1. CASE returned' = returned
      BY <3>1 DEF IInv, AnsweredInFull
    <3>2. CASE /\ Head(p).type = "answer" /\ Len(got) = task[t].size
               /\ returned' = returned \union {[id |-> task[t].id, size |-> task[t].size, got |-> got]}
      <4>1. DOMAIN got = 1 .. task[t].size /\ got = [n \in DOMAIN got |-> got[n]]
        BY <1>2, <3>2
      <4>2. got = [n \in 1 .. task[t].size |-> Answer(task[t].id, n)]
        BY <4>1, <1>2, <3>2
      <4> DEFINE r == [id |-> task[t].id, size |-> task[t].size, got |-> got]
      <4>3. r.got = [n \in 1 .. r.size |-> Answer(r.id, n)]
        BY <4>2
      <4>4. returned' = returned \union {r}
        BY <3>2
      <4> HIDE DEF r
      <4> QED
        BY <4>3, <4>4 DEF IInv, AnsweredInFull
    <3> QED
      BY <2>2, <3>1, <3>2
  <2> QED
    BY <1>1, <2>1, <2>3, RequestEnds DEF connection
<1> QED
  BY <1>3, <1>4

-----------------------------------------------------------------------------
(* The reader *)

LEMMA ReadsFacts ==
  ASSUME IInv, Reads
  PROVE  /\ fromCore # <<>> /\ fromCore' = Tail(fromCore) /\ fromCore' \in Seq(Envelopes)
         /\ reading /\ attach = "attached" /\ ~closed
BY HeadFacts DEF Reads, IInv, Types

\* The answer a request waits for next.
LEMMA AnswerPut ==
  ASSUME IInv, Reads, NEW t \in Tasks, task[t].pc # "idle", Incoming.to = task[t].id,
         pending'[task[t].id] = Append(pending[task[t].id], Incoming),
         UNCHANGED <<task, core, up, attach>>
  PROVE  Asks(t)'
<1> DEFINE id == task[t].id
           p == pending[id]
           got == task[t].got
           e == Incoming
           q == Append(p, e)
           old == Numbers(fromCore, "answer", id)
           new == Numbers(fromCore', "answer", id)
<1>1. /\ fromCore # <<>> /\ fromCore' = Tail(fromCore) /\ fromCore \in Seq(Envelopes)
      /\ Ordered(fromCore) /\ Head(fromCore) = e
  BY ReadsFacts DEF IInv, Types, Coming, Incoming
<1>2. /\ e \in Envelopes /\ e = fromCore[1] /\ 1 \in DOMAIN fromCore /\ e.n \in Nat /\ e.to = id
  BY <1>1, HeadFacts DEF IInv
<1>3. /\ p \in Seq(Envelopes) /\ got \in Seq(Envelopes) /\ Len(got) \in Nat /\ id \in Nat \ {0}
      /\ task[t].pc \in {"sending", "waiting"}
  BY TaskFacts DEF IInv
<1>4. task[t].pc # "sending"
  <2>1. task[t].pc = "sending" => Unsent(t)
    BY DEF IInv, Asking, Asks
  <2> QED
    BY <2>1, <1>2 DEF Unsent
<1>5. task[t].pc = "waiting" /\ InTurn(t)
  BY <1>3, <1>4 DEF IInv, Asking, Asks
<1>6. /\ Len(q) = Len(p) + 1 /\ DOMAIN p = 1 .. Len(p) /\ DOMAIN q = 1 .. Len(p) + 1
      /\ \A x \in 1 .. Len(p) : q[x] = p[x]
      /\ q[Len(p) + 1] = e /\ Len(p) \in Nat
  BY <1>2, <1>3, AppendFacts
<1>7. OnTheirWay(t) = old /\ OnTheirWay(t)' = new
  BY DEF OnTheirWay
<1>8. Expected(t) = Len(got) + Len(p) + 1 /\ Expected(t)' = Len(got) + Len(q) + 1
  BY DEF Expected
<1>9. Expected(t) \in Nat /\ Expected(t)' = Expected(t) + 1
  <2> HIDE DEF e, p, q, got
  <2> QED
    BY <1>3, <1>6, <1>8
<1>10. ASSUME OnlyAnswers(p), e.type = "answer"
       PROVE  /\ e = Answer(id, Expected(t))
              /\ GoesOn(new, Expected(t) + 1)
              /\ new = {n \in old : n > e.n} /\ e.n \in old
  <2>1. GoesOn(old, Expected(t))
    BY <1>5, <1>7, <1>10 DEF InTurn
  <2>2. e.n = Expected(t) /\ GoesOn(new, Expected(t) + 1)
    BY <1>1, <1>2, <1>3, <1>9, <1>10, <2>1, GoesOnTaken
  <2>3. new = {n \in old : n > e.n}
    BY <1>1, <1>2, <1>3, <1>10, TakenNumbers
  <2>4. e.n \in old
    BY <1>2, <1>10, InNumbers
  <2>5. e = [type |-> e.type, to |-> e.to, n |-> e.n]
    BY <1>2 DEF Envelopes
  <2> QED
    BY <2>2, <2>3, <2>4, <2>5, <1>2, <1>10 DEF Answer
<1> HIDE DEF e, p, q, got, old, new
<1>11. \A x \in DOMAIN q : \/ \E y \in 1 .. x : q[y].type # "answer"
                           \/ q[x] = Answer(id, Len(got) + x)
  <2> SUFFICES ASSUME NEW x \in DOMAIN q, \A y \in 1 .. x : q[y].type = "answer"
               PROVE  q[x] = Answer(id, Len(got) + x)
    OBVIOUS
  <2>1. CASE x # Len(p) + 1
    <3>1. x \in DOMAIN p /\ q[x] = p[x] /\ \A y \in 1 .. x : y \in 1 .. Len(p)
      BY <2>1, <1>6
    <3>2. \A y \in 1 .. x : p[y].type = "answer"
      BY <3>1, <1>6
    <3> QED
      BY <3>1, <3>2, <1>5 DEF InTurn, p, got
  <2>2. CASE x = Len(p) + 1
    <3>1. OnlyAnswers(p)
      <4>1. \A y \in 1 .. Len(p) : y \in 1 .. x
        BY <2>2, <1>6
      <4> QED
        BY <4>1, <1>6 DEF OnlyAnswers
    <3>2. x \in 1 .. x /\ q[x] = e
      BY <2>2, <1>6
    <3>3. Expected(t) = Len(got) + x
      BY <2>2, <1>3, <1>6, <1>8
    <3> QED
      BY <3>1, <3>2, <3>3, <1>10
  <2> QED
    BY <2>1, <2>2
<1>12. OnlyAnswers(q) => OnlyAnswers(p) /\ e.type = "answer"
  <2>1. \A x \in DOMAIN p : x \in DOMAIN q /\ q[x] = p[x]
    BY <1>6
  <2>2. Len(p) + 1 \in DOMAIN q
    BY <1>6
  <2> QED
    BY <2>1, <2>2, <1>6 DEF OnlyAnswers
<1>13. ASSUME OnlyAnswers(q), Lossless, NEW r \in core, r.id = id
       PROVE  r.next = Expected(t) + 1 \/ r.next - 1 \in new
  <2>1. r.next = Expected(t) \/ r.next - 1 \in old
    BY <1>5, <1>7, <1>12, <1>13 DEF InTurn, p
  <2>2. /\ e = Answer(id, Expected(t)) /\ new = {n \in old : n > e.n} /\ e.n \in old
    BY <1>10, <1>12, <1>13
  <2>3. e.n = Expected(t)
    BY <2>2 DEF Answer
  <2>4. e.n < r.next /\ r.next \in Nat
    <3>1. r.id > 0 /\ r.next \in Nat
      BY <1>3, <1>13 DEF IInv, Types, Requests
    <3> QED
      BY <3>1, <2>2, <1>13 DEF IInv, Coming, old
  <2> QED
    BY <2>1, <2>2, <2>3, <2>4, <1>9
<1>14. Lossless' <=> Lossless
  BY DEF Lossless
<1>15. InTurn(t)'
  <2>1. /\ task'[t].got = got /\ task'[t].id = id /\ task'[t].size = task[t].size
        /\ pending'[id] = q
    BY DEF got, q, p, e
  <2>2. Len(got) < task[t].size /\ \A n \in DOMAIN got : got[n] = Answer(id, n)
    BY <1>5 DEF InTurn, got
  <2>3. OnlyAnswers(q) => GoesOn(OnTheirWay(t)', Expected(t)')
    BY <1>7, <1>9, <1>10, <1>12
  <2>4. OnlyAnswers(q) /\ Lossless =>
          \A r \in core : r.id = id => r.next = Expected(t)' \/ r.next - 1 \in OnTheirWay(t)'
    BY <1>7, <1>9, <1>13
  <2> QED
    BY <2>1, <2>2, <2>3, <2>4, <1>11, <1>14 DEF InTurn
<1> QED
  BY <1>5, <1>15 DEF Asks

LEMMA ReadsAnswerKeeps ==
  ASSUME IInv, ReadsAnswer
  PROVE  IInv'
<1> USE DEF IInv
<1>1. /\ Reads /\ Incoming.to \in Registered /\ pending' = Put(Incoming.to, Incoming)
      /\ UNCHANGED <<up, core, pushed, attach, open, reading, closed, error, atEnd, queue, poll, delivered,
                     task, requests, returned>>
  BY DEF ReadsAnswer, reader, polls, calls
<1>2. /\ fromCore # <<>> /\ fromCore' = Tail(fromCore) /\ fromCore' \in Seq(Envelopes)
      /\ attach = "attached" /\ ~closed
  BY <1>1, ReadsFacts
<1>3. /\ Incoming \in Envelopes /\ Incoming.to \in 1 .. requests
      /\ Incoming.type \in Queues => Incoming.to = 0
  BY <1>1, <1>2, HeadFacts DEF Types
<1>4. /\ Registered' = Registered /\ pending' \in [Registered -> Seq(Envelopes)]
      /\ pending'[Incoming.to] = Append(pending[Incoming.to], Incoming)
      /\ \A i \in Registered : i # Incoming.to => pending'[i] = pending[i]
  <2>1. Append(pending[Incoming.to], Incoming) \in Seq(Envelopes)
    BY <1>1, <1>3, AppendFacts DEF Types
  <2> QED
    BY <1>1, <2>1 DEF Types, Put, Registered
<1>5. Types'
  BY <1>1, <1>2, <1>4 DEF Types
<1>6. Owned'
  BY <1>1, <1>4 DEF Owned
<1>7. Coming'
  BY <1>1, <1>2, ComingTaken
<1>8. Lossless' <=> Lossless
  BY <1>1 DEF Lossless
<1>9. ASSUME NEW t \in Tasks
      PROVE  Asks(t)'
  <2>1. CASE task[t].pc # "idle" /\ task[t].id = Incoming.to
    BY <2>1, <1>1, <1>4, AnswerPut
  <2>2. CASE ~(task[t].pc # "idle" /\ task[t].id = Incoming.to)
    <3>1. task[t].pc # "idle" => pending'[task[t].id] = pending[task[t].id] /\ Incoming.to # task[t].id
      BY <2>2, <1>4, TaskFacts
    <3> QED
      BY <3>1, <1>1, <1>2, <1>8, AskTaken DEF Asking
  <2> QED
    BY <2>1, <2>2
<1>10. ASSUME NEW q \in Queues
       PROVE  Follows(q)'
  <2>1. Incoming.type # q
    BY <1>3
  <2> QED
    BY <2>1, <1>1, <1>2, <1>8, FollowsTaken DEF Pushes
<1>11. Woken' /\ AnsweredInFull'
  BY <1>1, <1>2 DEF Woken, Heard, AnsweredInFull
<1> QED
  BY <1>5, <1>6, <1>7, <1>9, <1>10, <1>11 DEF Asking, Pushes

LEMMA ConcatAppend ==
  ASSUME NEW S, NEW a \in Seq(S), NEW b \in Seq(S), NEW e \in S
  PROVE  a \o Append(b, e) = Append(a \o b, e)
OBVIOUS

LEMMA ReadsPushKeeps ==
  ASSUME IInv, ReadsPush
  PROVE  IInv'
<1> USE DEF IInv
<1> DEFINE n == Incoming.n
<1>1. PICK q \in Queues : q = Incoming.type
  BY DEF ReadsPush
<1>2. /\ Reads /\ queue' = [queue EXCEPT ![q] = Append(@, n)]
      /\ UNCHANGED <<up, core, pushed, attach, open, reading, closed, error, atEnd, pending, poll, delivered,
                     task, requests, returned>>
  BY <1>1 DEF ReadsPush, reader, calls
<1>3. /\ fromCore # <<>> /\ fromCore' = Tail(fromCore) /\ fromCore' \in Seq(Envelopes)
      /\ fromCore \in Seq(Envelopes) /\ Ordered(fromCore) /\ Head(fromCore) = Incoming
      /\ attach = "attached" /\ ~closed
  BY <1>2, ReadsFacts DEF Types, Coming, Incoming
<1>4. /\ Incoming.to = 0 /\ n \in Nat /\ q # "answer" /\ Incoming = fromCore[1] /\ 1 \in DOMAIN fromCore
  BY <1>1, <1>3, HeadFacts, SizesAssumption
<1>5. /\ delivered[q] \in Seq(Nat) /\ queue[q] \in Seq(Nat) /\ poll[q].held \in Seq(Nat)
      /\ Taken(q) \in Seq(Nat) /\ Len(Taken(q)) \in Nat /\ pushed[q] \in Nat
  BY QueueFacts
<1>6. /\ queue' \in [Queues -> Seq(Nat)] /\ queue'[q] = Append(queue[q], n)
      /\ \A p \in Queues \ {q} : queue'[p] = queue[p]
  <2>1. Append(queue[q], n) \in Seq(Nat)
    BY <1>4, <1>5
  <2> QED
    BY <2>1, <1>2 DEF Types
<1>7. Types'
  BY <1>2, <1>3, <1>6 DEF Types, Registered
<1>8. Owned'
  BY <1>2 DEF Owned, Registered
<1>9. Coming'
  BY <1>2, <1>3, ComingTaken
<1>10. Lossless' <=> Lossless
  BY <1>2 DEF Lossless
<1>11. ASSUME NEW t \in Tasks
       PROVE  Asks(t)'
  BY <1>1, <1>2, <1>3, <1>4, <1>10, AskTaken DEF Asking
<1>12. Follows(q)'
  <2> DEFINE l == Taken(q)
             old == Numbers(fromCore, q, 0)
             new == Numbers(fromCore', q, 0)
  <2>1. Taken(q)' = Append(l, n)
    <3> DEFINE a == delivered[q] \o poll[q].held
               b == queue[q]
    <3>1. Taken(q)' = a \o Append(b, n) /\ l = a \o b
      BY <1>2, <1>6 DEF Taken
    <3>2. a \in Seq(Nat) /\ b \in Seq(Nat) /\ n \in Nat
      BY <1>4, <1>5
    <3> HIDE DEF a, b, l, n
    <3>3. a \o Append(b, n) = Append(a \o b, n)
      BY <3>2, ConcatAppend
    <3> QED
      BY <3>1, <3>3
  <2>2. Follows(q)
    BY DEF Pushes
  <2>3. n = Len(l) + 1 /\ GoesOn(new, Len(l) + 2)
    <3>1. GoesOn(old, Len(l) + 1) /\ Len(l) + 1 \in Nat /\ (Len(l) + 1) + 1 = Len(l) + 2
      BY <2>2, <1>5 DEF Follows
    <3>2. Head(fromCore).n = Len(l) + 1 /\ GoesOn(new, (Len(l) + 1) + 1)
      BY <3>1, <1>1, <1>3, <1>4, GoesOnTaken
    <3> QED
      BY <3>1, <3>2, <1>3
  <2>4. new = {m \in old : m > n} /\ n \in old
    <3>1. new = {m \in old : m > n}
      BY <1>1, <1>3, <1>4, TakenNumbers
    <3>2. n \in old
      BY <1>1, <1>4, InNumbers
    <3> QED
      BY <3>1, <3>2
  <2>5. /\ Len(Append(l, n)) = Len(l) + 1 /\ DOMAIN l = 1 .. Len(l)
        /\ DOMAIN Append(l, n) = 1 .. Len(l) + 1
        /\ \A x \in 1 .. Len(l) : Append(l, n)[x] = l[x]
        /\ Append(l, n)[Len(l) + 1] = n
    BY <1>4, <1>5, AppendFacts
  <2> DEFINE k == Append(l, n)
  <2> HIDE DEF l, old, new, n, k
  <2>6. \A x \in DOMAIN k : k[x] = x
    <3>1. \A x \in DOMAIN l : l[x] = x
      BY <2>2 DEF Follows, l
    <3> QED
      BY <3>1, <2>3, <2>5 DEF k
  <2>7. n <= pushed[q] /\ \A m \in new : m <= pushed[q]
    BY <2>2, <2>4 DEF Follows, old
  <2>8. Len(k) = Len(l) + 1 /\ Len(l) \in Nat
    BY <2>5, <1>5 DEF k, l
  <2>9. Lossless => new = Len(k) + 1 .. pushed[q]
    <3>1. Lossless => old = Len(l) + 1 .. pushed[q]
      BY <2>2 DEF Follows, old, l
    <3> QED
      BY <3>1, <2>3, <2>4, <2>8, <1>5
  <2>10. GoesOn(new, Len(k) + 1)
    <3>1. Len(k) + 1 = Len(l) + 2
      BY <2>8
    <3> QED
      BY <3>1, <2>3
  <2>11. Taken(q)' = k
    BY <2>1 DEF k
  <2>12. Len(k) <= pushed[q]
    BY <2>3, <2>7, <2>8
  <2>13. poll'[q] = poll[q] /\ pushed'[q] = pushed[q] /\ (poll[q].pc # "taken" => poll[q].held = <<>>)
    BY <1>2, <2>2 DEF Follows
  <2> QED
    BY <2>6, <2>7, <2>9, <2>10, <2>11, <2>12, <2>13, <1>10 DEF Follows, new
<1>13. ASSUME NEW p \in Queues \ {q}
       PROVE  Follows(p)'
  BY <1>1, <1>2, <1>3, <1>6, <1>10, FollowsTaken DEF Pushes
<1>14. Woken' /\ AnsweredInFull'
  BY <1>2, <1>3 DEF Woken, Heard, AnsweredInFull
<1> QED
  BY <1>7, <1>8, <1>9, <1>11, <1>12, <1>13, <1>14 DEF Asking, Pushes

-----------------------------------------------------------------------------
(* The end of the connection *)

\* Every request gets the sentinel.
LEMMA SentinelKeeps ==
  ASSUME IInv, Coming', Pushes', fromCore' \in Seq(Envelopes),
         \A x \in DOMAIN fromCore' : \E y \in DOMAIN fromCore : fromCore'[x] = fromCore[y],
         pending' = SentinelToAll, closed' = TRUE, reading' = FALSE, up' \in BOOLEAN,
         attach \in {"attached", "failed"}, error' \in {"none", "connection", "protocol"},
         error' # "protocol" => ~up', atEnd' = requests,
         UNCHANGED <<attach, open, core, pushed, polls, calls>>
  PROVE  IInv'
<1> USE DEF IInv
<1>1. UNCHANGED <<queue, poll, delivered, task, requests, returned>>
  BY DEF polls, calls
<1>2. /\ Registered' = Registered /\ pending' \in [Registered -> Seq(Envelopes)]
      /\ \A i \in Registered : pending'[i] = Append(pending[i], Sentinel)
  <2>1. Registered' = Registered
    BY DEF SentinelToAll, Registered
  <2>2. \A i \in Registered : Append(pending[i], Sentinel) \in Seq(Envelopes)
    BY IdleFacts, AppendFacts DEF Types
  <2>3. pending' = [i \in Registered |-> Append(pending[i], Sentinel)]
    BY DEF SentinelToAll
  <2> HIDE DEF Registered
  <2> QED
    BY <2>1, <2>2, <2>3
<1>3. Types'
  <2>1. atEnd' \in Nat /\ atEnd' <= requests'
    BY <1>1 DEF Types
  <2> QED
    BY <2>1, <1>1, <1>2 DEF Types
<1>4. Owned'
  BY <1>1, <1>2 DEF Owned
<1>5. ASSUME NEW t \in Tasks, task[t].pc # "idle"
      PROVE  LET p == pending[task[t].id]
                 q == pending'[task[t].id]
             IN /\ q # <<>> /\ Len(q) = Len(p) + 1 /\ DOMAIN p = 1 .. Len(p)
                /\ DOMAIN q = 1 .. Len(p) + 1 /\ q[Len(p) + 1] = Sentinel
                /\ \A x \in 1 .. Len(p) : q[x] = p[x]
                /\ Len(p) \in Nat /\ Sentinel.type # "answer"
  <2> DEFINE p == pending[task[t].id]
  <2>1. p \in Seq(Envelopes) /\ Sentinel \in Envelopes /\ Sentinel.type # "answer"
    BY <1>5, TaskFacts, IdleFacts
  <2>2. pending'[task[t].id] = Append(p, Sentinel)
    BY <1>2, <1>5, TaskFacts
  <2> HIDE DEF p
  <2>3. /\ Append(p, Sentinel) # <<>> /\ Len(Append(p, Sentinel)) = Len(p) + 1
        /\ DOMAIN p = 1 .. Len(p) /\ DOMAIN Append(p, Sentinel) = 1 .. Len(p) + 1
        /\ Append(p, Sentinel)[Len(p) + 1] = Sentinel /\ Len(p) \in Nat
        /\ \A x \in 1 .. Len(p) : Append(p, Sentinel)[x] = p[x]
    BY <2>1, AppendFacts
  <2> QED
    BY <2>1, <2>2, <2>3 DEF p
<1>6. ASSUME NEW t \in Tasks
      PROVE  Asks(t)'
  <2> DEFINE p == pending[task[t].id]
             q == pending'[task[t].id]
  <2>1. CASE task[t].pc = "idle"
    BY <2>1, <1>1 DEF Asks
  <2>2. CASE task[t].pc = "sending"
    <3>1. Unsent(t)
      BY <2>2 DEF Asking, Asks
    <3>2. \A x \in DOMAIN fromCore' : fromCore'[x].to # task[t].id
      BY <3>1 DEF Unsent
    <3>3. \A x \in DOMAIN q : q[x].type # "answer"
      <4>1. \A x \in DOMAIN p : p[x].type # "answer"
        BY <3>1 DEF Unsent
      <4>2. /\ DOMAIN p = 1 .. Len(p) /\ DOMAIN q = 1 .. Len(p) + 1 /\ Len(p) \in Nat
            /\ q[Len(p) + 1].type # "answer"
            /\ \A x \in 1 .. Len(p) : q[x] = p[x]
        BY <1>5, <2>2
      <4> HIDE DEF p, q
      <4> QED
        BY <4>1, <4>2
    <3>4. Unsent(t)'
      BY <1>1, <3>1, <3>2, <3>3 DEF Unsent
    <3> QED
      BY <1>1, <2>2, <3>4 DEF Asks
  <2>3. CASE task[t].pc = "waiting"
    <3>1. InTurn(t)
      BY <2>3 DEF Asking, Asks
    <3>2. /\ Len(q) = Len(p) + 1 /\ DOMAIN p = 1 .. Len(p) /\ DOMAIN q = 1 .. Len(p) + 1
          /\ q[Len(p) + 1].type # "answer" /\ Len(p) \in Nat
          /\ \A x \in 1 .. Len(p) : q[x] = p[x]
      BY <1>5, <2>3
    <3>3. ~OnlyAnswers(q)
      <4>1. Len(p) + 1 \in DOMAIN q
        BY <3>2
      <4> QED
        BY <4>1, <3>2 DEF OnlyAnswers
    <3>4. \A x \in DOMAIN p : \/ \E y \in 1 .. x : p[y].type # "answer"
                              \/ p[x] = Answer(task[t].id, Len(task[t].got) + x)
      BY <3>1 DEF InTurn
    <3> HIDE DEF p, q
    <3>5. \A x \in DOMAIN q : \/ \E y \in 1 .. x : q[y].type # "answer"
                              \/ q[x] = Answer(task[t].id, Len(task[t].got) + x)
      <4> SUFFICES ASSUME NEW x \in DOMAIN q, \A y \in 1 .. x : q[y].type = "answer"
                   PROVE  q[x] = Answer(task[t].id, Len(task[t].got) + x)
        OBVIOUS
      <4>1. x \in 1 .. Len(p) + 1 /\ x # Len(p) + 1
        BY <3>2
      <4>2. x \in DOMAIN p /\ q[x] = p[x] /\ \A y \in 1 .. x : q[y] = p[y]
        BY <3>2, <4>1
      <4> QED
        BY <3>4, <4>2
    <3>6. InTurn(t)'
      BY <1>1, <3>1, <3>3, <3>5 DEF InTurn, q
    <3> QED
      BY <1>1, <2>3, <3>6 DEF Asks
  <2> QED
    BY <2>1, <2>2, <2>3, TaskFacts
<1>7. Woken'
  <2>1. ASSUME NEW t \in Tasks
        PROVE  Heard(t)'
    <3>1. CASE task[t].pc = "idle"
      BY <3>1, <1>1 DEF Heard
    <3>2. CASE task[t].pc # "idle"
      BY <3>2, <1>1, <1>5, TaskFacts DEF Heard, Told, Types
    <3> QED
      BY <3>1, <3>2
  <2> QED
    BY <2>1 DEF Woken
<1>8. AnsweredInFull'
  BY <1>1 DEF AnsweredInFull
<1> QED
  BY <1>3, <1>4, <1>6, <1>7, <1>8 DEF Asking

LEMMA ReadsUnexpectedKeeps ==
  ASSUME IInv, ReadsUnexpected
  PROVE  IInv'
<1>1. /\ Reads /\ Incoming.to > 0 /\ error' = "protocol"
      /\ pending' = SentinelToAll /\ closed' = TRUE /\ reading' = FALSE /\ atEnd' = requests
      /\ UNCHANGED <<up, core, pushed, attach, open, polls, calls>>
  BY DEF ReadsUnexpected, Ends
<1>2. /\ fromCore # <<>> /\ fromCore' = Tail(fromCore) /\ fromCore' \in Seq(Envelopes)
      /\ attach = "attached"
  BY <1>1, ReadsFacts
<1>3. Coming'
  BY <1>1, <1>2, ComingTaken DEF IInv, calls
<1>4. Incoming.type \notin Queues
  BY <1>1, <1>2, HeadFacts DEF IInv
<1>5. Lossless' <=> Lossless
  BY <1>1 DEF Lossless
<1>6. ASSUME NEW q \in Queues
      PROVE  Follows(q)'
  BY <1>1, <1>2, <1>4, <1>5, FollowsTaken DEF IInv, Pushes, polls
<1>7. \A x \in DOMAIN fromCore' : \E y \in DOMAIN fromCore : fromCore'[x] = fromCore[y]
  BY <1>2, HeadFacts DEF IInv
<1>8. up' \in BOOLEAN
  BY <1>1 DEF IInv, Types
<1> QED
  BY <1>1, <1>2, <1>3, <1>6, <1>7, <1>8, SentinelKeeps DEF Pushes

LEMMA ReaderEndsKeeps ==
  ASSUME IInv, ReaderEnds
  PROVE  IInv'
<1>1. /\ reading /\ ~up /\ error' = "connection"
      /\ pending' = SentinelToAll /\ closed' = TRUE /\ reading' = FALSE /\ atEnd' = requests
      /\ UNCHANGED <<up, fromCore, core, pushed, attach, open, polls, calls>>
  BY DEF ReaderEnds, Ends, connection
<1>2. Coming'
  BY <1>1 DEF IInv, Coming, calls, Ordered
<1>3. Lossless' <=> Lossless
  BY <1>1 DEF Lossless
<1>4. Pushes'
  BY <1>1, <1>3, PushesKept DEF IInv, polls
<1>5. attach = "attached" /\ up' \in BOOLEAN /\ fromCore' \in Seq(Envelopes)
  BY <1>1 DEF IInv, Types
<1> QED
  BY <1>1, <1>2, <1>4, <1>5, SentinelKeeps

LEMMA CloseEndsKeeps ==
  ASSUME IInv, CloseEnds
  PROVE  IInv'
<1>1. /\ attach \in {"attached", "failed"} /\ up' = FALSE /\ fromCore' = <<>>
      /\ pending' = SentinelToAll /\ closed' = TRUE /\ reading' = FALSE /\ atEnd' = requests
      /\ UNCHANGED <<core, pushed, attach, open, error, polls, calls>>
  BY DEF CloseEnds
<1>2. /\ DOMAIN fromCore' = {} /\ fromCore' \in Seq(Envelopes)
      /\ \A type, to : Numbers(fromCore', type, to) = {}
  <2>1. DOMAIN fromCore' = {} /\ fromCore' \in Seq(Envelopes)
    BY <1>1
  <2> QED
    BY <2>1, InNumbers
<1>3. Coming'
  BY <1>1, <1>2 DEF IInv, Coming, calls, Ordered
<1>4. ~Lossless'
  BY <1>1 DEF Lossless
<1>5. ASSUME NEW q \in Queues
      PROVE  Follows(q)'
  <2>1. Follows(q)
    BY DEF IInv, Pushes
  <2>2. UNCHANGED <<pushed, queue, poll, delivered>>
    BY <1>1 DEF polls
  <2>3. Taken(q)' = Taken(q)
    BY <2>2 DEF Taken
  <2> QED
    BY <2>1, <2>2, <2>3, <1>2, <1>4 DEF Follows, GoesOn
<1>6. error' \in {"none", "connection", "protocol"}
  BY <1>1 DEF IInv, Types
<1> QED
  BY <1>1, <1>2, <1>3, <1>5, <1>6, SentinelKeeps DEF Pushes

-----------------------------------------------------------------------------
(* The polls *)

LEMMA PollKeeps ==
  ASSUME IInv, NEW q \in Queues,
         UNCHANGED <<connection, reader, pending, calls>>,
         poll' \in [Queues -> Polls], queue' \in [Queues -> Seq(Nat)],
         delivered' \in [Queues -> Seq(Nat)],
         \A p \in Queues \ {q} : poll'[p] = poll[p] /\ queue'[p] = queue[p] /\ delivered'[p] = delivered[p],
         Taken(q)' = Taken(q), poll'[q].pc # "taken" => poll'[q].held = <<>>
  PROVE  IInv'
<1>1. UNCHANGED <<up, fromCore, core, pushed, attach, open, reading, closed, error, atEnd, task, requests, returned>>
  BY DEF connection, reader, calls
<1>2. Types' /\ Owned'
  BY <1>1 DEF IInv, Types, Owned, Registered
<1>3. Lossless' <=> Lossless
  BY <1>1 DEF Lossless
<1>4. Coming' /\ Asking'
  <2>1. core' \subseteq core /\ requests' >= requests /\ pending' = pending
    BY <1>1 DEF IInv, Types
  <2>2. Coming'
    BY <1>1, <1>2, <2>1, ComingKept DEF IInv
  <2>3. Asking'
    BY <1>1, <1>3, <2>1, AskingKept DEF IInv
  <2> QED
    BY <2>2, <2>3
<1>5. ASSUME NEW p \in Queues
      PROVE  Follows(p)'
  <2>1. Follows(p)
    BY DEF IInv, Pushes
  <2>2. Taken(p)' = Taken(p) /\ (poll'[p].pc # "taken" => poll'[p].held = <<>>)
    <3>1. CASE p = q
      BY <3>1
    <3>2. CASE p # q
      BY <3>2, <2>1 DEF Taken, Follows
    <3> QED
      BY <3>1, <3>2
  <2> QED
    BY <2>1, <2>2, <1>1, <1>3 DEF Follows
<1>6. Woken' /\ AnsweredInFull'
  BY <1>1 DEF IInv, Woken, Heard, AnsweredInFull
<1> QED
  BY <1>2, <1>4, <1>5, <1>6 DEF IInv, Pushes

\* The first of what follows goes to the end of what is before it.
LEMMA TakenKept ==
  ASSUME NEW S, NEW a \in Seq(S), NEW b \in Seq(S), b # <<>>
  PROVE  (a \o <<Head(b)>>) \o Tail(b) = (a \o <<>>) \o b
<1>1. <<Head(b)>> \in Seq(S) /\ Tail(b) \in Seq(S) /\ <<Head(b)>> \o Tail(b) = b
  <2>1. /\ Head(b) \in S /\ Head(b) = b[1] /\ Tail(b) \in Seq(S) /\ Len(Tail(b)) = Len(b) - 1
        /\ Len(b) \in Nat \ {0} /\ \A x \in 1 .. Len(b) - 1 : Tail(b)[x] = b[x + 1]
    BY TailFacts
  <2>2. <<Head(b)>> \in Seq(S) /\ Len(<<Head(b)>>) = 1 /\ <<Head(b)>>[1] = Head(b)
    BY <2>1
  <2> DEFINE h == <<Head(b)>>
             t == Tail(b)
  <2> HIDE DEF h, t
  <2>3. h \o t \in Seq(S) /\ Len(h \o t) = Len(b)
        /\ \A x \in 1 .. Len(b) : (h \o t)[x] = IF x <= 1 THEN h[x] ELSE t[x - 1]
    BY <2>1, <2>2, ConcatProperties DEF h, t
  <2>4. \A x \in 1 .. Len(b) : (h \o t)[x] = b[x]
    BY <2>1, <2>2, <2>3 DEF h, t
  <2>5. h \o t = b
    BY <2>3, <2>4, SeqEqual
  <2> QED
    BY <2>1, <2>2, <2>5 DEF h, t
<1>2. (a \o <<Head(b)>>) \o Tail(b) = a \o (<<Head(b)>> \o Tail(b))
  BY <1>1, ConcatAssociative
<1>3. a \o <<>> = a
  BY ConcatEmptySeq
<1> QED
  BY <1>1, <1>2, <1>3

LEMMA PollStepKeeps ==
  ASSUME IInv, NEW q \in Queues, PollStep(q)
  PROVE  IInv'
<1> USE DEF IInv
<1>1. /\ delivered[q] \in Seq(Nat) /\ queue[q] \in Seq(Nat) /\ poll[q] \in Polls
      /\ poll[q].held \in Seq(Nat) /\ q \in {"assignments", "commands"}
      /\ poll[q].pc # "taken" => poll[q].held = <<>>
      /\ delivered[q] \o poll[q].held \in Seq(Nat)
  BY QueueFacts DEF Pushes, Follows
<1>2. NotPolling \in Polls /\ NotPolling.pc = "idle" /\ NotPolling.held = <<>>
  BY IdleFacts
<1>3. CASE PollStarts(q)
  <2> DEFINE r == [poll[q] EXCEPT !.pc = "waiting"]
  <2>1. /\ poll' = [poll EXCEPT ![q] = r] /\ poll[q].pc = "idle"
        /\ UNCHANGED <<connection, reader, pending, queue, delivered, calls>>
    BY <1>2, <1>3 DEF PollStarts
  <2>2. r \in Polls /\ r.pc = "waiting" /\ r.held = poll[q].held
    BY <1>1 DEF Polls
  <2> HIDE DEF r
  <2>3. poll' \in [Queues -> Polls] /\ poll'[q] = r /\ \A p \in Queues \ {q} : poll'[p] = poll[p]
    BY <2>1, <2>2 DEF Types
  <2>4. Taken(q)' = Taken(q)
    BY <2>1, <2>2, <2>3 DEF Taken
  <2> QED
    BY <1>1, <2>1, <2>2, <2>3, <2>4, PollKeeps DEF Types
<1>4. CASE PollTakes(q)
  <2> DEFINE r == [pc |-> "taken", held |-> <<Head(queue[q])>>]
  <2>1. /\ poll' = [poll EXCEPT ![q] = r] /\ queue' = [queue EXCEPT ![q] = Tail(queue[q])]
        /\ poll[q].pc = "waiting" /\ queue[q] # <<>>
        /\ UNCHANGED <<connection, reader, pending, delivered, calls>>
    BY <1>4 DEF PollTakes
  <2>2. Head(queue[q]) \in Nat /\ Tail(queue[q]) \in Seq(Nat)
    BY <1>1, <2>1, TailFacts
  <2>3. r \in Polls /\ r.pc = "taken" /\ r.held = <<Head(queue[q])>>
    BY <2>2 DEF Polls
  <2> HIDE DEF r
  <2>4. /\ poll' \in [Queues -> Polls] /\ poll'[q] = r /\ \A p \in Queues \ {q} : poll'[p] = poll[p]
        /\ queue' \in [Queues -> Seq(Nat)] /\ queue'[q] = Tail(queue[q])
        /\ \A p \in Queues \ {q} : queue'[p] = queue[p]
    BY <2>1, <2>2, <2>3 DEF Types
  <2>5. Taken(q)' = (delivered[q] \o <<Head(queue[q])>>) \o Tail(queue[q])
    BY <2>1, <2>3, <2>4 DEF Taken
  <2>6. Taken(q) = (delivered[q] \o <<>>) \o queue[q]
    BY <1>1, <2>1 DEF Taken
  <2>7. Taken(q)' = Taken(q)
    BY <2>5, <2>6, <1>1, <2>1, TakenKept
  <2>8. delivered' \in [Queues -> Seq(Nat)] /\ \A p \in Queues : delivered'[p] = delivered[p]
    BY <2>1 DEF Types
  <2> QED
    BY <2>1, <2>3, <2>4, <2>7, <2>8, PollKeeps
<1>5. CASE PollReturns(q)
  <2> DEFINE rest == IF q = "commands" THEN queue[q] ELSE <<>>
             left == IF q = "commands" THEN <<>> ELSE queue[q]
             given == delivered[q] \o poll[q].held \o rest
  <2>1. /\ poll' = [poll EXCEPT ![q] = NotPolling] /\ queue' = [queue EXCEPT ![q] = left]
        /\ delivered' = [delivered EXCEPT ![q] = given]
        /\ UNCHANGED <<connection, reader, pending, calls>>
    BY <1>5 DEF PollReturns
  <2>2. rest \in Seq(Nat) /\ left \in Seq(Nat) /\ given \in Seq(Nat)
    <3>1. <<>> \in Seq(Nat)
      OBVIOUS
    <3>2. rest \in Seq(Nat) /\ left \in Seq(Nat)
      BY <3>1, <1>1
    <3> HIDE DEF rest
    <3> QED
      BY <3>2, <1>1
  <2>3. (given \o <<>>) \o left = Taken(q)
    <3> DEFINE a == delivered[q] \o poll[q].held
               b == queue[q]
    <3>1. a \in Seq(Nat) /\ b \in Seq(Nat) /\ Taken(q) = a \o b
      BY <1>1 DEF Taken
    <3>2. CASE q = "commands"
      <4>1. given = a \o b /\ left = <<>>
        BY <3>2
      <4> HIDE DEF a, b, given, left
      <4> QED
        BY <3>1, <4>1, <2>2, ConcatEmptySeq
    <3>3. CASE q # "commands"
      <4>1. given = a \o <<>> /\ left = b
        BY <3>3
      <4> HIDE DEF a, b, given, left
      <4> QED
        BY <3>1, <4>1, <2>2, ConcatEmptySeq
    <3> QED
      BY <3>2, <3>3
  <2> HIDE DEF left, given
  <2>4. /\ poll' \in [Queues -> Polls] /\ poll'[q] = NotPolling
        /\ queue' \in [Queues -> Seq(Nat)] /\ queue'[q] = left
        /\ delivered' \in [Queues -> Seq(Nat)] /\ delivered'[q] = given
        /\ \A p \in Queues \ {q} : poll'[p] = poll[p] /\ queue'[p] = queue[p] /\ delivered'[p] = delivered[p]
    BY <2>1, <2>2, <1>2 DEF Types
  <2>5. Taken(q)' = Taken(q)
    BY <2>3, <2>4, <1>2 DEF Taken
  <2> QED
    BY <2>1, <2>4, <2>5, <1>2, PollKeeps
<1>6. CASE PollEnds(q)
  <2>1. /\ poll' = [poll EXCEPT ![q] = NotPolling] /\ poll[q].pc = "waiting"
        /\ UNCHANGED <<connection, reader, pending, queue, delivered, calls>>
    BY <1>6 DEF PollEnds
  <2>2. /\ poll' \in [Queues -> Polls] /\ poll'[q] = NotPolling
        /\ \A p \in Queues \ {q} : poll'[p] = poll[p]
    BY <2>1, <1>2 DEF Types
  <2>3. Taken(q)' = Taken(q)
    BY <2>1, <2>2, <1>1, <1>2 DEF Taken
  <2> QED
    BY <2>1, <2>2, <2>3, <1>2, PollKeeps DEF Types
<1> QED
  BY <1>3, <1>4, <1>5, <1>6 DEF PollStep

-----------------------------------------------------------------------------
(* Core and the network *)

\* What Core sends.
LEMMA SendsFacts ==
  ASSUME Types, NEW e \in Envelopes, fromCore' = Append(fromCore, e)
  PROVE  /\ fromCore' \in Seq(Envelopes)
         /\ \A x \in DOMAIN fromCore' : fromCore'[x] = e \/ \E y \in DOMAIN fromCore : fromCore'[x] = fromCore[y]
         /\ \A type, to : e.type # type \/ e.to # to =>
              Numbers(fromCore', type, to) = Numbers(fromCore, type, to)
         /\ Numbers(fromCore', e.type, e.to) = Numbers(fromCore, e.type, e.to) \union {e.n}
<1>1. fromCore \in Seq(Envelopes)
  BY DEF Types
<1>2. \A x \in DOMAIN fromCore' : fromCore'[x] = e \/ \E y \in DOMAIN fromCore : fromCore'[x] = fromCore[y]
  <2>1. /\ DOMAIN fromCore = 1 .. Len(fromCore) /\ DOMAIN fromCore' = 1 .. Len(fromCore) + 1
        /\ \A x \in 1 .. Len(fromCore) : fromCore'[x] = fromCore[x]
        /\ fromCore'[Len(fromCore) + 1] = e /\ Len(fromCore) \in Nat
    BY <1>1, AppendFacts
  <2> QED
    BY <2>1
<1>3. ASSUME NEW type, NEW to, e.type # type \/ e.to # to
      PROVE  Numbers(fromCore', type, to) = Numbers(fromCore, type, to)
  <2>1. Numbers(fromCore', type, to) = Numbers(fromCore, type, to) \union
          (IF e.type = type /\ e.to = to THEN {e.n} ELSE {})
    BY <1>1, AppendedNumbers
  <2>2. ~(e.type = type /\ e.to = to)
    BY <1>3
  <2> QED
    BY <2>1, <2>2
<1>4. Numbers(fromCore', e.type, e.to) = Numbers(fromCore, e.type, e.to) \union {e.n}
  BY <1>1, AppendedNumbers
<1> QED
  BY <1>1, <1>2, <1>3, <1>4, AppendFacts

\* It is not for this task, and Core's other requests stay what they are.
LEMMA AskSent ==
  ASSUME Types, Owned, NEW t \in Tasks, Asks(t), NEW e \in Envelopes,
         task[t].pc # "idle" => e.to # task[t].id \/ (task[t].pc = "waiting" /\ e.type # "answer"),
         fromCore' = Append(fromCore, e), task' = task, pending' = pending, Lossless' => Lossless,
         \A r \in core' : r \in core \/ r.id # task[t].id
  PROVE  Asks(t)'
<1>1. CASE task[t].pc = "idle"
  BY <1>1 DEF Asks
<1>2. CASE task[t].pc = "sending"
  <2>1. Unsent(t)
    BY <1>2 DEF Asks
  <2>2. \A x \in DOMAIN fromCore' : fromCore'[x].to # task[t].id
    BY <1>2, <2>1, SendsFacts DEF Unsent
  <2>3. Unsent(t)'
    BY <2>1, <2>2 DEF Unsent
  <2> QED
    BY <1>2, <2>3 DEF Asks
<1>3. CASE task[t].pc = "waiting"
  <2>1. InTurn(t)
    BY <1>3 DEF Asks
  <2>2. Numbers(fromCore', "answer", task[t].id) = Numbers(fromCore, "answer", task[t].id)
    BY <1>3, SendsFacts
  <2>3. OnTheirWay(t)' = OnTheirWay(t) /\ Expected(t)' = Expected(t)
    BY <2>2 DEF OnTheirWay, Expected
  <2>4. InTurn(t)'
    BY <2>1, <2>3 DEF InTurn
  <2> QED
    BY <1>3, <2>4 DEF Asks
<1> QED
  BY <1>1, <1>2, <1>3, TaskFacts

LEMMA FollowsSent ==
  ASSUME Types, NEW q \in Queues, Follows(q), NEW e \in Envelopes, e.type # q,
         fromCore' = Append(fromCore, e), pushed'[q] = pushed[q], UNCHANGED <<queue, poll, delivered>>,
         Lossless' => Lossless
  PROVE  Follows(q)'
<1>1. Numbers(fromCore', q, 0) = Numbers(fromCore, q, 0)
  BY SendsFacts
<1> QED
  BY <1>1 DEF Follows, Taken

LEMMA CoreAnswersKeeps ==
  ASSUME IInv, NEW r \in core, CoreAnswers(r)
  PROVE  IInv'
<1> USE DEF IInv
<1> DEFINE e == Answer(r.id, r.next)
           s == [r EXCEPT !.next = @ + 1]
<1>1. /\ up /\ fromCore' = Append(fromCore, e)
      /\ core' = (core \ {r}) \union (IF r.next < r.size THEN {s} ELSE {})
      /\ UNCHANGED <<up, pushed, attach, open, reading, closed, error, atEnd, pending, queue, poll, delivered,
                     task, requests, returned>>
  BY DEF CoreAnswers, reader, polls, calls
<1>2. /\ r \in Requests /\ r.id \in Nat /\ r.next \in Nat \ {0}
      /\ e \in Envelopes /\ e.type = "answer" /\ e.to = r.id /\ e.n = r.next
      /\ s \in Requests /\ s.id = r.id /\ s.next = r.next + 1
  <2>1. r \in Requests
    BY DEF Types
  <2> QED
    BY <2>1 DEF Requests, Answer, Envelopes
<1> HIDE DEF e, s
<1>3. /\ fromCore' \in Seq(Envelopes)
      /\ \A x \in DOMAIN fromCore' : fromCore'[x] = e \/ \E y \in DOMAIN fromCore : fromCore'[x] = fromCore[y]
      /\ \A to : to # r.id => Numbers(fromCore', "answer", to) = Numbers(fromCore, "answer", to)
      /\ Numbers(fromCore', "answer", r.id) = Numbers(fromCore, "answer", r.id) \union {r.next}
  BY <1>1, <1>2, SendsFacts
<1>4. core' \subseteq Requests
  BY <1>1, <1>2 DEF Types
<1>5. Types' /\ Owned' /\ Woken' /\ AnsweredInFull'
  BY <1>1, <1>3, <1>4 DEF Types, Owned, Woken, Heard, AnsweredInFull, Registered
<1>6. Lossless' /\ Lossless
  BY <1>1 DEF Lossless
<1>7. \A v \in core' : (v \in core /\ v # r /\ v.id # r.id) \/ v = s
  BY <1>1 DEF Coming
<1>8. Coming'
  <2>1. Ordered(fromCore')
    <3>1. Numbered(e) => \A n \in Numbers(fromCore, e.type, e.to) : n < e.n
      BY <1>2, SizesAssumption DEF Numbered, Coming
    <3> QED
      BY <1>1, <1>2, <3>1, AppendedOrder DEF Types, Coming
  <2>2. \A x \in DOMAIN fromCore' : /\ fromCore'[x].to <= requests'
                                    /\ fromCore'[x].type \in Queues => fromCore'[x].to = 0
    <3>1. e.to <= requests /\ e.type \notin Queues
      BY <1>2, SizesAssumption DEF Coming
    <3> QED
      BY <3>1, <1>1, <1>3 DEF Coming
  <2>3. ASSUME NEW v \in core'
        PROVE  /\ v.id <= requests'
               /\ v.id > 0 => \A n \in Numbers(fromCore', "answer", v.id) : n < v.next
    <3>1. CASE v \in core /\ v.id # r.id
      BY <3>1, <1>1, <1>3 DEF Coming
    <3>2. CASE v = s
      <4>1. v.id <= requests' /\ (v.id > 0 => \A n \in Numbers(fromCore, "answer", v.id) : n < r.next)
        BY <3>2, <1>1, <1>2 DEF Coming
      <4>2. Numbers(fromCore, "answer", v.id) \subseteq Nat
        BY NumbersAreNatural DEF Types
      <4> QED
        BY <3>2, <4>1, <4>2, <1>2, <1>3
    <3> QED
      BY <1>7, <3>1, <3>2
  <2>4. \A v, w \in core' : v.id = w.id => v = w
    BY <1>2, <1>7 DEF Coming
  <2> QED
    BY <2>1, <2>2, <2>3, <2>4 DEF Coming
<1>9. ASSUME NEW t \in Tasks
      PROVE  Asks(t)'
  <2>1. CASE task[t].pc = "idle" \/ task[t].id # r.id
    <3>1. CASE task[t].pc = "idle"
      BY <3>1, <1>1 DEF Asks
    <3>2. CASE task[t].id # r.id
      <4>1. \A v \in core' : v \in core \/ v.id # task[t].id
        BY <3>2, <1>2, <1>7
      <4> QED
        BY <3>2, <4>1, <1>1, <1>2, <1>6, AskSent DEF Asking
    <3> QED
      BY <2>1, <3>1, <3>2
  <2>2. CASE task[t].pc # "idle" /\ task[t].id = r.id
    <3>1. task[t].pc = "waiting" /\ InTurn(t)
      <4>1. task[t].pc # "sending"
        BY <2>2 DEF Asking, Asks, Unsent
      <4> QED
        BY <4>1, <2>2, TaskFacts DEF Asking, Asks
    <3>2. OnTheirWay(t)' = OnTheirWay(t) \union {r.next} /\ Expected(t)' = Expected(t)
      BY <1>1, <1>3, <2>2 DEF OnTheirWay, Expected
    <3>3. ASSUME OnlyAnswers(pending[task[t].id])
          PROVE  /\ GoesOn(OnTheirWay(t)', Expected(t))
                 /\ \A v \in core' : v.id = task[t].id =>
                      v.next = Expected(t) \/ v.next - 1 \in OnTheirWay(t)'
      <4>1. GoesOn(OnTheirWay(t), Expected(t)) /\ (r.next = Expected(t) \/ r.next - 1 \in OnTheirWay(t))
        BY <3>1, <3>3, <1>6, <2>2 DEF InTurn
      <4>2. GoesOn(OnTheirWay(t)', Expected(t))
        BY <3>2, <4>1 DEF GoesOn
      <4>3. \A v \in core' : v.id = task[t].id => v.next - 1 = r.next
        BY <1>2, <1>7, <2>2
      <4> QED
        BY <3>2, <4>2, <4>3
    <3>4. InTurn(t)'
      BY <1>1, <3>1, <3>2, <3>3 DEF InTurn
    <3> QED
      BY <1>1, <3>1, <3>4 DEF Asks
  <2> QED
    BY <2>1, <2>2
<1>10. ASSUME NEW q \in Queues
       PROVE  Follows(q)'
  <2>1. e.type # q
    BY <1>2, SizesAssumption
  <2> QED
    BY <2>1, <1>1, <1>2, <1>6, FollowsSent DEF Pushes
<1> QED
  BY <1>5, <1>8, <1>9, <1>10 DEF Asking, Pushes

LEMMA CoreRefusesKeeps ==
  ASSUME IInv, NEW r \in core, CoreRefuses(r)
  PROVE  IInv'
<1> USE DEF IInv
<1> DEFINE e == Refusal(r.id)
<1>1. /\ up /\ fromCore' = Append(fromCore, e) /\ core' = core \ {r}
      /\ UNCHANGED <<up, pushed, attach, open, reading, closed, error, atEnd, pending, queue, poll, delivered,
                     task, requests, returned>>
  BY DEF CoreRefuses, reader, polls, calls
<1>2. /\ r.id \in Nat /\ e \in Envelopes /\ e.type = "error" /\ e.to = r.id
  BY DEF Types, Requests, Refusal, Envelopes
<1> HIDE DEF e
<1>3. /\ fromCore' \in Seq(Envelopes)
      /\ \A x \in DOMAIN fromCore' : fromCore'[x] = e \/ \E y \in DOMAIN fromCore : fromCore'[x] = fromCore[y]
      /\ \A to : Numbers(fromCore', "answer", to) = Numbers(fromCore, "answer", to)
  BY <1>1, <1>2, SendsFacts
<1>4. Types' /\ Owned' /\ Woken' /\ AnsweredInFull'
  BY <1>1, <1>3 DEF Types, Owned, Woken, Heard, AnsweredInFull, Registered
<1>5. Lossless' <=> Lossless
  BY <1>1 DEF Lossless
<1>6. Coming'
  <2>1. e.to <= requests /\ e.type \notin Queues
    BY <1>2, SizesAssumption DEF Coming
  <2>2. Ordered(fromCore')
    <3>1. ~Numbered(e)
      BY <1>2, <2>1 DEF Numbered
    <3> QED
      BY <1>1, <1>2, <3>1, AppendedOrder DEF Types, Coming
  <2> QED
    BY <2>1, <2>2, <1>1, <1>3 DEF Coming
<1>7. ASSUME NEW t \in Tasks
      PROVE  Asks(t)'
  <2>1. task[t].pc = "sending" => e.to # task[t].id
    BY <1>2 DEF Asking, Asks, Unsent
  <2>2. task[t].pc # "idle" => e.to # task[t].id \/ (task[t].pc = "waiting" /\ e.type # "answer")
    BY <2>1, <1>2, TaskFacts
  <2> QED
    BY <2>2, <1>1, <1>2, <1>5, AskSent DEF Asking
<1>8. ASSUME NEW q \in Queues
      PROVE  Follows(q)'
  <2>1. e.type # q
    BY <1>2, SizesAssumption
  <2> QED
    BY <2>1, <1>1, <1>2, <1>5, FollowsSent DEF Pushes
<1> QED
  BY <1>4, <1>6, <1>7, <1>8 DEF Asking, Pushes

LEMMA CorePushesKeeps ==
  ASSUME IInv, NEW q \in Queues, CorePushes(q)
  PROVE  IInv'
<1> USE DEF IInv
<1> DEFINE k == pushed[q] + 1
           e == Push(q, k)
<1>1. /\ up /\ fromCore' = Append(fromCore, e) /\ pushed' = [pushed EXCEPT ![q] = k]
      /\ UNCHANGED <<up, core, attach, open, reading, closed, error, atEnd, pending, queue, poll, delivered,
                     task, requests, returned>>
  BY DEF CorePushes, reader, polls, calls
<1>2. /\ k \in Nat /\ pushed[q] \in Nat /\ q \notin {"answer", "error", "closed"}
      /\ e \in Envelopes /\ e.type = q /\ e.to = 0 /\ e.n = k
  <2>1. pushed[q] \in Nat /\ k \in Nat
    BY DEF Types
  <2> HIDE DEF k
  <2> QED
    BY <2>1, SizesAssumption DEF Push, Envelopes
<1> HIDE DEF e
<1>3. /\ fromCore' \in Seq(Envelopes)
      /\ \A x \in DOMAIN fromCore' : fromCore'[x] = e \/ \E y \in DOMAIN fromCore : fromCore'[x] = fromCore[y]
      /\ \A to : Numbers(fromCore', "answer", to) = Numbers(fromCore, "answer", to)
      /\ Numbers(fromCore', q, 0) = Numbers(fromCore, q, 0) \union {k}
  BY <1>1, <1>2, SendsFacts
<1>4. /\ pushed' \in [Queues -> Nat] /\ pushed'[q] = k
      /\ \A p \in Queues \ {q} : pushed'[p] = pushed[p]
  BY <1>1, <1>2 DEF Types
<1>5. Types' /\ Owned' /\ Woken' /\ AnsweredInFull'
  BY <1>1, <1>3, <1>4 DEF Types, Owned, Woken, Heard, AnsweredInFull, Registered
<1>6. Lossless' /\ Lossless
  BY <1>1 DEF Lossless
<1>7. Follows(q)
  BY DEF Pushes
<1>8. Coming'
  <2>1. \A n \in Numbers(fromCore, e.type, e.to) : n < e.n
    <3>1. Numbers(fromCore, q, 0) \subseteq Nat /\ \A n \in Numbers(fromCore, q, 0) : n <= pushed[q]
      BY <1>7, NumbersAreNatural DEF Follows, Types
    <3> QED
      BY <3>1, <1>2
  <2>2. Ordered(fromCore')
    BY <1>1, <1>2, <2>1, AppendedOrder DEF Types, Coming
  <2>3. e.to <= requests
    BY <1>2 DEF Types
  <2> QED
    BY <2>2, <2>3, <1>1, <1>2, <1>3 DEF Coming
<1>9. ASSUME NEW t \in Tasks
      PROVE  Asks(t)'
  <2>1. task[t].pc # "idle" => e.to # task[t].id
    BY <1>2, TaskFacts
  <2> QED
    BY <2>1, <1>1, <1>2, <1>6, AskSent DEF Asking
<1>10. Follows(q)'
  <2> DEFINE l == Len(Taken(q))
             old == Numbers(fromCore, q, 0)
             new == Numbers(fromCore', q, 0)
  <2>1. /\ l <= pushed[q] /\ l \in Nat /\ old = l + 1 .. pushed[q] /\ GoesOn(old, l + 1)
        /\ new = old \union {k} /\ k = pushed[q] + 1
    BY <1>3, <1>6, <1>7, QueueFacts DEF Follows
  <2>2. Taken(q)' = Taken(q)
    BY <1>1 DEF Taken
  <2> HIDE DEF l, old, new, k
  <2>3. new = l + 1 .. k /\ l <= k /\ \A n \in new : n <= k
    BY <2>1, <1>2
  <2>4. GoesOn(new, l + 1)
    BY <2>1, <2>3, <1>2 DEF GoesOn
  <2>5. /\ \A n \in DOMAIN Taken(q) : Taken(q)[n] = n
        /\ poll[q].pc # "taken" => poll[q].held = <<>>
    BY <1>7 DEF Follows
  <2> QED
    BY <2>2, <2>3, <2>4, <2>5, <1>1, <1>4, <1>6 DEF Follows, l, new
<1>11. ASSUME NEW p \in Queues \ {q}
       PROVE  Follows(p)'
  BY <1>1, <1>2, <1>4, <1>6, FollowsSent DEF Pushes
<1> QED
  BY <1>5, <1>8, <1>9, <1>10, <1>11 DEF Asking, Pushes

LEMMA ConnectionDropsKeeps ==
  ASSUME IInv, ConnectionDrops
  PROVE  IInv'
<1> USE DEF IInv
<1>1. PICK k \in 0 .. Len(fromCore) : fromCore' = SubSeq(fromCore, 1, k)
  BY DEF ConnectionDrops
<1>2. /\ up /\ up' = FALSE
      /\ UNCHANGED <<core, pushed, attach, open, reading, closed, error, atEnd, pending, queue, poll,
                     delivered, task, requests, returned>>
  BY DEF ConnectionDrops, reader, polls, calls
<1>3. fromCore \in Seq(Envelopes) /\ Ordered(fromCore)
  BY DEF Types, Coming
<1>4. /\ fromCore' \in Seq(Envelopes) /\ Ordered(fromCore')
      /\ \A x \in DOMAIN fromCore' : x \in DOMAIN fromCore /\ fromCore'[x] = fromCore[x]
  <2>1. /\ fromCore' \in Seq(Envelopes) /\ DOMAIN fromCore' = 1 .. k
        /\ DOMAIN fromCore = 1 .. Len(fromCore) /\ Len(fromCore) \in Nat
        /\ \A x \in 1 .. k : fromCore'[x] = fromCore[x]
    BY <1>1, <1>3, PrefixFacts
  <2> QED
    BY <2>1, <1>1, <1>3, CutOrder
<1>5. ~Lossless'
  BY <1>2 DEF Lossless, Types
<1>6. Types' /\ Owned' /\ Woken' /\ AnsweredInFull'
  BY <1>2, <1>4 DEF Types, Owned, Woken, Heard, AnsweredInFull, Registered
<1>7. \A to : to > 0 => Numbers(fromCore', "answer", to) \subseteq Numbers(fromCore, "answer", to)
  BY <1>1, <1>3, CutNumbers
<1>8. Coming'
  BY <1>2, <1>4, <1>7 DEF Coming
<1>9. ASSUME NEW t \in Tasks
      PROVE  Asks(t)'
  <2>1. CASE task[t].pc = "idle"
    BY <2>1, <1>2 DEF Asks
  <2>2. CASE task[t].pc = "sending"
    <3>1. Unsent(t)
      BY <2>2 DEF Asking, Asks
    <3>2. Unsent(t)'
      BY <3>1, <1>2, <1>4 DEF Unsent
    <3> QED
      BY <2>2, <3>2, <1>2 DEF Asks
  <2>3. CASE task[t].pc = "waiting"
    <3>1. InTurn(t) /\ task[t].id > 0
      BY <2>3, TaskFacts DEF Asking, Asks
    <3>2. ASSUME OnlyAnswers(pending[task[t].id])
          PROVE  GoesOn(Numbers(fromCore', "answer", task[t].id), Expected(t))
      <4>1. GoesOn(Numbers(fromCore, "answer", task[t].id), Expected(t))
        BY <3>1, <3>2 DEF InTurn, OnTheirWay
      <4> QED
        BY <4>1, <3>1, <1>1, <1>3, GoesOnCut
    <3>3. InTurn(t)'
      BY <3>1, <3>2, <1>2, <1>5 DEF InTurn, OnTheirWay, Expected
    <3> QED
      BY <2>3, <3>3, <1>2 DEF Asks
  <2> QED
    BY <2>1, <2>2, <2>3, TaskFacts
<1>10. ASSUME NEW q \in Queues
       PROVE  Follows(q)'
  <2>1. Follows(q)
    BY DEF Pushes
  <2>2. Taken(q)' = Taken(q)
    BY <1>2 DEF Taken
  <2>3. GoesOn(Numbers(fromCore', q, 0), Len(Taken(q)) + 1)
    BY <2>1, <1>1, <1>3, GoesOnCut DEF Follows
  <2>4. Numbers(fromCore', q, 0) \subseteq Numbers(fromCore, q, 0)
    BY <1>1, <1>3, CutNumbers
  <2> QED
    BY <2>1, <2>2, <2>3, <2>4, <1>2, <1>5 DEF Follows
<1> QED
  BY <1>6, <1>8, <1>9, <1>10 DEF Asking, Pushes

-----------------------------------------------------------------------------
(* The theorems *)

LEMMA InitInv == Init => IInv
<1> SUFFICES ASSUME Init
             PROVE  IInv
  OBVIOUS
<1>1. /\ fromCore = <<>> /\ DOMAIN fromCore = {} /\ fromCore \in Seq(Envelopes)
      /\ pending = <<>> /\ Registered = {} /\ pending \in [{} -> Seq(Envelopes)]
      /\ <<>> \in Seq(Nat)
  BY DEF Init, Registered
<1>2. /\ Idle \in TaskRecords /\ Idle.pc = "idle" /\ NotPolling \in Polls /\ NotPolling.held = <<>>
  BY IdleFacts
<1>3. \A type, to : Numbers(fromCore, type, to) = {}
  BY <1>1, InNumbers
<1>4. Types /\ Owned
  <2>1. requests = 0 /\ atEnd = 0
    BY DEF Init
  <2>2. requests \in Nat /\ atEnd \in Nat /\ atEnd <= requests
    BY <2>1
  <2> QED
    BY <1>1, <1>2, <2>2 DEF Init, Types, Owned
<1>5. Coming
  BY <1>1 DEF Init, Coming, Ordered
<1>6. Asking
  BY <1>2 DEF Init, Asking, Asks
<1>7. ASSUME NEW q \in Queues
      PROVE  Follows(q)
  <2>1. Taken(q) = <<>> /\ pushed[q] = 0 /\ poll[q].held = <<>>
    <3>1. <<>> \o <<>> \o <<>> = <<>>
      OBVIOUS
    <3> QED
      BY <3>1, <1>2 DEF Init, Taken
  <2>2. Len(Taken(q)) = 0 /\ \A n \in DOMAIN Taken(q) : FALSE
    BY <2>1
  <2>3. Len(Taken(q)) + 1 .. pushed[q] = {}
    BY <2>1, <2>2
  <2> QED
    BY <2>1, <2>2, <2>3, <1>3 DEF Follows, GoesOn
<1>8. Woken /\ AnsweredInFull
  BY DEF Init, Woken, AnsweredInFull
<1> QED
  BY <1>4, <1>5, <1>6, <1>7, <1>8 DEF IInv, Pushes

LEMMA StepInv == IInv /\ [Next]_vars => IInv'
<1> SUFFICES ASSUME IInv, [Next]_vars
             PROVE  IInv'
  OBVIOUS
<1>1. CASE Handshake \/ CloseStarts
  BY <1>1, HandshakeKeeps, AttachesKeeps DEF Handshake
<1>2. ASSUME NEW t \in Tasks, RequestStep(t)
      PROVE  IInv'
  BY <1>2, RequestStartsKeeps, SentKeeps, ReceivesKeeps, GivesUpKeeps DEF RequestStep
<1>3. ASSUME NEW q \in Queues, PollStep(q)
      PROVE  IInv'
  BY <1>3, PollStepKeeps
<1>4. CASE ReaderStep \/ CloseEnds
  BY <1>4, ReadsAnswerKeeps, ReadsPushKeeps, ReadsUnexpectedKeeps, ReaderEndsKeeps, CloseEndsKeeps
     DEF ReaderStep
<1>5. CASE CoreStep
  BY <1>5, CoreAnswersKeeps, CoreRefusesKeeps, CorePushesKeeps, ConnectionDropsKeeps DEF CoreStep
<1>6. CASE UNCHANGED vars
  <2>1. /\ UNCHANGED <<fromCore, core, pushed, up, attach, open, closed, error, atEnd, reading, pending,
                       polls, calls>>
        /\ Lossless' <=> Lossless
    BY <1>6 DEF vars, connection, reader, Lossless
  <2>2. Types'
    BY <2>1 DEF IInv, Types, Registered, polls, calls
  <2> QED
    BY <2>1, <2>2, HandshakeKept
<1> QED
  BY <1>1, <1>2, <1>3, <1>4, <1>5, <1>6 DEF Next

\* Requests and their tasks, the streams on their way and what was taken of them, the end of
\* the connection and those who wait agree in every reachable state.
THEOREM InvariantHolds == Spec => []IInv
BY InitInv, StepInv, PTL DEF Spec

\* The type invariant: a request is registered as long as its task makes it, and no two
\* tasks share one.
THEOREM TypeCorrect == Spec => []TypeOK
<1>1. IInv => TypeOK
  BY TaskFacts DEF IInv, Types, Owned, TypeOK
<1> QED
  BY <1>1, InvariantHolds, PTL

\* A request returns Core's answers to it, all of them, once and in their order
\* (_request_one, resume), however many tasks share the connection and give up.
THEOREM RequestsAreAnsweredInFull == Spec => []AnsweredInFull
<1>1. IInv => AnsweredInFull
  BY DEF IInv
<1> QED
  BY <1>1, InvariantHolds, PTL

\* A push the reader took is in the queue, in the hand of the poll or delivered, once and
\* in the order of Core (_queue_or_closed), for every number of pushes.
THEOREM PushesAreKept == Spec => []NothingTakenIsLost
<1>1. IInv => NothingTakenIsLost
  <2> SUFFICES ASSUME IInv, NEW q \in Queues
               PROVE  /\ \A n \in DOMAIN Taken(q) : Taken(q)[n] = n
                      /\ up => InFlight(q) = Len(Taken(q)) + 1 .. pushed[q]
    BY DEF NothingTakenIsLost, Taken
  <2>1. Follows(q)
    BY DEF IInv, Pushes
  <2>2. InFlight(q) = Numbers(fromCore, q, 0)
    <3>1. \A x \in DOMAIN fromCore : fromCore[x].type = q => fromCore[x].to = 0
      BY DEF IInv, Coming
    <3> QED
      BY <3>1 DEF InFlight, Numbers
  <2> QED
    BY <2>1, <2>2 DEF Follows, Lossless
<1> QED
  BY <1>1, InvariantHolds, PTL

\* After the end of the connection, however it came, every request made before it has the
\* sentinel in its queue (_read_loop's finally, close); one made later does not wait, unless
\* the reader ended with a protocol error.
THEOREM EveryRequestIsWoken == Spec => []EndWakesEveryRequest
<1>1. IInv => EndWakesEveryRequest
  <2> SUFFICES ASSUME IInv, closed, NEW t \in Tasks,
                      task[t].pc = "waiting", pending[task[t].id] = <<>>
               PROVE  error = "protocol" /\ task[t].id > atEnd
    BY DEF EndWakesEveryRequest
  <2>1. ~(task[t].id <= atEnd) /\ error = "protocol"
    BY DEF IInv, Woken, Heard, Told
  <2> QED
    BY <2>1, TaskFacts DEF IInv, Types
<1> QED
  BY <1>1, InvariantHolds, PTL
=============================================================================
