------------------------- MODULE RuntimeWorkerProofs -------------------------
(***************************************************************************)
(* What RuntimeWorker keeps for every set of attempts, every capacity and  *)
(* every number of Events, losses, switches and starts; and that it        *)
(* implements AttemptDelivery.                                             *)
(***************************************************************************)
EXTENDS RuntimeWorker, FiniteSetTheorems, TLAPS

-----------------------------------------------------------------------------
(* The inductive invariant *)

\* Core has accepted the worker; what it does with the attempt since.
Accepted == {"leased", "canceling", "revoked"} \union Done
\* ... and takes no new acknowledgement and gives no new permission.
Closed == {"canceling", "revoked"} \union Done

Handlers == {"none", "running", "returned", "ended"}
Local == [ours : BOOLEAN, active : BOOLEAN, handler : Handlers, cancelled : BOOLEAN,
          expired : BOOLEAN, terminal : BOOLEAN, allowed : BOOLEAN,
          finalizing : BOOLEAN, cancel : {"none", "queued", "lock", "wait", "stopped"}]
Nets == {"none", "sent", "ok", "refused"}
ClaimPcs == {"idle", "call", "revoke"} \union AssignmentCalls
Uploads == {"event", "result", "replay"}
FlushPcs == {"idle", "next", "revoke"} \union Uploads
DecisionsOrNone == {"none", "continue_execution", "upload_spool_only",
                    "result_already_acked", "lease_revoked"}
ClaimRecords == [pc : ClaimPcs, a : Attempts \union {NoAttempt}, net : Nets, unrouted : BOOLEAN]
FlushRecords == [pc : FlushPcs, a : Attempts \union {NoAttempt}, net : Nets, n : Nat,
                 left : SUBSET Attempts]
ResumeRecords == [pc : {"idle", "call", "apply"}, net : Nets, reconnect : BOOLEAN,
                  left : SUBSET Attempts, at : Attempts \union {NoAttempt}, snap : [Attempts -> Records],
                  decision : [Attempts -> DecisionsOrNone]]
Ups == {"down", "starting", "running", "draining"}
Budgets == [losses : Nat, switches : Nat, starts : Nat]

Types ==
  /\ core \in [Attempts -> CoreStates]
  /\ record \in [Attempts -> Records]
  /\ events \in [Attempts -> 0 .. MaxEvents]
  /\ local \in [Attempts -> Local]
  /\ claim \in ClaimRecords /\ flush \in FlushRecords /\ resume \in ResumeRecords
  /\ up \in Ups
  /\ runs \in [Attempts -> Nat]
  /\ budget \in Budgets

\* A process that is down has no tasks.
DownIsEmpty ==
  up = "down" =>
    /\ local = [a \in Attempts |-> NoLocal]
    /\ claim = NoCall /\ flush = NoFlush /\ resume = NoResume

\* The claim loop: what its call is about, and what the answer to it says of Core.
ClaimOK ==
  /\ claim.net = "none" <=> claim.pc \in {"idle", "revoke"}
  /\ claim.pc \in AssignmentCalls \union {"revoke"} => claim.a \in Attempts
  /\ claim.pc = "call" =>
       /\ claim.net # "refused"
       /\ claim.net = "ok" => claim.a \in Attempts /\ local[claim.a].ours
  /\ claim.a \in Attempts => core[claim.a] # "idle"
  /\ claim.pc = "reject" =>
       /\ record[claim.a] \in {"reject_sent", "absent"}
       /\ local[claim.a].terminal \/ record[claim.a] = "reject_sent"
  /\ claim.pc \in {"ack", "reack"} =>
       /\ claim.net = "ok" => core[claim.a] \in Accepted
       /\ claim.net = "refused" => core[claim.a] \in Closed \union {"rejected"}

\* The spool loop: what it sends is there, and goes on being there.
FlushOK ==
  /\ flush.net # "none" <=> flush.pc \in Uploads
  /\ flush.pc \in Uploads \union {"revoke"} => flush.a \in Attempts
  /\ flush.pc \in Uploads => core[flush.a] \in Accepted
  /\ flush.pc = "event" => flush.n > 0 /\ flush.n <= events[flush.a]
  /\ flush.pc \in {"result", "replay"} => record[flush.a] = "finished" /\ events[flush.a] = 0
  /\ flush.net = "refused" => core[flush.a] \in Closed
  /\ flush.pc = "result" /\ flush.net = "ok" => core[flush.a] \in Done

\* A resume: nothing is claimed meanwhile, and a decision stays true.
ResumeOK ==
  /\ resume.pc = "idle" => resume = NoResume
  /\ resume.pc # "idle" => claim.pc # "call"
  /\ resume.pc # "idle" /\ ~resume.reconnect => up = "starting"
  /\ \A a \in resume.left : core[a] # "idle"
  /\ \A a \in Attempts :
       /\ resume.decision[a] \in {"continue_execution", "upload_spool_only"} => core[a] \in Accepted
       /\ resume.decision[a] = "result_already_acked" => core[a] \in Done
       /\ resume.decision[a] = "lease_revoked" => core[a] \in {"revoked", "rejected"}
       /\ resume.snap[a] = "result_acked" => record[a] \in {"result_acked", "absent"}

\* The journal and Core.
RecordOK(a) ==
  /\ record[a] # "absent" => core[a] # "idle"
  /\ record[a] = "confirmed" => core[a] \in Accepted /\ runs[a] = 0
  /\ record[a] \in {"started", "finished"} => runs[a] = 1
  /\ runs[a] <= 1
  /\ runs[a] = 1 => core[a] \in Accepted
  /\ core[a] \in Done => runs[a] = 1 /\ record[a] # "started" /\ events[a] = 0

\* An attempt whose handler was started and whose record is gone: nothing that is under
\* way starts it again, and Core has no reason to offer it to this process.
SpentOK(a) ==
  runs[a] = 1 /\ record[a] \notin {"started", "finished"} =>
    /\ \/ core[a] \in Closed
       \/ /\ core[a] = "leased" /\ record[a] \in FinalRecords \union {"absent"}
          /\ local[a].terminal \/ ~local[a].ours
    /\ record[a] = "ack_sent" =>
         /\ ~(claim.pc = "ack" /\ claim.net = "ok" /\ claim.a = a)
         /\ resume.decision[a] # "continue_execution"

Live(a) == local[a].handler \in {"running", "returned"}

\* What the process keeps of an attempt, against its record and Core.
LocalOK(a) ==
  /\ local[a].active => record[a] \in {"started", "finished"}
  /\ Live(a) =>
       /\ local[a].active \/ local[a].cancelled
       /\ local[a].cancelled \/ record[a] = "started"
       /\ local[a].terminal => local[a].cancelled
  /\ local[a].finalizing \/ local[a].cancel \notin {"none", "queued"} => local[a].terminal
  /\ local[a].finalizing /\ record[a] = "finished" => core[a] \in Closed \/ local[a].expired
  /\ local[a].allowed => core[a] \in Accepted
  /\ local[a].cancel # "none" => core[a] \in Closed

AttemptsOK == \A a \in Attempts : RecordOK(a) /\ SpentOK(a) /\ LocalOK(a)

\* What the store has not refused.
NoRefusal == fatal \notin {"Result of no started assignment", "rejected assignment is gone"}

IInv == /\ Types /\ DownIsEmpty /\ ClaimOK /\ FlushOK /\ ResumeOK /\ AttemptsOK
        /\ NoRefusal

-----------------------------------------------------------------------------
(* Types of the parts *)

\* What is true of a process that is down is true of nothing under way.
LEMMA NothingType ==
  RuntimeWorkerAssumption =>
    NoLocal \in Local /\ NoCall \in ClaimRecords /\ NoFlush \in FlushRecords /\ NoResume \in ResumeRecords
<1>1. NoLocal \in Local
  BY DEF NoLocal, Local, Handlers
<1>2. NoCall \in ClaimRecords
  BY DEF NoCall, ClaimRecords, ClaimPcs, Nets
<1>3. NoFlush \in FlushRecords
  BY DEF NoFlush, FlushRecords, FlushPcs, Nets
<1>4. NoResume \in ResumeRecords
  <2>1. [a \in Attempts |-> "absent"] \in [Attempts -> Records]
    BY DEF Records
  <2>2. [a \in Attempts |-> "none"] \in [Attempts -> DecisionsOrNone]
    BY DEF DecisionsOrNone
  <2>3. QED
    BY <2>1, <2>2 DEF NoResume, ResumeRecords, Nets
<1>5. QED
  BY <1>1, <1>2, <1>3, <1>4

\* The fields of the record of a claim, an upload, a resume and an attempt.
LEMMA FieldTypes ==
  ASSUME Types
  PROVE  /\ claim.pc \in ClaimPcs /\ claim.a \in Attempts \union {NoAttempt}
         /\ claim.net \in Nets /\ claim.unrouted \in BOOLEAN
         /\ flush.pc \in FlushPcs /\ flush.a \in Attempts \union {NoAttempt}
         /\ flush.net \in Nets /\ flush.n \in Nat /\ flush.left \subseteq Attempts
         /\ resume.pc \in {"idle", "call", "apply"} /\ resume.net \in Nets
         /\ resume.reconnect \in BOOLEAN /\ resume.left \subseteq Attempts
         /\ resume.snap \in [Attempts -> Records]
         /\ resume.decision \in [Attempts -> DecisionsOrNone]
  BY DEF Types, ClaimRecords, FlushRecords, ResumeRecords

LEMMA LocalTypes ==
  ASSUME NEW l \in Local
  PROVE  /\ l.ours \in BOOLEAN /\ l.active \in BOOLEAN /\ l.handler \in Handlers
         /\ l.cancelled \in BOOLEAN /\ l.expired \in BOOLEAN /\ l.terminal \in BOOLEAN
         /\ l.allowed \in BOOLEAN /\ l.finalizing \in BOOLEAN
         /\ l.cancel \in {"none", "queued", "lock", "wait", "stopped"}
  BY DEF Local

\* Revoke and Forget on the fields of what the process keeps of an attempt.
LEMMA RevokeFields ==
  ASSUME NEW l \in Local
  PROVE  /\ Revoke(l) \in Local
         /\ Revoke(l).ours = l.ours /\ Revoke(l).active = l.active
         /\ Revoke(l).handler = l.handler /\ Revoke(l).cancelled = (l.cancelled \/ l.active)
         /\ Revoke(l).expired = l.expired /\ Revoke(l).terminal
         /\ Revoke(l).allowed = l.allowed /\ Revoke(l).finalizing /\ Revoke(l).cancel = l.cancel
  BY DEF Local, Revoke

LEMMA ForgetFields ==
  ASSUME NEW l \in Local
  PROVE  /\ Forget(l) \in Local
         /\ Forget(l).ours = l.ours /\ ~Forget(l).active
         /\ Forget(l).handler = l.handler /\ Forget(l).cancelled = l.cancelled
         /\ ~Forget(l).expired /\ Forget(l).terminal = l.terminal
         /\ ~Forget(l).allowed /\ Forget(l).finalizing = l.finalizing
         /\ Forget(l).cancel = l.cancel
  BY DEF Local, Forget

\* One attempt changes.
LEMMA SetLocalFields ==
  ASSUME NEW a \in Attempts, NEW l \in Local, local \in [Attempts -> Local], SetLocal(a, l)
  PROVE  /\ local' \in [Attempts -> Local] /\ local'[a] = l
         /\ \A b \in Attempts : b # a => local'[b] = local[b]
  BY DEF SetLocal

-----------------------------------------------------------------------------
(* Steps that change one variable *)

\* A step of the spool loop alone.
LEMMA FlushOnly ==
  ASSUME IInv, up # "down", flush' \in FlushRecords, FlushOK', budget' \in Budgets,
         UNCHANGED <<core, durable, local, claim, resume, up, fatal, runs>>
  PROVE  IInv'
<1> USE DEF IInv, durable
<1>1. Types'
  BY DEF Types
<1>2. DownIsEmpty'
  BY DEF DownIsEmpty
<1>3. ClaimOK'
  BY DEF ClaimOK
<1>4. ResumeOK'
  BY DEF ResumeOK
<1>5. AttemptsOK'
  BY DEF AttemptsOK, RecordOK, SpentOK, LocalOK, Live
<1>6. NoRefusal'
  BY DEF NoRefusal
<1>7. QED
  BY <1>1, <1>2, <1>3, <1>4, <1>5, <1>6

\* A step of the claim loop alone that is not Core's answer.
LEMMA ClaimOnly ==
  ASSUME IInv, up # "down", claim' \in ClaimRecords, ClaimOK', budget' \in Budgets,
         claim'.pc = "call" => claim.pc = "call" \/ resume.pc = "idle",
         ~(claim'.pc = "ack" /\ claim'.net = "ok"),
         UNCHANGED <<core, durable, local, flush, resume, up, fatal, runs>>
  PROVE  IInv'
<1> USE DEF IInv, durable
<1>1. Types'
  BY DEF Types
<1>2. DownIsEmpty'
  BY DEF DownIsEmpty
<1>3. FlushOK'
  BY DEF FlushOK
<1>4. ResumeOK'
  BY DEF ResumeOK
<1>5. AttemptsOK'
  BY DEF AttemptsOK, RecordOK, SpentOK, LocalOK, Live
<1>6. NoRefusal'
  BY DEF NoRefusal
<1>7. QED
  BY <1>1, <1>2, <1>3, <1>4, <1>5, <1>6

\* A step of one attempt of the process alone.
LEMMA LocalOnly ==
  ASSUME IInv, up # "down", NEW a \in Attempts, NEW l \in Local, SetLocal(a, l),
         l.ours = local[a].ours, local[a].terminal => l.terminal, LocalOK(a)',
         budget' \in Budgets,
         UNCHANGED <<core, durable, claim, flush, resume, up, fatal, runs>>
  PROVE  IInv'
<1> USE DEF IInv, durable
<1>0. /\ local' \in [Attempts -> Local] /\ local'[a] = l
      /\ \A b \in Attempts : b # a => local'[b] = local[b]
  BY SetLocalFields DEF Types
<1>1. Types'
  BY <1>0 DEF Types
<1>2. DownIsEmpty'
  BY DEF DownIsEmpty
<1>3. ClaimOK'
  BY <1>0, FieldTypes DEF ClaimOK, AssignmentCalls
<1>4. FlushOK' /\ ResumeOK'
  BY DEF FlushOK, ResumeOK
<1>5. AttemptsOK'
  <2> SUFFICES ASSUME NEW b \in Attempts
               PROVE  RecordOK(b)' /\ SpentOK(b)' /\ LocalOK(b)'
    BY DEF AttemptsOK
  <2>1. RecordOK(b)'
    BY DEF AttemptsOK, RecordOK
  <2>2. SpentOK(b)'
    BY <1>0 DEF AttemptsOK, SpentOK
  <2>3. LocalOK(b)'
    BY <1>0 DEF AttemptsOK, LocalOK, Live
  <2>4. QED
    BY <2>1, <2>2, <2>3
<1>6. NoRefusal'
  BY DEF NoRefusal
<1>7. QED
  BY <1>1, <1>2, <1>3, <1>4, <1>5, <1>6

\* The process ends and nothing else changes.
LEMMA ProcessEnds ==
  ASSUME IInv, RuntimeWorkerAssumption, NEW cause, ReportFatal(cause), budget' \in Budgets,
         cause \notin {"Result of no started assignment", "rejected assignment is gone"},
         UNCHANGED <<core, events, runs>>,
         record' \in [Attempts -> Records], \A a \in Attempts : RecordOK(a)' /\ SpentOK(a)'
  PROVE  IInv'
<1> USE DEF IInv, ReportFatal
<1>0. \A a \in Attempts : local'[a] = NoLocal
  OBVIOUS
<1>1. Types'
  BY NothingType DEF Types, Ups
<1>2. DownIsEmpty'
  BY DEF DownIsEmpty
<1>3. ClaimOK' /\ FlushOK'
  BY DEF ClaimOK, FlushOK, NoCall, NoFlush, AssignmentCalls, Uploads, RuntimeWorkerAssumption
<1>4. ResumeOK'
  BY DEF ResumeOK, NoResume
<1>5. AttemptsOK'
  BY <1>0 DEF AttemptsOK, LocalOK, Live, NoLocal
<1>6. NoRefusal'
  BY DEF NoRefusal
<1>7. QED
  BY <1>1, <1>2, <1>3, <1>4, <1>5, <1>6

\* ... when the record of an attempt does not change either.
LEMMA ProcessEndsAlone ==
  ASSUME IInv, RuntimeWorkerAssumption, NEW cause, ReportFatal(cause), budget' \in Budgets,
         cause \notin {"Result of no started assignment", "rejected assignment is gone"},
         UNCHANGED <<core, record, events, runs>>
  PROVE  IInv'
<1>1. \A a \in Attempts : RecordOK(a)'
  BY DEF IInv, AttemptsOK, RecordOK
<1>2. \A a \in Attempts : SpentOK(a)'
  BY DEF IInv, AttemptsOK, SpentOK, ReportFatal, NoLocal, NoCall, NoResume
<1>3. record' \in [Attempts -> Records]
  BY DEF IInv, Types
<1>4. QED
  BY <1>1, <1>2, <1>3, ProcessEnds

LEMMA LostType == ASSUME Types, Lost PROVE budget' \in Budgets
  BY DEF Types, Lost, Budgets

-----------------------------------------------------------------------------
(* The steps of the handler, its lease and the commands *)

LEMMA NotDown ==
  ASSUME IInv, NEW a \in Attempts,
         \/ local[a].active \/ local[a].finalizing \/ local[a].handler # "none"
         \/ local[a].cancel # "none"
  PROVE  up # "down"
  BY DEF IInv, DownIsEmpty, NoLocal

\* _revoke_attempt of an attempt that is over at Core.
LEMMA RevokeKeeps ==
  ASSUME IInv, NEW a \in Attempts, SetLocal(a, Revoke(local[a])), UNCHANGED <<core, record>>,
         record[a] = "finished" => core[a] \in Closed
  PROVE  /\ Revoke(local[a]) \in Local /\ Revoke(local[a]).ours = local[a].ours
         /\ Revoke(local[a]).terminal
         /\ LocalOK(a)'
<1> DEFINE l == Revoke(local[a])
<1>1. local[a] \in Local
  BY DEF IInv, Types
<1>2. /\ l \in Local /\ l.ours = local[a].ours /\ l.active = local[a].active
      /\ l.cancelled = (local[a].cancelled \/ local[a].active) /\ l.expired = local[a].expired
      /\ l.terminal /\ l.allowed = local[a].allowed /\ l.finalizing
      /\ l.cancel = local[a].cancel /\ l.handler = local[a].handler
  BY <1>1, RevokeFields
<1>3. SetLocal(a, l)
  OBVIOUS
<1> HIDE DEF l
<1>4. local'[a] = l
  BY <1>2, <1>3, SetLocalFields DEF IInv, Types
<1>5. LocalOK(a)'
  BY <1>2, <1>4 DEF IInv, AttemptsOK, LocalOK, Live
<1>6. QED
  BY <1>2, <1>5 DEF l

LEMMA HandlerReturnsInv ==
  ASSUME IInv, NEW a \in Attempts, HandlerReturns(a)
  PROVE  IInv'
<1> DEFINE l == [local[a] EXCEPT !.handler = IF local[a].cancelled THEN "ended" ELSE "returned"]
<1>0. local[a] \in Local
  BY DEF IInv, Types
<1>1. /\ l \in Local /\ l.ours = local[a].ours /\ l.active = local[a].active
      /\ l.cancelled = local[a].cancelled /\ l.expired = local[a].expired
      /\ l.terminal = local[a].terminal /\ l.allowed = local[a].allowed
      /\ l.finalizing = local[a].finalizing /\ l.cancel = local[a].cancel
      /\ l.handler = IF local[a].cancelled THEN "ended" ELSE "returned"
  BY <1>0 DEF Local, Handlers
<1>2. /\ SetLocal(a, l) /\ local[a].handler = "running"
      /\ UNCHANGED <<core, durable, claim, flush, resume, up, fatal, runs, budget>>
  BY DEF HandlerReturns, process
<1> HIDE DEF l
<1>3. local'[a] = l
  BY <1>1, <1>2, SetLocalFields DEF IInv, Types
<1>4. LocalOK(a)'
  BY <1>1, <1>2, <1>3 DEF IInv, AttemptsOK, LocalOK, Live, durable
<1>5. up # "down" /\ budget' \in Budgets
  BY <1>2, NotDown DEF IInv, Types
<1>6. QED
  BY <1>1, <1>2, <1>4, <1>5, LocalOnly

LEMMA RenewRefusedInv ==
  ASSUME IInv, NEW a \in Attempts, RenewRefused(a)
  PROVE  IInv'
<1>1. /\ SetLocal(a, Revoke(local[a])) /\ local[a].active /\ core[a] # "leased"
      /\ UNCHANGED <<core, durable, claim, flush, resume, up, fatal, runs, budget>>
  BY DEF RenewRefused, Renewing, process
<1>2. core[a] \in Closed
  BY <1>1 DEF IInv, AttemptsOK, LocalOK, RecordOK, Accepted, Closed
<1>3. up # "down" /\ budget' \in Budgets
  BY <1>1, NotDown DEF IInv, Types
<1>4. QED
  BY <1>1, <1>2, <1>3, RevokeKeeps, LocalOnly DEF durable

LEMMA LeaseExpiresInv ==
  ASSUME IInv, NEW a \in Attempts, LeaseExpires(a)
  PROVE  IInv'
<1> DEFINE l == [Revoke(local[a]) EXCEPT !.expired = TRUE]
<1>0. local[a] \in Local
  BY DEF IInv, Types
<1>1. /\ l \in Local /\ l.ours = local[a].ours /\ l.active = local[a].active
      /\ l.cancelled = (local[a].cancelled \/ local[a].active) /\ l.expired
      /\ l.terminal /\ l.allowed = local[a].allowed /\ l.finalizing
      /\ l.cancel = local[a].cancel /\ l.handler = local[a].handler
  BY <1>0 DEF Local, Revoke
<1>2. /\ SetLocal(a, l) /\ local[a].active
      /\ UNCHANGED <<core, durable, claim, flush, resume, up, fatal, runs>>
  BY DEF LeaseExpires, Renewing
<1> HIDE DEF l
<1>3. local'[a] = l
  BY <1>1, <1>2, SetLocalFields DEF IInv, Types
<1>4. LocalOK(a)'
  BY <1>1, <1>2, <1>3 DEF IInv, AttemptsOK, LocalOK, Live, durable
<1>5. up # "down" /\ budget' \in Budgets
  BY <1>2, NotDown, LostType DEF IInv, LeaseExpires
<1>6. QED
  BY <1>1, <1>2, <1>4, <1>5, LocalOnly

LEMMA LeaseRevokedInv ==
  ASSUME IInv, NEW a \in Attempts, LeaseRevoked(a)
  PROVE  IInv'
<1>1. /\ SetLocal(a, Revoke(local[a])) /\ core[a] \in Closed
      /\ UNCHANGED <<core, durable, claim, flush, resume, up, fatal, runs, budget>>
  BY DEF LeaseRevoked, process, Closed
<1>2. up # "down" /\ budget' \in Budgets
  BY <1>1 DEF IInv, Types, LeaseRevoked, Running
<1>3. QED
  BY <1>1, <1>2, RevokeKeeps, LocalOnly DEF durable

\* A command is queued, or one for an Attempt of no record is answered.
LEMMA CancelOnly ==
  ASSUME IInv, NEW a \in Attempts, NEW c \in {"none", "queued"}, up # "down",
         c = "queued" => core[a] \in Closed, SetLocal(a, [local[a] EXCEPT !.cancel = c]),
         UNCHANGED <<core, durable, claim, flush, resume, up, fatal, runs, budget>>
  PROVE  IInv'
<1> DEFINE l == [local[a] EXCEPT !.cancel = c]
<1>0. local[a] \in Local
  BY DEF IInv, Types
<1>1. /\ l \in Local /\ l.ours = local[a].ours /\ l.active = local[a].active
      /\ l.cancelled = local[a].cancelled /\ l.expired = local[a].expired
      /\ l.terminal = local[a].terminal /\ l.allowed = local[a].allowed
      /\ l.finalizing = local[a].finalizing /\ l.cancel = c /\ l.handler = local[a].handler
  BY <1>0 DEF Local
<1>2. SetLocal(a, l)
  OBVIOUS
<1> HIDE DEF l
<1>3. local'[a] = l
  BY <1>1, <1>2, SetLocalFields DEF IInv, Types
<1>4. LocalOK(a)'
  BY <1>1, <1>3 DEF IInv, AttemptsOK, LocalOK, Live, durable
<1>5. budget' \in Budgets
  BY DEF IInv, Types
<1>6. QED
  BY <1>1, <1>2, <1>4, <1>5, LocalOnly

LEMMA CancelQueuedInv ==
  ASSUME IInv, NEW a \in Attempts, CancelQueued(a)
  PROVE  IInv'
  BY CancelOnly DEF CancelQueued, Running, process, Closed, Done

LEMMA CancelStartInv ==
  ASSUME IInv, NEW a \in Attempts, CancelStart(a)
  PROVE  IInv'
<1> DEFINE l == [local[a] EXCEPT !.terminal = TRUE, !.cancelled = @ \/ local[a].active,
                                 !.cancel = "lock"]
<1>0. local[a] \in Local /\ up # "down" /\ budget' \in Budgets
  BY DEF IInv, Types, CancelStart, Running, process
<1>1. /\ l \in Local /\ l.ours = local[a].ours /\ l.active = local[a].active
      /\ l.cancelled = (local[a].cancelled \/ local[a].active) /\ l.expired = local[a].expired
      /\ l.terminal /\ l.allowed = local[a].allowed /\ l.finalizing = local[a].finalizing
      /\ l.cancel = "lock" /\ l.handler = local[a].handler
  BY <1>0 DEF Local
<1>2. /\ local[a].cancel = "queued"
      /\ UNCHANGED <<core, durable, claim, flush, resume, up, fatal, runs, budget>>
  BY DEF CancelStart, process
<1>3. CASE record[a] = "absent"
  BY <1>0, <1>2, <1>3, CancelOnly DEF CancelStart
<1>4. CASE record[a] # "absent"
  <2>1. SetLocal(a, l)
    BY <1>4 DEF CancelStart
  <2> HIDE DEF l
  <2>2. local'[a] = l
    BY <1>1, <2>1, SetLocalFields DEF IInv, Types
  <2>3. core[a] \in Closed
    BY <1>2 DEF IInv, AttemptsOK, LocalOK
  <2>4. LocalOK(a)'
    BY <1>1, <1>2, <2>2, <2>3 DEF IInv, AttemptsOK, LocalOK, Live, durable
  <2>5. QED
    BY <1>0, <1>1, <1>2, <2>1, <2>4, LocalOnly
<1>5. QED
  BY <1>3, <1>4

LEMMA CancelLockInv ==
  ASSUME IInv, NEW a \in Attempts, CancelLock(a)
  PROVE  IInv'
<1> DEFINE l == [local[a] EXCEPT !.allowed = FALSE, !.cancel = "wait"]
<1>0. local[a] \in Local
  BY DEF IInv, Types
<1>1. /\ l \in Local /\ l.ours = local[a].ours /\ l.active = local[a].active
      /\ l.cancelled = local[a].cancelled /\ l.expired = local[a].expired
      /\ l.terminal = local[a].terminal /\ ~l.allowed /\ l.finalizing = local[a].finalizing
      /\ l.cancel = "wait" /\ l.handler = local[a].handler
  BY <1>0 DEF Local
<1>2. /\ SetLocal(a, l) /\ local[a].cancel = "lock"
      /\ UNCHANGED <<core, durable, claim, flush, resume, up, fatal, runs, budget>>
  BY DEF CancelLock, process
<1> HIDE DEF l
<1>3. local'[a] = l
  BY <1>1, <1>2, SetLocalFields DEF IInv, Types
<1>4. LocalOK(a)'
  BY <1>1, <1>2, <1>3 DEF IInv, AttemptsOK, LocalOK, Live, durable
<1>5. up # "down" /\ budget' \in Budgets
  BY <1>2, NotDown DEF IInv, Types
<1>6. QED
  BY <1>1, <1>2, <1>4, <1>5, LocalOnly

LEMMA CancelWaitInv ==
  ASSUME IInv, NEW a \in Attempts, CancelWait(a)
  PROVE  IInv'
<1> DEFINE l == [local[a] EXCEPT !.cancel =
                    IF local[a].handler \in {"none", "ended"} THEN "stopped" ELSE "none"]
<1>0. local[a] \in Local
  BY DEF IInv, Types
<1>1. /\ l \in Local /\ l.ours = local[a].ours /\ l.active = local[a].active
      /\ l.cancelled = local[a].cancelled /\ l.expired = local[a].expired
      /\ l.terminal = local[a].terminal /\ l.allowed = local[a].allowed
      /\ l.finalizing = local[a].finalizing /\ l.handler = local[a].handler
  BY <1>0 DEF Local
<1>2. /\ SetLocal(a, l) /\ local[a].cancel = "wait"
      /\ UNCHANGED <<core, durable, claim, flush, resume, up, fatal, runs, budget>>
  BY DEF CancelWait, process
<1> HIDE DEF l
<1>3. local'[a] = l
  BY <1>1, <1>2, SetLocalFields DEF IInv, Types
<1>4. LocalOK(a)'
  BY <1>1, <1>2, <1>3 DEF IInv, AttemptsOK, LocalOK, Live, durable
<1>5. up # "down" /\ budget' \in Budgets
  BY <1>2, NotDown DEF IInv, Types
<1>6. QED
  BY <1>1, <1>2, <1>4, <1>5, LocalOnly

\* Storing the Result: the attempt is not terminal, so no task revokes it.
LEMMA StoreResultInv ==
  ASSUME IInv, NEW a \in Attempts, StoreResult(a)
  PROVE  IInv'
<1>0. local[a] \in Local /\ local[a].handler = "returned" /\ up # "down"
      /\ budget' \in Budgets
  BY NotDown DEF IInv, Types, StoreResult
<1>1. CASE local[a].cancelled
  <2> DEFINE l == [local[a] EXCEPT !.handler = "ended"]
  <2>1. /\ l \in Local /\ l.ours = local[a].ours /\ l.active = local[a].active
        /\ l.cancelled = local[a].cancelled /\ l.expired = local[a].expired
        /\ l.terminal = local[a].terminal /\ l.allowed = local[a].allowed
        /\ l.finalizing = local[a].finalizing /\ l.cancel = local[a].cancel
        /\ l.handler = "ended"
    BY <1>0 DEF Local, Handlers
  <2>2. /\ SetLocal(a, l)
        /\ UNCHANGED <<core, durable, claim, flush, resume, up, fatal, runs, budget>>
    BY <1>1 DEF StoreResult, durable
  <2> HIDE DEF l
  <2>3. local'[a] = l
    BY <2>1, <2>2, SetLocalFields DEF IInv, Types
  <2>4. LocalOK(a)'
    BY <2>1, <2>2, <2>3 DEF IInv, AttemptsOK, LocalOK, Live, durable
  <2>5. QED
    BY <1>0, <2>1, <2>2, <2>4, LocalOnly
<1>2. CASE ~local[a].cancelled
  <2> DEFINE l == [local[a] EXCEPT !.handler = "ended", !.allowed = TRUE]
  <2>0. record[a] = "started" /\ ~local[a].terminal
    BY <1>0, <1>2 DEF IInv, AttemptsOK, LocalOK, Live
  <2>1. /\ l \in Local /\ l.ours = local[a].ours /\ l.active = local[a].active
        /\ l.cancelled = local[a].cancelled /\ l.expired = local[a].expired
        /\ l.terminal = local[a].terminal /\ l.allowed
        /\ l.finalizing = local[a].finalizing /\ l.cancel = local[a].cancel
        /\ l.handler = "ended"
    BY <1>0 DEF Local, Handlers
  <2>2. /\ SetLocal(a, l) /\ record' = [record EXCEPT ![a] = "finished"]
        /\ UNCHANGED <<core, events, claim, flush, resume, up, fatal, runs, budget>>
    BY <1>2, <2>0 DEF StoreResult
  <2> HIDE DEF l
  <2>3. /\ local' \in [Attempts -> Local] /\ local'[a] = l
        /\ \A b \in Attempts : b # a => local'[b] = local[b]
    BY <2>1, <2>2, SetLocalFields DEF IInv, Types
  <2>4. /\ record' \in [Attempts -> Records] /\ record'[a] = "finished"
        /\ \A b \in Attempts : b # a => record'[b] = record[b]
    BY <2>2 DEF IInv, Types, Records
  <2>5. Types' /\ DownIsEmpty' /\ NoRefusal'
    BY <1>0, <2>2, <2>3, <2>4 DEF IInv, Types, DownIsEmpty, NoRefusal
  <2>6. ClaimOK'
    BY <2>0, <2>1, <2>2, <2>3, <2>4, FieldTypes DEF IInv, ClaimOK, AssignmentCalls
  <2>7. FlushOK'
    BY <2>0, <2>2, <2>4 DEF IInv, FlushOK, Uploads
  <2>8. ResumeOK'
    BY <2>0, <2>2, <2>4 DEF IInv, ResumeOK
  <2>9. AttemptsOK'
    <3> SUFFICES ASSUME NEW b \in Attempts
                 PROVE  RecordOK(b)' /\ SpentOK(b)' /\ LocalOK(b)'
      BY DEF AttemptsOK
    <3>1. RecordOK(b) /\ SpentOK(b) /\ LocalOK(b)
      BY DEF IInv, AttemptsOK
    <3>2. CASE b # a
      BY <2>2, <2>3, <2>4, <3>1, <3>2 DEF RecordOK, SpentOK, LocalOK, Live
    <3>3. CASE b = a
      BY <2>0, <2>1, <2>2, <2>3, <2>4, <3>1, <3>3 DEF RecordOK, SpentOK, LocalOK, Live
    <3>4. QED
      BY <3>2, <3>3
  <2>10. QED
    BY <2>5, <2>6, <2>7, <2>8, <2>9 DEF IInv
<1>3. QED
  BY <1>1, <1>2

\* Emitting: the record is started, so the spool loop sends no Result of it.
LEMMA HandlerEmitsInv ==
  ASSUME IInv, NEW a \in Attempts, HandlerEmits(a)
  PROVE  IInv'
<1>1. /\ local[a].handler = "running" /\ record[a] = "started" /\ events[a] < MaxEvents
      /\ events' = [events EXCEPT ![a] = @ + 1]
      /\ UNCHANGED <<core, record, local, claim, flush, resume, up, fatal, runs, budget>>
  BY DEF HandlerEmits, process
<1>2. /\ events' \in [Attempts -> 0 .. MaxEvents] /\ events'[a] = events[a] + 1
      /\ \A b \in Attempts : b # a => events'[b] = events[b]
      /\ events[a] \in Nat
  BY <1>1, RuntimeWorkerAssumption DEF IInv, Types
<1>3. Types' /\ DownIsEmpty' /\ ClaimOK' /\ ResumeOK' /\ NoRefusal'
  BY <1>1, <1>2 DEF IInv, Types, DownIsEmpty, ClaimOK, ResumeOK, NoRefusal
<1>4. FlushOK'
  BY <1>1, <1>2, FieldTypes DEF IInv, FlushOK, Uploads
<1>5. AttemptsOK'
  <2> SUFFICES ASSUME NEW b \in Attempts
               PROVE  RecordOK(b)' /\ SpentOK(b)' /\ LocalOK(b)'
    BY DEF AttemptsOK
  <2>1. RecordOK(b) /\ SpentOK(b) /\ LocalOK(b) /\ RecordOK(a) /\ SpentOK(a)
    BY DEF IInv, AttemptsOK
  <2>2. core[a] \notin Done
    BY <1>1, <1>2, <2>1 DEF IInv, AttemptsOK, RecordOK
  <2>3. QED
    BY <1>1, <1>2, <2>1, <2>2 DEF RecordOK, SpentOK, LocalOK, Live
<1>6. QED
  BY <1>3, <1>4, <1>5 DEF IInv

-----------------------------------------------------------------------------
(* The steps of the spool loop *)

LEMMA FlushStartInv ==
  ASSUME IInv, FlushStart
  PROVE  IInv'
<1>1. /\ flush' = [flush EXCEPT !.pc = "next", !.left = Kept] /\ flush.pc = "idle"
      /\ UNCHANGED <<core, durable, local, claim, resume, up, fatal, runs, budget>>
      /\ up # "down" /\ budget' \in Budgets
  BY DEF FlushStart, Running, process, IInv, Types
<1>2. /\ flush' \in FlushRecords /\ flush'.pc = "next" /\ flush'.net = flush.net
  BY <1>1 DEF IInv, Types, FlushRecords, FlushPcs, Kept
<1>3. FlushOK'
  BY <1>1, <1>2 DEF IInv, FlushOK, Uploads
<1>4. QED
  BY <1>1, <1>2, <1>3, FlushOnly

\* NoFlush and FlushNext are about nothing.
LEMMA FlushIdle ==
  ASSUME IInv, NEW a \in Attempts, flush' \in {NoFlush, FlushNext(a)}
  PROVE  flush' \in FlushRecords /\ FlushOK' /\ flush'.pc \in {"idle", "next"}
<1>1. NoFlush \in FlushRecords /\ NoFlush.pc = "idle" /\ NoFlush.net = "none"
  BY NothingType, RuntimeWorkerAssumption DEF NoFlush
<1>2. FlushNext(a) \in FlushRecords /\ FlushNext(a).pc = "next" /\ FlushNext(a).net = "none"
  BY FieldTypes DEF IInv, NoFlush, FlushNext, FlushRecords, FlushPcs, Nets
<1>3. QED
  BY <1>1, <1>2 DEF FlushOK, Uploads

LEMMA FlushEndsInv ==
  ASSUME IInv, FlushEnds
  PROVE  IInv'
<1>1. /\ flush' = NoFlush /\ flush.pc = "next"
      /\ UNCHANGED <<core, durable, local, claim, resume, up, fatal, runs, budget>>
      /\ budget' \in Budgets
  BY DEF FlushEnds, process, IInv, Types
<1>2. NoFlush \in FlushRecords /\ NoFlush.pc = "idle" /\ NoFlush.net = "none"
  BY NothingType, RuntimeWorkerAssumption DEF NoFlush
<1>3. FlushOK'
  BY <1>1, <1>2 DEF FlushOK, Uploads
<1>4. up # "down"
  BY <1>1 DEF IInv, DownIsEmpty, NoFlush
<1>5. QED
  BY <1>1, <1>2, <1>3, <1>4, FlushOnly

\* What Upload sends is in the spool: n Events of the pending ones, or the Result of an
\* attempt that has none.
LEMMA UploadSends ==
  ASSUME IInv, NEW a \in Attempts, NEW n \in Nat, NEW pending \in Nat, n <= pending,
         flush.pc = "next" \/ flush.a = a, core[a] \in Accepted,
         flush' = Upload(a, n, pending),
         events'[a] = pending, UNCHANGED <<core, record>>
  PROVE  flush' \in FlushRecords /\ FlushOK'
<1>1. CASE n > 0
  <2>1. /\ flush' \in FlushRecords /\ flush'.pc = "event" /\ flush'.a = a /\ flush'.n = n
        /\ flush'.net = "sent"
    BY <1>1 DEF Upload, IInv, Types, FlushRecords, FlushPcs, Uploads, Nets
  <2>2. QED
    BY <1>1, <2>1 DEF FlushOK, Uploads
<1>2. CASE ~(n > 0) /\ pending = 0 /\ record[a] = "finished"
  <2>1. /\ flush' \in FlushRecords /\ flush'.pc = "result" /\ flush'.a = a
        /\ flush'.net = "sent"
    BY <1>2 DEF Upload, IInv, Types, FlushRecords, FlushPcs, Uploads, Nets
  <2>2. QED
    BY <1>2, <2>1 DEF FlushOK, Uploads
<1>3. CASE ~(n > 0) /\ ~(pending = 0 /\ record[a] = "finished")
  BY <1>3, FlushIdle DEF Upload
<1>4. QED
  BY <1>1, <1>2, <1>3

LEMMA FlushAttemptInv ==
  ASSUME IInv, NEW a \in Attempts, FlushAttempt(a)
  PROVE  IInv'
<1>1. /\ flush.pc = "next"
      /\ flush' = IF local[a].allowed THEN Upload(a, events[a], events[a]) ELSE FlushNext(a)
      /\ UNCHANGED <<core, durable, local, claim, resume, up, fatal, runs, budget>>
      /\ budget' \in Budgets
  BY DEF FlushAttempt, process, IInv, Types
<1>2. up # "down"
  BY <1>1 DEF IInv, DownIsEmpty, NoFlush
<1>3. CASE local[a].allowed
  <2>1. core[a] \in Accepted /\ events[a] \in Nat
    BY <1>3, RuntimeWorkerAssumption DEF IInv, AttemptsOK, LocalOK, Types
  <2>2. flush' \in FlushRecords /\ FlushOK'
    BY <1>1, <1>3, <2>1, UploadSends DEF durable
  <2>3. QED
    BY <1>1, <1>2, <2>2, FlushOnly
<1>4. CASE ~local[a].allowed
  BY <1>1, <1>2, <1>4, FlushIdle, FlushOnly
<1>5. QED
  BY <1>3, <1>4

LEMMA NotDownFlush == ASSUME IInv, flush.pc # "idle" \/ flush.net # "none" PROVE up # "down"
  BY DEF IInv, DownIsEmpty, NoFlush

LEMMA CoreMissesEventsInv ==
  ASSUME IInv, CoreMissesEvents
  PROVE  IInv'
<1>1. /\ flush.pc = "result" /\ flush' = [flush EXCEPT !.pc = "replay", !.net = "sent"]
      /\ UNCHANGED <<core, durable, local, claim, resume, up, fatal, runs>>
  BY DEF CoreMissesEvents
<1>2. up # "down" /\ budget' \in Budgets
  BY <1>1, NotDownFlush, LostType DEF IInv, CoreMissesEvents
<1>3. /\ flush' \in FlushRecords /\ flush'.pc = "replay" /\ flush'.net = "sent"
      /\ flush'.a = flush.a
  BY <1>1 DEF IInv, Types, FlushRecords, FlushPcs, Uploads, Nets
<1>4. FlushOK'
  BY <1>1, <1>3 DEF IInv, FlushOK, Uploads, durable
<1>5. QED
  BY <1>1, <1>2, <1>3, <1>4, FlushOnly

LEMMA EventsReplayedInv ==
  ASSUME IInv, EventsReplayed
  PROVE  IInv'
<1>1. /\ flush.pc = "replay" /\ flush' = [flush EXCEPT !.pc = "result", !.net = "sent", !.n = 1]
      /\ UNCHANGED <<core, durable, local, claim, resume, up, fatal, runs, budget>>
  BY DEF EventsReplayed, process
<1>2. up # "down" /\ budget' \in Budgets
  BY <1>1, NotDownFlush DEF IInv, Types
<1>3. /\ flush' \in FlushRecords /\ flush'.pc = "result" /\ flush'.net = "sent"
      /\ flush'.a = flush.a
  BY <1>1 DEF IInv, Types, FlushRecords, FlushPcs, Uploads, Nets
<1>4. FlushOK'
  BY <1>1, <1>3 DEF IInv, FlushOK, Uploads, durable
<1>5. QED
  BY <1>1, <1>2, <1>3, <1>4, FlushOnly

LEMMA UploadRevokedInv ==
  ASSUME IInv, UploadRevoked
  PROVE  IInv'
<1>1. /\ flush.pc = "revoke" /\ flush' = FlushNext(flush.a)
      /\ UNCHANGED <<core, durable, local, claim, resume, up, fatal, runs, budget>>
  BY DEF UploadRevoked, process
<1>2. up # "down" /\ budget' \in Budgets /\ flush.a \in Attempts
  BY <1>1, NotDownFlush DEF IInv, Types, FlushOK
<1>3. QED
  BY <1>1, <1>2, FlushIdle, FlushOnly

LEMMA UploadFailsInv ==
  ASSUME IInv, UploadFails
  PROVE  IInv'
<1>1. /\ flush.net # "none" /\ flush' = NoFlush
      /\ UNCHANGED <<core, durable, local, claim, resume, up, fatal, runs>>
  BY DEF UploadFails
<1>2. up # "down" /\ budget' \in Budgets
  BY <1>1, NotDownFlush, LostType DEF IInv, UploadFails
<1>3. flush.a \in Attempts
  BY <1>1 DEF IInv, FlushOK
<1>4. QED
  BY <1>1, <1>2, <1>3, FlushIdle, FlushOnly

LEMMA UploadRefusedInv ==
  ASSUME IInv, UploadRefused
  PROVE  IInv'
<1>0. /\ flush.net = "refused" /\ flush.a \in Attempts /\ core[flush.a] \in Closed /\ up # "down"
  BY NotDownFlush DEF UploadRefused, IInv, FlushOK
<1> PICK a \in Attempts : a = flush.a
  BY <1>0
<1>1. /\ SetLocal(a, Revoke(local[a]))
      /\ flush' = [flush EXCEPT !.pc = "revoke", !.net = "none"]
      /\ UNCHANGED <<core, record, events, claim, resume, up, fatal, runs, budget>>
  BY DEF UploadRefused, durable, process
<1>2. core[a] \in Closed /\ up # "down"
  BY <1>0
<1>3. /\ flush' \in FlushRecords /\ flush'.pc = "revoke" /\ flush'.net = "none" /\ flush'.a = a
  BY <1>1 DEF IInv, Types, FlushRecords, FlushPcs, Nets
<1>4. FlushOK'
  BY <1>1, <1>2, <1>3 DEF IInv, FlushOK, Uploads
<1> DEFINE l == Revoke(local[a])
<1>5. l \in Local /\ l.ours = local[a].ours /\ l.terminal /\ LocalOK(a)'
  <2>1. SetLocal(a, Revoke(local[a])) /\ UNCHANGED <<core, record>>
        /\ (record[a] = "finished" => core[a] \in Closed)
    BY <1>1, <1>2
  <2>2. QED
    BY <1>2, <2>1, RevokeKeeps, Zenon
<1>6. SetLocal(a, l)
  BY <1>1
<1> HIDE DEF l
<1>7. /\ local' \in [Attempts -> Local] /\ local'[a] = l
      /\ \A b \in Attempts : b # a => local'[b] = local[b]
  BY <1>2, <1>5, <1>6, SetLocalFields DEF IInv, Types
<1>8. Types' /\ DownIsEmpty' /\ ResumeOK' /\ NoRefusal'
  BY <1>1, <1>2, <1>3, <1>7 DEF IInv, Types, DownIsEmpty, ResumeOK, NoRefusal
<1>9. ClaimOK'
  BY <1>1, <1>5, <1>7, FieldTypes DEF IInv, ClaimOK, AssignmentCalls
<1>10. AttemptsOK'
  <2> SUFFICES ASSUME NEW b \in Attempts
               PROVE  RecordOK(b)' /\ SpentOK(b)' /\ LocalOK(b)'
    BY DEF AttemptsOK
  <2>1. RecordOK(b) /\ SpentOK(b) /\ LocalOK(b)
    BY DEF IInv, AttemptsOK
  <2>2. RecordOK(b)' /\ SpentOK(b)'
    BY <1>1, <1>5, <1>7, <2>1 DEF RecordOK, SpentOK
  <2>3. LocalOK(b)'
    <3>1. CASE b = a
      BY <1>5, <3>1
    <3>2. CASE b # a
      BY <1>1, <1>7, <2>1, <3>2 DEF LocalOK, Live
    <3>3. QED
      BY <3>1, <3>2
  <2>4. QED
    BY <2>2, <2>3
<1>11. QED
  BY <1>4, <1>8, <1>9, <1>10 DEF IInv

LEMMA EventAcknowledgedInv ==
  ASSUME IInv, EventAcknowledged
  PROVE  IInv'
<1> DEFINE a == flush.a
<1>1. /\ flush.pc = "event" /\ events' = [events EXCEPT ![a] = @ - 1]
      /\ flush' = Upload(a, flush.n - 1, events[a] - 1)
      /\ UNCHANGED <<core, record, local, claim, resume, up, fatal, runs, budget>>
  BY DEF EventAcknowledged, process
<1>2. /\ a \in Attempts /\ core[a] \in Accepted /\ flush.n > 0 /\ flush.n <= events[a]
      /\ up # "down" /\ flush.n \in Nat /\ events[a] \in Nat
  BY <1>1, NotDownFlush, FieldTypes, RuntimeWorkerAssumption DEF IInv, Types, FlushOK, Uploads
<1> HIDE DEF a
<1>3. /\ events' \in [Attempts -> 0 .. MaxEvents] /\ events'[a] = events[a] - 1
      /\ \A b \in Attempts : b # a => events'[b] = events[b]
  BY <1>1, <1>2, RuntimeWorkerAssumption DEF IInv, Types
<1> DEFINE n == flush.n - 1
           pending == events[a] - 1
<1>4. n \in Nat /\ pending \in Nat /\ n <= pending
  BY <1>2
<1>5. flush' = Upload(a, n, pending) /\ events'[a] = pending
  BY <1>1, <1>3
<1> HIDE DEF n, pending
<1>6. flush' \in FlushRecords /\ FlushOK'
  BY <1>1, <1>2, <1>4, <1>5, UploadSends DEF a
<1>7. Types' /\ DownIsEmpty' /\ ClaimOK' /\ ResumeOK' /\ NoRefusal'
  BY <1>1, <1>2, <1>3, <1>6 DEF IInv, Types, DownIsEmpty, ClaimOK, ResumeOK, NoRefusal
<1>8. AttemptsOK'
  <2> SUFFICES ASSUME NEW b \in Attempts
               PROVE  RecordOK(b)' /\ SpentOK(b)' /\ LocalOK(b)'
    BY DEF AttemptsOK
  <2>1. RecordOK(b) /\ SpentOK(b) /\ LocalOK(b) /\ RecordOK(a)
    BY <1>2 DEF IInv, AttemptsOK
  <2>2. core[a] \notin Done
    BY <1>2, <2>1 DEF RecordOK
  <2>3. QED
    BY <1>1, <1>3, <2>1, <2>2 DEF RecordOK, SpentOK, LocalOK, Live
<1>9. QED
  BY <1>6, <1>7, <1>8 DEF IInv

\* A record goes when Core has its Result, or when the attempt is revoked.
LEMMA RecordRemoved ==
  ASSUME IInv, up # "down", NEW a \in Attempts, NEW l \in Local, SetLocal(a, l),
         record' = [record EXCEPT ![a] = "absent"], events' = [events EXCEPT ![a] = 0],
         \/ local[a].finalizing
         \/ core[a] \in Done /\ record[a] \in {"finished", "result_acked", "absent"},
         l.ours = local[a].ours, l.handler = local[a].handler, l.terminal = local[a].terminal,
         local[a].cancelled => l.cancelled, l.cancel = local[a].cancel,
         l.finalizing => local[a].finalizing, ~l.active, ~l.allowed,
         flush' \in FlushRecords, FlushOK',
         resume' \in ResumeRecords, ResumeOK', resume'.decision = resume.decision,
         UNCHANGED <<core, claim, runs, up, fatal, budget>>
  PROVE  IInv'
<1>1. /\ local' \in [Attempts -> Local] /\ local'[a] = l
      /\ \A b \in Attempts : b # a => local'[b] = local[b]
  BY SetLocalFields DEF IInv, Types
<1>2. /\ record' \in [Attempts -> Records] /\ record'[a] = "absent"
      /\ \A b \in Attempts : b # a => record'[b] = record[b]
  BY DEF IInv, Types, Records
<1>3. /\ events' \in [Attempts -> 0 .. MaxEvents] /\ events'[a] = 0
      /\ \A b \in Attempts : b # a => events'[b] = events[b]
  BY RuntimeWorkerAssumption DEF IInv, Types
<1>4. Types' /\ DownIsEmpty' /\ NoRefusal'
  BY <1>1, <1>2, <1>3 DEF IInv, Types, DownIsEmpty, NoRefusal
<1>5. RecordOK(a) /\ SpentOK(a) /\ LocalOK(a)
  BY DEF IInv, AttemptsOK
<1>6. claim.pc = "reject" /\ claim.a = a => local[a].terminal
  BY <1>5 DEF IInv, ClaimOK, LocalOK
<1>7. ClaimOK'
  BY <1>1, <1>2, <1>6, FieldTypes DEF IInv, ClaimOK, AssignmentCalls
<1>8. AttemptsOK'
  <2> SUFFICES ASSUME NEW b \in Attempts
               PROVE  RecordOK(b)' /\ SpentOK(b)' /\ LocalOK(b)'
    BY DEF AttemptsOK
  <2>1. CASE b # a
    <3>1. RecordOK(b) /\ SpentOK(b) /\ LocalOK(b)
      BY DEF IInv, AttemptsOK
    <3>2. QED
      BY <1>1, <1>2, <1>3, <2>1, <3>1 DEF RecordOK, SpentOK, LocalOK, Live
  <2>2. CASE b = a
    <3>1. RecordOK(a)'
      BY <1>2, <1>3, <1>5 DEF RecordOK
    <3>2. SpentOK(a)'
      BY <1>1, <1>2, <1>5 DEF RecordOK, SpentOK, LocalOK, Accepted, Closed
    <3>3. LocalOK(a)'
      BY <1>1, <1>2, <1>5 DEF LocalOK, Live
    <3>4. QED
      BY <2>2, <3>1, <3>2, <3>3
  <2>3. QED
    BY <2>1, <2>2
<1>9. QED
  BY <1>4, <1>7, <1>8 DEF IInv

LEMMA ResultAcknowledgedInv ==
  ASSUME IInv, ResultAcknowledged
  PROVE  IInv'
<1> DEFINE a == flush.a
           l == Forget(local[a])
<1>1. /\ flush.pc = "result" /\ flush.net = "ok"
      /\ record' = [record EXCEPT ![a] = "absent"] /\ events' = [events EXCEPT ![a] = 0]
      /\ SetLocal(a, l) /\ flush' = FlushNext(a)
      /\ UNCHANGED <<core, claim, resume, up, fatal, runs, budget>>
  BY DEF ResultAcknowledged, process
<1>2. a \in Attempts /\ core[a] \in Done /\ record[a] = "finished" /\ up # "down"
  BY <1>1, NotDownFlush DEF IInv, FlushOK, Uploads
<1> HIDE DEF a
<1>3. local[a] \in Local
  BY <1>2 DEF IInv, Types
<1>4. /\ l \in Local /\ l.ours = local[a].ours /\ l.handler = local[a].handler
      /\ l.terminal = local[a].terminal /\ l.cancelled = local[a].cancelled
      /\ l.cancel = local[a].cancel /\ l.finalizing = local[a].finalizing
      /\ ~l.active /\ ~l.allowed
  BY <1>3, ForgetFields
<1> HIDE DEF l
<1>5. flush' \in FlushRecords /\ FlushOK'
  BY <1>1, <1>2, FlushIdle
<1>6. /\ record'[a] = "absent" /\ \A b \in Attempts : b # a => record'[b] = record[b]
  BY <1>1, <1>2 DEF IInv, Types
<1>7. resume' \in ResumeRecords /\ ResumeOK' /\ resume'.decision = resume.decision
  BY <1>1, <1>6 DEF IInv, Types, ResumeOK
<1>8. QED
  BY <1>1, <1>2, <1>4, <1>5, <1>7, RecordRemoved

LEMMA FinalizeInv ==
  ASSUME IInv, NEW a \in Attempts, Finalize(a)
  PROVE  IInv'
<1> DEFINE l == [Forget(local[a]) EXCEPT !.finalizing = FALSE]
<1>1. /\ local[a].finalizing /\ ~Locked(a)
      /\ record' = [record EXCEPT ![a] = "absent"] /\ events' = [events EXCEPT ![a] = 0]
      /\ SetLocal(a, l)
      /\ UNCHANGED <<core, claim, flush, resume, up, fatal, runs, budget>>
  BY DEF Finalize, process
<1>2. local[a] \in Local /\ up # "down"
  BY <1>1, NotDown DEF IInv, Types
<1>3. /\ l \in Local /\ l.ours = local[a].ours /\ l.handler = local[a].handler
      /\ l.terminal = local[a].terminal /\ l.cancelled = local[a].cancelled
      /\ l.cancel = local[a].cancel /\ ~l.finalizing /\ ~l.active /\ ~l.allowed
  BY <1>2 DEF Local, Forget
<1> HIDE DEF l
<1>4. /\ record'[a] = "absent" /\ \A b \in Attempts : b # a => record'[b] = record[b]
      /\ \A b \in Attempts : b # a => events'[b] = events[b]
  BY <1>1 DEF IInv, Types
<1>5. flush' \in FlushRecords /\ FlushOK'
  BY <1>1, <1>4 DEF IInv, Types, FlushOK, Locked, Uploads
<1>6. resume' \in ResumeRecords /\ ResumeOK' /\ resume'.decision = resume.decision
  BY <1>1, <1>4 DEF IInv, Types, ResumeOK
<1>7. QED
  BY <1>1, <1>2, <1>3, <1>5, <1>6, RecordRemoved

-----------------------------------------------------------------------------
(* The steps of Core *)

\* The ways of Core: what it has decided of an attempt it does not take back, and it
\* records a Result only when the worker has stored it.
Ahead ==
  /\ core' \in [Attempts -> CoreStates]
  /\ \A a \in Attempts :
       /\ core[a] # "idle" => core'[a] # "idle"
       /\ core[a] \in Accepted => core'[a] \in Accepted
       /\ core[a] \in Closed => core'[a] \in Closed
       /\ core[a] \in Done => core'[a] \in Done
       /\ core[a] \in {"revoked", "rejected"} => core'[a] \in {"revoked", "rejected"}
       /\ core[a] = "leased" => core'[a] \in {"leased"} \union Closed
       /\ core'[a] \in Done => \/ core[a] \in Done
                               \/ core[a] \in Accepted /\ record[a] = "finished" /\ events[a] = 0

\* The attempts keep their invariant when Core moves and the process does not.
LEMMA AttemptsAhead ==
  ASSUME IInv, Ahead, UNCHANGED <<record, events, local, runs>>,
         \A a \in Attempts :
           runs[a] = 1 /\ record[a] = "ack_sent" =>
             /\ ~(claim.pc = "ack" /\ claim.net = "ok" /\ claim.a = a)'
             /\ resume'.decision[a] # "continue_execution"
  PROVE  AttemptsOK'
<1> SUFFICES ASSUME NEW a \in Attempts
             PROVE  RecordOK(a)' /\ SpentOK(a)' /\ LocalOK(a)'
  BY DEF AttemptsOK
<1>1. RecordOK(a) /\ SpentOK(a) /\ LocalOK(a)
  BY DEF IInv, AttemptsOK
<1>2. RecordOK(a)'
  BY <1>1 DEF Ahead, RecordOK
<1>3. SpentOK(a)'
  BY <1>1 DEF Ahead, SpentOK
<1>4. LocalOK(a)'
  BY <1>1 DEF Ahead, LocalOK, Live
<1>5. QED
  BY <1>2, <1>3, <1>4

\* What the claim loop and a resume know of Core stays true.
LEMMA ClaimAhead ==
  ASSUME IInv, Ahead, UNCHANGED <<record, local, claim>>
  PROVE  ClaimOK'
<1> USE DEF IInv
<1>1. claim.a \in Attempts => core'[claim.a] # "idle"
  BY DEF ClaimOK, Ahead
<1>2. /\ claim.pc \in {"ack", "reack"} /\ claim.net = "ok" => core'[claim.a] \in Accepted
      /\ claim.pc \in {"ack", "reack"} /\ claim.net = "refused"
           => core'[claim.a] \in Closed \union {"rejected"}
  <2> SUFFICES ASSUME claim.pc \in {"ack", "reack"}
               PROVE  /\ claim.net = "ok" => core'[claim.a] \in Accepted
                      /\ claim.net = "refused" => core'[claim.a] \in Closed \union {"rejected"}
    OBVIOUS
  <2>1. claim.a \in Attempts
    BY DEF ClaimOK, AssignmentCalls
  <2>2. claim.net = "ok" => core'[claim.a] \in Accepted
    BY <2>1 DEF ClaimOK, Ahead
  <2>3. claim.net = "refused" => core'[claim.a] \in Closed \union {"rejected"}
    <3>1. claim.net = "refused" => core[claim.a] \in Closed \union {"rejected"}
      BY DEF ClaimOK
    <3>2. QED
      BY <2>1, <3>1 DEF Ahead, Closed
  <2>4. QED
    BY <2>2, <2>3
<1>3. QED
  BY <1>1, <1>2 DEF ClaimOK

LEMMA ResumeAhead ==
  ASSUME IInv, Ahead, UNCHANGED <<record, claim, resume, up>>
  PROVE  ResumeOK'
  BY FieldTypes DEF IInv, ResumeOK, Ahead

\* Core moves by itself.
LEMMA CoreAlone ==
  ASSUME IInv, Ahead,
         UNCHANGED <<durable, local, claim, flush, resume, up, fatal, runs, budget>>
  PROVE  IInv'
<1> USE DEF durable
<1>1. Types' /\ DownIsEmpty' /\ NoRefusal'
  BY DEF IInv, Types, DownIsEmpty, NoRefusal, Ahead
<1>2. ClaimOK'
  BY ClaimAhead
<1>3. FlushOK'
  BY FieldTypes DEF IInv, FlushOK, Ahead, Uploads
<1>4. ResumeOK'
  BY ResumeAhead
<1>5. AttemptsOK'
  <2>1. \A a \in Attempts : SpentOK(a)
    BY DEF IInv, AttemptsOK
  <2>2. QED
    BY <2>1, AttemptsAhead DEF SpentOK
<1>6. QED
  BY <1>1, <1>2, <1>3, <1>4, <1>5 DEF IInv

LEMMA CoreRevokesInv ==
  ASSUME IInv, NEW a \in Attempts, CoreRevokes(a)
  PROVE  IInv'
<1>1. /\ core[a] \in {"offered", "leased", "canceling"}
      /\ core' = [core EXCEPT ![a] = "revoked"] /\ core \in [Attempts -> CoreStates]
      /\ UNCHANGED <<durable, local, claim, flush, resume, up, fatal, runs, budget>>
  BY DEF CoreRevokes, process, IInv, Types
<1>2. Ahead
  BY <1>1 DEF Ahead, CoreStates, Accepted, Closed, Done
<1>3. QED
  BY <1>1, <1>2, CoreAlone

LEMMA CoreCancelsInv ==
  ASSUME IInv, NEW a \in Attempts, CoreCancels(a)
  PROVE  IInv'
<1>1. /\ core[a] = "leased"
      /\ core' = [core EXCEPT ![a] = "canceling"] /\ core \in [Attempts -> CoreStates]
      /\ UNCHANGED <<durable, local, claim, flush, resume, up, fatal, runs, budget>>
  BY DEF CoreCancels, process, IInv, Types
<1>2. Ahead
  BY <1>1 DEF Ahead, CoreStates, Accepted, Closed, Done
<1>3. QED
  BY <1>1, <1>2, CoreAlone

LEMMA CoreAnswersUploadInv ==
  ASSUME IInv, CoreAnswersUpload
  PROVE  IInv'
<1>0. flush.net = "sent" /\ flush.a \in Attempts /\ core[flush.a] \in Accepted /\ flush.pc \in Uploads
  BY DEF CoreAnswersUpload, IInv, FlushOK
<1> PICK a \in Attempts : a = flush.a
  BY <1>0
<1> DEFINE may == IF core[a] = "canceling" THEN BOOLEAN
                  ELSE {core[a] = "leased" \/ (flush.pc = "result" /\ core[a] \in Done)}
<1>1. PICK accepted \in may :
        /\ core' = [core EXCEPT ![a] =
                      IF ~accepted \/ flush.pc # "result" THEN core[a]
                      ELSE IF core[a] = "leased" THEN "done"
                      ELSE IF core[a] = "canceling" THEN "done_canceling" ELSE core[a]]
        /\ flush' = [flush EXCEPT !.net = IF accepted THEN "ok" ELSE "refused"]
  BY DEF CoreAnswersUpload
<1>2. /\ UNCHANGED <<record, events, local, claim, resume, up, fatal, runs, budget>>
      /\ core[a] \in Accepted /\ core \in [Attempts -> CoreStates] /\ up # "down"
  BY <1>0, NotDownFlush DEF CoreAnswersUpload, durable, process, IInv, Types
<1>3. accepted => core[a] \in {"leased", "canceling"} \union Done
  BY DEF Done
<1>4. ~accepted => core[a] \in Closed
  BY <1>2 DEF Accepted, Closed
<1> HIDE DEF may
<1>5. accepted \in BOOLEAN
  BY DEF may
<1>6. flush.pc = "result" => record[a] = "finished" /\ events[a] = 0
  BY DEF IInv, FlushOK
<1>7. /\ core' \in [Attempts -> CoreStates] /\ \A b \in Attempts : b # a => core'[b] = core[b]
      /\ core'[a] = IF ~accepted \/ flush.pc # "result" THEN core[a]
                      ELSE IF core[a] = "leased" THEN "done"
                      ELSE IF core[a] = "canceling" THEN "done_canceling" ELSE core[a]
  BY <1>1, <1>2 DEF CoreStates, Done
<1>8. Ahead
  BY <1>2, <1>3, <1>6, <1>7 DEF Ahead, Accepted, Closed, Done
<1>9. /\ flush' \in FlushRecords /\ flush'.pc = flush.pc /\ flush'.a = a /\ flush'.n = flush.n
      /\ flush'.net = IF accepted THEN "ok" ELSE "refused"
  BY <1>1, <1>5 DEF IInv, Types, FlushRecords, Nets
<1>10. FlushOK'
  <2>1. core'[a] \in Accepted /\ (~accepted => core'[a] \in Closed)
        /\ (accepted /\ flush.pc = "result" => core'[a] \in Done)
    BY <1>2, <1>3, <1>4, <1>7 DEF Accepted, Done
  <2>2. QED
    BY <1>0, <1>2, <1>5, <1>9, <2>1 DEF IInv, FlushOK
<1>11. Types' /\ DownIsEmpty' /\ NoRefusal'
  BY <1>2, <1>7, <1>9 DEF IInv, Types, DownIsEmpty, NoRefusal
<1>12. ClaimOK'
  BY <1>2, <1>8, ClaimAhead
<1>13. ResumeOK'
  BY <1>2, <1>8, ResumeAhead
<1>14. AttemptsOK'
  <2>1. \A b \in Attempts : SpentOK(b)
    BY DEF IInv, AttemptsOK
  <2>2. QED
    BY <1>2, <1>8, <2>1, AttemptsAhead DEF SpentOK
<1>15. QED
  BY <1>10, <1>11, <1>12, <1>13, <1>14 DEF IInv

\* Core accepts or rejects an assignment it offered; any other keeps its state.
LEMMA AssignmentAnswered ==
  ASSUME IInv, CoreAnswersAssignment, NEW a \in Attempts, a = claim.a
  PROVE  \E state \in CoreStates, net \in {"ok", "refused"} :
           /\ core' = [core EXCEPT ![a] = state] /\ claim' = [claim EXCEPT !.net = net]
           /\ state \in IF core[a] = "offered" THEN {core[a], "leased", "rejected"} ELSE {core[a]}
           /\ claim.pc # "reject" =>
                IF core[a] \in {"offered", "leased"} THEN state = "leased" /\ net = "ok"
                ELSE net = "refused" /\ state = core[a]
<1> DEFINE answer ==
       IF claim.pc = "reject"
         THEN IF core[a] \in {"offered", "rejected"} THEN <<"rejected", "ok">>
              ELSE <<core[a], IF core[a] = "revoked" THEN "ok" ELSE "refused">>
         ELSE IF core[a] \in {"offered", "leased"} THEN <<"leased", "ok">>
              ELSE <<core[a], "refused">>
<1>1. core' = [core EXCEPT ![a] = answer[1]] /\ claim' = [claim EXCEPT !.net = answer[2]]
  BY DEF CoreAnswersAssignment
<1>2. core[a] \in CoreStates
  BY DEF IInv, Types
<1>3. /\ answer[1] \in CoreStates /\ answer[2] \in {"ok", "refused"}
      /\ answer[1] \in IF core[a] = "offered" THEN {core[a], "leased", "rejected"} ELSE {core[a]}
      /\ claim.pc # "reject" =>
           IF core[a] \in {"offered", "leased"} THEN answer[1] = "leased" /\ answer[2] = "ok"
           ELSE answer[2] = "refused" /\ answer[1] = core[a]
  BY <1>2 DEF CoreStates
<1> HIDE DEF answer
<1>4. QED
  BY <1>1, <1>3

LEMMA CoreAnswersAssignmentInv ==
  ASSUME IInv, CoreAnswersAssignment
  PROVE  IInv'
<1>0. claim.pc \in AssignmentCalls /\ claim.net = "sent" /\ claim.a \in Attempts
      /\ core[claim.a] # "idle"
  BY DEF CoreAnswersAssignment, IInv, ClaimOK
<1> PICK a \in Attempts : a = claim.a
  BY <1>0
<1>1. /\ UNCHANGED <<record, events, local, flush, resume, up, fatal, runs, budget>>
      /\ core[a] \in CoreStates /\ core[a] # "idle" /\ core \in [Attempts -> CoreStates]
      /\ up # "down"
  BY <1>0 DEF CoreAnswersAssignment, durable, process, IInv, Types, DownIsEmpty, NoCall
<1>2. PICK state \in CoreStates, net \in {"ok", "refused"} :
        /\ core' = [core EXCEPT ![a] = state] /\ claim' = [claim EXCEPT !.net = net]
        /\ state \in IF core[a] = "offered" THEN {core[a], "leased", "rejected"} ELSE {core[a]}
        /\ claim.pc # "reject" =>
             IF core[a] \in {"offered", "leased"} THEN state = "leased" /\ net = "ok"
             ELSE net = "refused" /\ state = core[a]
  BY AssignmentAnswered
<1>3. /\ core' \in [Attempts -> CoreStates] /\ core'[a] = state
      /\ \A b \in Attempts : b # a => core'[b] = core[b]
  BY <1>1, <1>2
<1>4. /\ claim' \in ClaimRecords /\ claim'.net = net /\ claim'.pc = claim.pc /\ claim'.a = a
  BY <1>2 DEF IInv, Types, ClaimRecords, Nets
<1>5. Ahead
  BY <1>1, <1>2, <1>3 DEF Ahead, Accepted, Closed, Done
<1>6. ClaimOK'
  <2>1. core'[a] # "idle"
    BY <1>1, <1>5 DEF Ahead
  <2>2. claim.pc # "reject" =>
          /\ net = "ok" => core'[a] \in Accepted
          /\ net = "refused" => core'[a] \in Closed \union {"rejected"}
    BY <1>1, <1>2, <1>3 DEF Accepted, Closed, Done, CoreStates
  <2>3. QED
    BY <1>0, <1>1, <1>2, <1>4, <2>1, <2>2 DEF IInv, ClaimOK, AssignmentCalls
<1>7. Types' /\ DownIsEmpty' /\ NoRefusal'
  BY <1>1, <1>2, <1>3, <1>4 DEF IInv, Types, DownIsEmpty, NoRefusal
<1>8. FlushOK'
  BY <1>1, <1>5, FieldTypes DEF IInv, FlushOK, Ahead, Uploads
<1>9. ResumeOK'
  BY <1>0, <1>1, <1>4, <1>5, FieldTypes DEF IInv, ResumeOK, Ahead, AssignmentCalls
<1>10. AttemptsOK'
  <2>1. ASSUME NEW b \in Attempts, runs[b] = 1, record[b] = "ack_sent"
        PROVE  /\ ~(claim.pc = "ack" /\ claim.net = "ok" /\ claim.a = b)'
               /\ resume'.decision[b] # "continue_execution"
    <3>1. SpentOK(b) /\ RecordOK(b)
      BY DEF IInv, AttemptsOK
    <3>2. core[b] \in Closed /\ resume.decision[b] # "continue_execution"
      BY <2>1, <3>1 DEF SpentOK, FinalRecords
    <3>3. ~(claim.pc = "ack" /\ claim.net = "ok" /\ claim.a = b)'
      BY <1>2, <1>4, <3>2 DEF Closed, Done
    <3>4. QED
      BY <1>1, <3>2, <3>3
  <2>2. QED
    BY <1>1, <1>5, <2>1, AttemptsAhead
<1>11. QED
  BY <1>6, <1>7, <1>8, <1>9, <1>10 DEF IInv

LEMMA CoreAnswersResumeInv ==
  ASSUME IInv, CoreAnswersResume
  PROVE  IInv'
<1>1. PICK d \in [resume.left -> UNION {Decisions(s) : s \in CoreStates}] :
        /\ \A a \in resume.left : d[a] \in Decisions(core[a])
        /\ resume' = [resume EXCEPT !.net = "ok",
                        !.decision = [a \in Attempts |-> IF a \in resume.left THEN d[a] ELSE "none"]]
  BY DEF CoreAnswersResume
<1> DEFINE D == [a \in Attempts |-> IF a \in resume.left THEN d[a] ELSE "none"]
<1>2. /\ resume.pc = "call"
      /\ core' = [a \in Attempts |->
           IF a \in resume.left /\ core[a] \in {"offered", "canceling"} THEN "revoked" ELSE core[a]]
      /\ UNCHANGED <<record, events, local, claim, flush, up, fatal, runs, budget>>
      /\ core \in [Attempts -> CoreStates] /\ up # "down"
  BY DEF CoreAnswersResume, durable, process, IInv, Types, DownIsEmpty, NoResume
<1>3. /\ core' \in [Attempts -> CoreStates]
      /\ \A a \in Attempts :
           core'[a] = IF a \in resume.left /\ core[a] \in {"offered", "canceling"} THEN "revoked"
                      ELSE core[a]
  BY <1>2 DEF CoreStates
<1>4. Ahead
  BY <1>2, <1>3 DEF Ahead, Accepted, Closed, Done
<1>5. \A a \in resume.left : core[a] # "idle" /\ core[a] \in CoreStates
  BY <1>2, FieldTypes DEF IInv, ResumeOK
<1>6. \A a \in Attempts :
        /\ D[a] \in DecisionsOrNone
        /\ D[a] \in {"continue_execution", "upload_spool_only"} => core[a] = "leased" /\ core'[a] = "leased"
        /\ D[a] = "result_already_acked" => core'[a] \in Done
        /\ D[a] = "lease_revoked" => core'[a] \in {"revoked", "rejected"}
  <2> SUFFICES ASSUME NEW a \in Attempts
               PROVE  /\ D[a] \in DecisionsOrNone
                      /\ D[a] \in {"continue_execution", "upload_spool_only"} => core[a] = "leased" /\ core'[a] = "leased"
                      /\ D[a] = "result_already_acked" => core'[a] \in Done
                      /\ D[a] = "lease_revoked" => core'[a] \in {"revoked", "rejected"}
    OBVIOUS
  <2>1. CASE a \notin resume.left
    BY <2>1 DEF DecisionsOrNone
  <2>2. CASE a \in resume.left
    <3>1. D[a] \in Decisions(core[a])
      BY <1>1, <2>2
    <3>2. core[a] \in CoreStates /\ core[a] # "idle"
      BY <1>5, <2>2
    <3>3. core'[a] = IF core[a] \in {"offered", "canceling"} THEN "revoked" ELSE core[a]
      BY <1>3, <2>2
    <3> HIDE DEF D
    <3>4. CASE core[a] = "leased"
      BY <3>1, <3>3, <3>4 DEF Decisions, DecisionsOrNone
    <3>5. CASE core[a] \in Done
      BY <3>1, <3>3, <3>5 DEF Decisions, DecisionsOrNone, Done
    <3>6. CASE core[a] # "leased" /\ core[a] \notin Done
      BY <3>1, <3>2, <3>3, <3>6 DEF Decisions, DecisionsOrNone, CoreStates
    <3>7. QED
      BY <3>4, <3>5, <3>6
  <2>3. QED
    BY <2>1, <2>2
<1>7. D \in [Attempts -> DecisionsOrNone]
  BY <1>6
<1>8. resume' = [resume EXCEPT !.net = "ok", !.decision = D]
  BY <1>1
<1> HIDE DEF D
<1>9. /\ resume' \in ResumeRecords /\ resume'.pc = resume.pc /\ resume'.net = "ok"
      /\ resume'.reconnect = resume.reconnect /\ resume'.left = resume.left
      /\ resume'.snap = resume.snap /\ resume'.decision = D
  BY <1>7, <1>8 DEF IInv, Types, ResumeRecords, Nets
<1>10. ResumeOK'
  <2>1. \A a \in resume.left : core'[a] # "idle"
    BY <1>4, FieldTypes DEF IInv, ResumeOK, Ahead
  <2>2. \A a \in Attempts :
          /\ D[a] \in {"continue_execution", "upload_spool_only"} => core'[a] \in Accepted
          /\ D[a] = "result_already_acked" => core'[a] \in Done
          /\ D[a] = "lease_revoked" => core'[a] \in {"revoked", "rejected"}
    BY <1>6 DEF Accepted
  <2>3. QED
    BY <1>2, <1>9, <2>1, <2>2 DEF IInv, ResumeOK
<1>11. Types' /\ DownIsEmpty' /\ NoRefusal'
  BY <1>2, <1>3, <1>9 DEF IInv, Types, DownIsEmpty, NoRefusal
<1>12. ClaimOK'
  BY <1>2, <1>4, ClaimAhead
<1>13. FlushOK'
  BY <1>2, <1>4, FieldTypes DEF IInv, FlushOK, Ahead, Uploads
<1>14. AttemptsOK'
  <2>1. ASSUME NEW b \in Attempts, runs[b] = 1, record[b] = "ack_sent"
        PROVE  /\ ~(claim.pc = "ack" /\ claim.net = "ok" /\ claim.a = b)'
               /\ resume'.decision[b] # "continue_execution"
    <3>1. SpentOK(b)
      BY DEF IInv, AttemptsOK
    <3>2. core[b] \in Closed /\ ~(claim.pc = "ack" /\ claim.net = "ok" /\ claim.a = b)
      BY <2>1, <3>1 DEF SpentOK, FinalRecords
    <3>3. QED
      BY <1>2, <1>6, <1>9, <3>2 DEF Closed, Done
  <2>2. QED
    BY <1>2, <1>4, <2>1, AttemptsAhead
<1>15. QED
  BY <1>10, <1>11, <1>12, <1>13, <1>14 DEF IInv

\* Core offers an attempt whose handler has run only to the process it offered it to before.
LEMMA CoreOffersInv ==
  ASSUME IInv, NEW a \in Attempts, CoreOffers(a)
  PROVE  IInv'
<1> DEFINE l == [local[a] EXCEPT !.ours = TRUE]
<1>1. /\ claim.pc = "call" /\ claim.net = "sent"
      /\ core[a] = "idle" \/ local[a].ours
      /\ core' = [core EXCEPT ![a] = IF @ = "idle" THEN "offered" ELSE @]
      /\ local' = [local EXCEPT ![a] = l]
      /\ claim' = [claim EXCEPT !.a = a, !.net = "ok"]
      /\ UNCHANGED <<record, events, flush, resume, up, fatal, runs, budget>>
  BY DEF CoreOffers, durable, process
<1>2. local[a] \in Local /\ core \in [Attempts -> CoreStates] /\ up # "down"
  BY <1>1 DEF IInv, Types, DownIsEmpty, NoCall
<1>3. /\ l \in Local /\ l.ours /\ l.active = local[a].active
      /\ l.cancelled = local[a].cancelled /\ l.expired = local[a].expired
      /\ l.terminal = local[a].terminal /\ l.allowed = local[a].allowed
      /\ l.finalizing = local[a].finalizing /\ l.cancel = local[a].cancel
      /\ l.handler = local[a].handler
  BY <1>2 DEF Local
<1>4. SetLocal(a, l)
  BY <1>1 DEF SetLocal
<1> HIDE DEF l
<1>5. /\ local' \in [Attempts -> Local] /\ local'[a] = l
      /\ \A b \in Attempts : b # a => local'[b] = local[b]
  BY <1>3, <1>4, SetLocalFields DEF IInv, Types
<1>6. /\ core' \in [Attempts -> CoreStates]
      /\ core'[a] = IF core[a] = "idle" THEN "offered" ELSE core[a]
      /\ \A b \in Attempts : b # a => core'[b] = core[b]
  BY <1>1, <1>2 DEF CoreStates
<1>7. Ahead
  BY <1>6 DEF Ahead, Accepted, Closed, Done
<1>8. /\ claim' \in ClaimRecords /\ claim'.pc = "call" /\ claim'.net = "ok" /\ claim'.a = a
  BY <1>1 DEF IInv, Types, ClaimRecords, Nets
<1>9. ClaimOK'
  BY <1>3, <1>5, <1>6, <1>8 DEF ClaimOK, AssignmentCalls
<1>10. Types' /\ DownIsEmpty' /\ NoRefusal'
  BY <1>1, <1>2, <1>5, <1>6, <1>8 DEF IInv, Types, DownIsEmpty, NoRefusal
<1>11. FlushOK'
  BY <1>1, <1>7, FieldTypes DEF IInv, FlushOK, Ahead, Uploads
<1>12. ResumeOK'
  BY <1>1, <1>7, <1>8, FieldTypes DEF IInv, ResumeOK, Ahead
<1>13. AttemptsOK'
  <2> SUFFICES ASSUME NEW b \in Attempts
               PROVE  RecordOK(b)' /\ SpentOK(b)' /\ LocalOK(b)'
    BY DEF AttemptsOK
  <2>1. RecordOK(b) /\ SpentOK(b) /\ LocalOK(b)
    BY DEF IInv, AttemptsOK
  <2>2. RecordOK(b)'
    BY <1>1, <1>7, <2>1 DEF Ahead, RecordOK
  <2>3. SpentOK(b)'
    <3>1. runs[b] = 1 => core[b] # "idle"
      BY <2>1 DEF RecordOK, Accepted, Done
    <3>2. runs[b] = 1 => local'[b].ours = local[b].ours /\ local'[b].terminal = local[b].terminal
      BY <1>1, <1>3, <1>5, <3>1
    <3>3. QED
      BY <1>1, <1>7, <1>8, <2>1, <3>2 DEF Ahead, SpentOK
  <2>4. LocalOK(b)'
    BY <1>1, <1>3, <1>5, <1>7, <2>1 DEF Ahead, LocalOK, Live
  <2>5. QED
    BY <2>2, <2>3, <2>4
<1>14. QED
  BY <1>9, <1>10, <1>11, <1>12, <1>13 DEF IInv

-----------------------------------------------------------------------------
(* The steps of the claim loop *)

LEMMA NotDownClaim == ASSUME IInv, claim.pc # "idle" \/ claim.net # "none" PROVE up # "down"
  BY DEF IInv, DownIsEmpty, NoCall

\* NoCall is about nothing.
LEMMA ClaimIdle ==
  ASSUME claim' = NoCall
  PROVE  claim' \in ClaimRecords /\ ClaimOK' /\ claim'.pc = "idle"
<1>1. NoCall \in ClaimRecords /\ NoCall.pc = "idle" /\ NoCall.net = "none" /\ NoCall.a = NoAttempt
  BY NothingType, RuntimeWorkerAssumption DEF NoCall
<1>2. QED
  BY <1>1, RuntimeWorkerAssumption DEF ClaimOK, AssignmentCalls

LEMMA ClaimInv ==
  ASSUME IInv, Claim
  PROVE  IInv'
<1>1. /\ claim' = [claim EXCEPT !.pc = "call", !.net = "sent"] /\ claim.pc = "idle"
      /\ (resume.pc = "idle" \/ ~resume.reconnect) /\ up # "starting"
      /\ UNCHANGED <<core, durable, local, flush, resume, up, fatal, runs, budget>>
      /\ up # "down" /\ budget' \in Budgets
  BY DEF Claim, Running, Transitioning, process, IInv, Types
<1>2. resume.pc = "idle"
  BY <1>1 DEF IInv, ResumeOK
<1>3. claim' \in ClaimRecords /\ claim'.pc = "call" /\ claim'.net = "sent" /\ claim'.a = claim.a
  BY <1>1 DEF IInv, Types, ClaimRecords, ClaimPcs, Nets
<1>4. ClaimOK'
  BY <1>1, <1>3 DEF IInv, ClaimOK, AssignmentCalls
<1>5. QED
  BY <1>1, <1>2, <1>3, <1>4, ClaimOnly

LEMMA ClaimEmptyInv ==
  ASSUME IInv, ClaimEmpty
  PROVE  IInv'
<1>1. /\ claim' = NoCall /\ claim.pc = "call"
      /\ UNCHANGED <<core, durable, local, flush, resume, up, fatal, runs, budget>>
  BY DEF ClaimEmpty, process
<1>2. up # "down" /\ budget' \in Budgets
  BY <1>1, NotDownClaim DEF IInv, Types
<1>3. QED
  BY <1>1, <1>2, ClaimIdle, ClaimOnly

LEMMA AssignmentRevokedInv ==
  ASSUME IInv, AssignmentRevoked
  PROVE  IInv'
<1>1. /\ claim' = NoCall /\ claim.pc = "revoke"
      /\ UNCHANGED <<core, durable, local, flush, resume, up, fatal, runs, budget>>
  BY DEF AssignmentRevoked, process
<1>2. up # "down" /\ budget' \in Budgets
  BY <1>1, NotDownClaim DEF IInv, Types
<1>3. QED
  BY <1>1, <1>2, ClaimIdle, ClaimOnly

LEMMA ClaimAnswerLostInv ==
  ASSUME IInv, ClaimAnswerLost
  PROVE  IInv'
<1>1. /\ claim.net \in {"ok", "refused"}
      /\ claim' = IF claim.pc = "call" THEN NoCall ELSE [claim EXCEPT !.net = "sent"]
      /\ UNCHANGED <<core, durable, local, flush, resume, up, fatal, runs>>
  BY DEF ClaimAnswerLost
<1>2. up # "down" /\ budget' \in Budgets
  BY <1>1, NotDownClaim, LostType DEF IInv, ClaimAnswerLost
<1>3. CASE claim.pc = "call"
  BY <1>1, <1>2, <1>3, ClaimIdle, ClaimOnly
<1>4. CASE claim.pc # "call"
  <2>1. claim' \in ClaimRecords /\ claim'.pc = claim.pc /\ claim'.net = "sent" /\ claim'.a = claim.a
    BY <1>1, <1>4 DEF IInv, Types, ClaimRecords, Nets
  <2>2. ClaimOK'
    BY <1>1, <1>4, <2>1 DEF IInv, ClaimOK, durable
  <2>3. QED
    BY <1>1, <1>2, <1>4, <2>1, <2>2, ClaimOnly
<1>5. QED
  BY <1>3, <1>4

LEMMA AckUnroutedInv ==
  ASSUME IInv, AckUnrouted
  PROVE  IInv'
<1>1. /\ ReportFatal("no delivery message") /\ UNCHANGED <<core, record, events, runs>>
      /\ budget' \in Budgets
  BY LostType DEF AckUnrouted, durable, IInv
<1>2. QED
  BY <1>1, RuntimeWorkerAssumption, ProcessEndsAlone

\* An assignment that Core refuses: it has ended there, or was never accepted.
LEMMA AssignmentRefusedInv ==
  ASSUME IInv, AssignmentRefused
  PROVE  IInv'
<1>0. /\ claim.pc \in AssignmentCalls /\ claim.net = "refused" /\ claim.a \in Attempts
      /\ up # "down"
  BY NotDownClaim DEF AssignmentRefused, IInv, ClaimOK
<1> PICK a \in Attempts : a = claim.a
  BY <1>0
<1>1. /\ local' = [local EXCEPT ![a] = IF record[a] = "absent" THEN [local[a] EXCEPT !.terminal = TRUE]
                                       ELSE Revoke(local[a])]
      /\ claim' = [NoCall EXCEPT !.pc = "revoke", !.a = a]
      /\ UNCHANGED <<core, record, events, flush, resume, up, fatal, runs, budget>>
  BY DEF AssignmentRefused, durable, process
<1>2. local[a] \in Local /\ RecordOK(a) /\ SpentOK(a) /\ LocalOK(a) /\ core[a] # "idle"
  BY <1>0 DEF IInv, Types, AttemptsOK, ClaimOK
<1>3. record[a] = "finished" => core[a] \in Closed
  BY <1>0, <1>2 DEF IInv, ClaimOK, RecordOK, Accepted, Closed, AssignmentCalls, Done
<1>4. /\ claim' \in ClaimRecords /\ claim'.pc = "revoke" /\ claim'.net = "none" /\ claim'.a = a
  BY <1>1 DEF NoCall, ClaimRecords, ClaimPcs, Nets
<1>5. PICK l \in Local :
        /\ SetLocal(a, l) /\ l.ours = local[a].ours /\ l.terminal /\ LocalOK(a)'
  <2>1. CASE record[a] = "absent"
    <3> DEFINE l == [local[a] EXCEPT !.terminal = TRUE]
    <3>1. /\ l \in Local /\ l.ours = local[a].ours /\ l.active = local[a].active
          /\ l.cancelled = local[a].cancelled /\ l.expired = local[a].expired
          /\ l.terminal /\ l.allowed = local[a].allowed
          /\ l.finalizing = local[a].finalizing /\ l.cancel = local[a].cancel
          /\ l.handler = local[a].handler
      BY <1>2 DEF Local
    <3>2. SetLocal(a, l)
      BY <1>1, <2>1 DEF SetLocal
    <3> HIDE DEF l
    <3>3. local'[a] = l
      BY <3>1, <3>2, SetLocalFields DEF IInv, Types
    <3>4. LocalOK(a)'
      BY <1>1, <1>2, <2>1, <3>1, <3>3 DEF LocalOK, Live
    <3>5. QED
      BY <3>1, <3>2, <3>4
  <2>2. CASE record[a] # "absent"
    <3>1. SetLocal(a, Revoke(local[a])) /\ UNCHANGED <<core, record>>
      BY <1>1, <2>2 DEF SetLocal
    <3>2. QED
      BY <1>3, <3>1, RevokeKeeps, Zenon
  <2>3. QED
    BY <2>1, <2>2
<1>6. /\ local' \in [Attempts -> Local] /\ local'[a] = l
      /\ \A b \in Attempts : b # a => local'[b] = local[b]
  BY <1>5, SetLocalFields DEF IInv, Types
<1>7. Types' /\ DownIsEmpty' /\ FlushOK' /\ NoRefusal'
  BY <1>0, <1>1, <1>4, <1>6 DEF IInv, Types, DownIsEmpty, FlushOK, NoRefusal
<1>8. ClaimOK' /\ ResumeOK'
  BY <1>1, <1>2, <1>4 DEF IInv, ClaimOK, AssignmentCalls, ResumeOK
<1>9. AttemptsOK'
  <2> SUFFICES ASSUME NEW b \in Attempts
               PROVE  RecordOK(b)' /\ SpentOK(b)' /\ LocalOK(b)'
    BY DEF AttemptsOK
  <2>1. RecordOK(b) /\ SpentOK(b) /\ LocalOK(b)
    BY DEF IInv, AttemptsOK
  <2>2. RecordOK(b)' /\ SpentOK(b)'
    BY <1>1, <1>4, <1>5, <1>6, <2>1 DEF RecordOK, SpentOK
  <2>3. LocalOK(b)'
    <3>1. CASE b = a
      BY <1>5, <3>1
    <3>2. CASE b # a
      BY <1>1, <1>6, <2>1, <3>2 DEF LocalOK, Live
    <3>3. QED
      BY <3>1, <3>2
  <2>4. QED
    BY <2>2, <2>3
<1>10. QED
  BY <1>7, <1>8, <1>9 DEF IInv

\* What confirming an assignment does: the handler starts, unless the attempt is active or
\* terminal already.
LEMMA ConfirmAndStartFields ==
  ASSUME Types, NEW a \in Attempts, ConfirmAndStart(a)
  PROVE  /\ local' \in [Attempts -> Local]
         /\ record' \in [Attempts -> Records]
         /\ runs' \in [Attempts -> Nat]
         /\ \A b \in Attempts : b # a =>
              local'[b] = local[b] /\ record'[b] = record[b] /\ runs'[b] = runs[b]
         /\ local'[a].allowed /\ local'[a].ours = local[a].ours
         /\ local'[a].cancelled = local[a].cancelled /\ local'[a].expired = local[a].expired
         /\ local'[a].terminal = local[a].terminal /\ local'[a].cancel = local[a].cancel
         /\ local'[a].finalizing = local[a].finalizing
         /\ IF ~local[a].active /\ ~local[a].terminal
              THEN /\ record'[a] = "started" /\ runs'[a] = runs[a] + 1
                   /\ local'[a].active /\ local'[a].handler = "running"
              ELSE /\ record'[a] = "confirmed" /\ runs'[a] = runs[a]
                   /\ local'[a].active = local[a].active /\ local'[a].handler = local[a].handler
<1> DEFINE l == [local[a] EXCEPT !.allowed = TRUE]
           m == [l EXCEPT !.active = TRUE, !.handler = "running"]
<1>1. IF CanStart(l)
        THEN /\ record' = [record EXCEPT ![a] = "started"]
             /\ local' = [local EXCEPT ![a] = m]
             /\ runs' = [runs EXCEPT ![a] = @ + 1]
        ELSE /\ record' = [record EXCEPT ![a] = "confirmed"]
             /\ local' = [local EXCEPT ![a] = l]
             /\ UNCHANGED runs
  BY DEF ConfirmAndStart
<1>2. local[a] \in Local /\ runs[a] \in Nat
  BY DEF Types
<1>3. /\ l \in Local /\ l.ours = local[a].ours /\ l.active = local[a].active
      /\ l.cancelled = local[a].cancelled /\ l.expired = local[a].expired
      /\ l.terminal = local[a].terminal /\ l.allowed
      /\ l.finalizing = local[a].finalizing /\ l.cancel = local[a].cancel
      /\ l.handler = local[a].handler
  BY <1>2 DEF Local
<1> HIDE DEF l
<1>4. /\ m \in Local /\ m.ours = l.ours /\ m.active
      /\ m.cancelled = l.cancelled /\ m.expired = l.expired
      /\ m.terminal = l.terminal /\ m.allowed = l.allowed
      /\ m.finalizing = l.finalizing /\ m.cancel = l.cancel
      /\ m.handler = "running"
  BY <1>3 DEF Local, Handlers
<1> HIDE DEF m
<1>5. CASE CanStart(l)
  <2>1. /\ local' \in [Attempts -> Local] /\ local'[a] = m
        /\ \A b \in Attempts : b # a => local'[b] = local[b]
    BY <1>1, <1>4, <1>5 DEF Types
  <2>2. /\ record' \in [Attempts -> Records] /\ record'[a] = "started"
        /\ \A b \in Attempts : b # a => record'[b] = record[b]
    BY <1>1, <1>5 DEF Types, Records
  <2>3. /\ runs' \in [Attempts -> Nat] /\ runs'[a] = runs[a] + 1
        /\ \A b \in Attempts : b # a => runs'[b] = runs[b]
    BY <1>1, <1>2, <1>5 DEF Types
  <2>4. ~local[a].active /\ ~local[a].terminal
    BY <1>3, <1>5 DEF CanStart
  <2>5. QED
    BY <1>3, <1>4, <2>1, <2>2, <2>3, <2>4
<1>6. CASE ~CanStart(l)
  <2>1. /\ local' \in [Attempts -> Local] /\ local'[a] = l
        /\ \A b \in Attempts : b # a => local'[b] = local[b]
    BY <1>1, <1>3, <1>6 DEF Types
  <2>2. /\ record' \in [Attempts -> Records] /\ record'[a] = "confirmed"
        /\ \A b \in Attempts : b # a => record'[b] = record[b]
    BY <1>1, <1>6 DEF Types, Records
  <2>3. ~(~local[a].active /\ ~local[a].terminal)
    BY <1>3, <1>6 DEF CanStart
  <2>4. UNCHANGED runs
    BY <1>1, <1>6
  <2>5. QED
    BY <1>3, <2>1, <2>2, <2>3, <2>4 DEF Types
<1>7. QED
  BY <1>5, <1>6

\* An accepted assignment whose handler has not been started may be confirmed.
LEMMA StartsOnce ==
  ASSUME IInv, up # "down", NEW a \in Attempts, ConfirmAndStart(a),
         record[a] \in {"ack_sent", "confirmed"}, core[a] \in Accepted, runs[a] = 0,
         claim' \in {claim, NoCall},
         resume' \in ResumeRecords, resume'.pc = resume.pc, resume'.reconnect = resume.reconnect,
         resume'.snap = resume.snap, resume'.decision = resume.decision,
         resume'.left \subseteq resume.left, resume = NoResume => resume' = NoResume,
         UNCHANGED <<core, events, flush, up, fatal, budget>>
  PROVE  IInv'
<1>1. /\ local' \in [Attempts -> Local]
      /\ record' \in [Attempts -> Records]
      /\ runs' \in [Attempts -> Nat]
      /\ \A b \in Attempts : b # a =>
           local'[b] = local[b] /\ record'[b] = record[b] /\ runs'[b] = runs[b]
      /\ local'[a].allowed /\ local'[a].ours = local[a].ours
      /\ local'[a].cancelled = local[a].cancelled /\ local'[a].expired = local[a].expired
      /\ local'[a].terminal = local[a].terminal /\ local'[a].cancel = local[a].cancel
      /\ local'[a].finalizing = local[a].finalizing
      /\ IF ~local[a].active /\ ~local[a].terminal
           THEN /\ record'[a] = "started" /\ runs'[a] = runs[a] + 1
                /\ local'[a].active /\ local'[a].handler = "running"
           ELSE /\ record'[a] = "confirmed" /\ runs'[a] = runs[a]
                /\ local'[a].active = local[a].active /\ local'[a].handler = local[a].handler
  BY ConfirmAndStartFields DEF IInv
<1>2. RecordOK(a) /\ SpentOK(a) /\ LocalOK(a)
  BY DEF IInv, AttemptsOK
<1>3. claim' \in ClaimRecords /\ ClaimOK'
  <2>1. CASE claim' = NoCall
    BY <2>1, ClaimIdle
  <2>2. CASE claim' = claim
    BY <1>1, <2>2, FieldTypes DEF IInv, Types, ClaimOK, AssignmentCalls
  <2>3. QED
    BY <2>1, <2>2
<1>4. Types' /\ DownIsEmpty' /\ NoRefusal'
  BY <1>1, <1>3 DEF IInv, Types, DownIsEmpty, NoRefusal
<1>5. FlushOK'
  BY <1>1, FieldTypes DEF IInv, FlushOK, Uploads
<1>6. ResumeOK'
  <2>1. claim'.pc = "call" => claim.pc = "call"
    BY ClaimIdle
  <2>2. QED
    BY <1>1, <2>1 DEF IInv, ResumeOK
<1>7. AttemptsOK'
  <2> SUFFICES ASSUME NEW b \in Attempts
               PROVE  RecordOK(b)' /\ SpentOK(b)' /\ LocalOK(b)'
    BY DEF AttemptsOK
  <2>1. CASE b # a
    <3>1. RecordOK(b) /\ SpentOK(b) /\ LocalOK(b)
      BY DEF IInv, AttemptsOK
    <3>2. claim'.pc = "ack" => claim' = claim
      BY ClaimIdle
    <3>3. QED
      BY <1>1, <2>1, <3>1, <3>2 DEF RecordOK, SpentOK, LocalOK, Live
  <2>2. CASE b = a
    <3>1. ~local[a].active /\ core[a] \notin Done
      BY <1>2 DEF RecordOK, LocalOK
    <3>2. RecordOK(a)'
      BY <1>1, <1>2, <3>1 DEF RecordOK
    <3>3. SpentOK(a)'
      BY <1>1, <3>1 DEF SpentOK
    <3>4. LocalOK(a)'
      BY <1>1, <1>2, <3>1 DEF LocalOK, Live
    <3>5. QED
      BY <2>2, <3>2, <3>3, <3>4
  <2>3. QED
    BY <2>1, <2>2
<1>8. QED
  BY <1>3, <1>4, <1>5, <1>6, <1>7 DEF IInv

\* An assignment of an attempt whose handler has run is acknowledged anew only when Core
\* does not accept it any more: no start follows.
LEMMA HandleAssignmentInv ==
  ASSUME IInv, HandleAssignment
  PROVE  IInv'
<1>0. /\ claim.pc = "call" /\ claim.net = "ok" /\ claim.a \in Attempts /\ local[claim.a].ours
      /\ up # "down" /\ core[claim.a] # "idle" /\ resume = NoResume
  BY NotDownClaim DEF HandleAssignment, IInv, ClaimOK, ResumeOK
<1> PICK a \in Attempts : a = claim.a
  BY <1>0
<1>1. /\ UNCHANGED <<core, events, flush, resume, up, fatal, budget>>
      /\ IF local[a].terminal
           THEN claim' = NoCall /\ UNCHANGED <<record, local, runs>>
         ELSE IF record[a] \in {"absent", "received"}
           THEN /\ record' = [record EXCEPT ![a] = IF Full THEN "reject_sent" ELSE "ack_sent"]
                /\ claim' = [claim EXCEPT !.pc = IF Full THEN "reject" ELSE "ack", !.net = "sent"]
                /\ UNCHANGED <<local, runs>>
         ELSE IF record[a] \in {"ack_sent", "started", "finished"}
           THEN /\ claim' = [claim EXCEPT !.pc = IF record[a] = "ack_sent" THEN "ack" ELSE "reack",
                                          !.net = "sent"]
                /\ UNCHANGED <<record, local, runs>>
         ELSE IF record[a] = "confirmed"
           THEN ConfirmAndStart(a) /\ claim' = NoCall
         ELSE claim' = NoCall /\ UNCHANGED <<record, local, runs>>
  BY DEF HandleAssignment, process
<1>2. /\ RecordOK(a) /\ SpentOK(a) /\ LocalOK(a) /\ budget' \in Budgets
      /\ local[a].ours /\ core[a] # "idle" /\ resume.pc = "idle"
      /\ resume.decision[a] # "continue_execution"
  BY <1>0, <1>1 DEF IInv, AttemptsOK, Types, NoResume
<1>3. CASE claim' = NoCall /\ UNCHANGED <<record, local, runs>>
  BY <1>0, <1>1, <1>2, <1>3, ClaimIdle, ClaimOnly DEF durable
<1>4. CASE ~local[a].terminal /\ record[a] \in {"absent", "received"}
  <2>1. PICK pc \in {"ack", "reject"}, state \in {"ack_sent", "reject_sent"} :
          /\ record' = [record EXCEPT ![a] = state]
          /\ claim' = [claim EXCEPT !.pc = pc, !.net = "sent"]
          /\ pc = "reject" <=> state = "reject_sent"
    BY <1>1, <1>4
  <2>2. UNCHANGED <<local, runs>>
    BY <1>1, <1>4
  <2>3. /\ record' \in [Attempts -> Records] /\ record'[a] = state
        /\ \A b \in Attempts : b # a => record'[b] = record[b]
    BY <2>1 DEF IInv, Types, Records
  <2>4. claim' \in ClaimRecords /\ claim'.pc = pc /\ claim'.net = "sent" /\ claim'.a = a
    BY <2>1 DEF IInv, Types, ClaimRecords, ClaimPcs, AssignmentCalls, Nets
  <2>5. ClaimOK'
    BY <1>1, <1>2, <2>1, <2>3, <2>4 DEF ClaimOK, AssignmentCalls
  <2>6. Types' /\ DownIsEmpty' /\ NoRefusal'
    BY <1>0, <1>1, <2>2, <2>3, <2>4 DEF IInv, Types, DownIsEmpty, NoRefusal
  <2>7. FlushOK'
    BY <1>1, <1>4, <2>3, FieldTypes DEF IInv, FlushOK, Uploads
  <2>8. ResumeOK'
    BY <1>0, <1>1 DEF ResumeOK, NoResume
  <2>9. AttemptsOK'
    <3> SUFFICES ASSUME NEW b \in Attempts
                 PROVE  RecordOK(b)' /\ SpentOK(b)' /\ LocalOK(b)'
      BY DEF AttemptsOK
    <3>1. CASE b # a
      <4>1. RecordOK(b) /\ SpentOK(b) /\ LocalOK(b)
        BY DEF IInv, AttemptsOK
      <4>2. QED
        BY <1>0, <1>1, <2>2, <2>3, <2>4, <3>1, <4>1 DEF RecordOK, SpentOK, LocalOK, Live
    <3>2. CASE b = a
      <4>1. RecordOK(a)'
        BY <1>1, <1>2, <1>4, <2>2, <2>3 DEF RecordOK
      <4>2. runs[a] = 1 => core[a] \in Closed
        BY <1>2, <1>4 DEF SpentOK
      <4>3. SpentOK(a)'
        BY <1>1, <1>2, <2>2, <2>4, <4>2 DEF SpentOK
      <4>4. LocalOK(a)'
        BY <1>1, <1>2, <1>4, <2>2, <2>3 DEF LocalOK, Live
      <4>5. QED
        BY <3>2, <4>1, <4>3, <4>4
    <3>3. QED
      BY <3>1, <3>2
  <2>10. QED
    BY <2>5, <2>6, <2>7, <2>8, <2>9 DEF IInv
<1>5. CASE ~local[a].terminal /\ record[a] \in {"ack_sent", "started", "finished"}
  <2>1. PICK pc \in {"ack", "reack"} : claim' = [claim EXCEPT !.pc = pc, !.net = "sent"]
    BY <1>1, <1>5
  <2>2. UNCHANGED <<record, local, runs>>
    BY <1>1, <1>5
  <2>3. claim' \in ClaimRecords /\ claim'.pc = pc /\ claim'.net = "sent" /\ claim'.a = a
    BY <2>1 DEF IInv, Types, ClaimRecords, ClaimPcs, AssignmentCalls, Nets
  <2>4. ClaimOK'
    BY <1>1, <1>2, <2>3 DEF ClaimOK, AssignmentCalls
  <2>5. QED
    BY <1>0, <1>1, <1>2, <2>2, <2>3, <2>4, ClaimOnly DEF durable
<1>6. CASE ~local[a].terminal /\ record[a] = "confirmed"
  <2>1. ConfirmAndStart(a) /\ claim' = NoCall
    BY <1>1, <1>6
  <2>2. core[a] \in Accepted /\ runs[a] = 0
    BY <1>2, <1>6 DEF RecordOK
  <2>3. resume \in ResumeRecords
    BY DEF IInv, Types
  <2>4. QED
    BY <1>0, <1>1, <1>6, <2>1, <2>2, <2>3, StartsOnce
<1>7. QED
  BY <1>1, <1>3, <1>4, <1>5, <1>6

LEMMA AssignmentConfirmedInv ==
  ASSUME IInv, AssignmentConfirmed
  PROVE  IInv'
<1>0. /\ claim.pc \in {"ack", "reack"} /\ claim.net = "ok" /\ claim.a \in Attempts /\ up # "down"
      /\ core[claim.a] \in Accepted
  BY NotDownClaim DEF AssignmentConfirmed, IInv, ClaimOK, AssignmentCalls
<1> PICK a \in Attempts : a = claim.a
  BY <1>0
<1>1. /\ UNCHANGED <<core, events, budget>>
      /\ IF local[a].terminal \/ claim.pc = "reack"
           THEN claim' = NoCall /\ UNCHANGED <<record, local, runs, flush, resume, up, fatal>>
         ELSE IF record[a] \in {"ack_sent", "confirmed"}
           THEN ConfirmAndStart(a) /\ claim' = NoCall /\ UNCHANGED <<flush, resume, up, fatal>>
         ELSE ReportFatal("assignment already confirmed") /\ UNCHANGED <<record, runs>>
  BY DEF AssignmentConfirmed
<1>2. RecordOK(a) /\ SpentOK(a) /\ budget' \in Budgets /\ resume \in ResumeRecords
  BY <1>1 DEF IInv, AttemptsOK, Types
<1>3. CASE local[a].terminal \/ claim.pc = "reack"
  BY <1>0, <1>1, <1>2, <1>3, ClaimIdle, ClaimOnly DEF durable
<1>4. CASE ~(local[a].terminal \/ claim.pc = "reack") /\ record[a] \in {"ack_sent", "confirmed"}
  <2>1. /\ ConfirmAndStart(a) /\ claim' = NoCall /\ UNCHANGED <<flush, resume, up, fatal>>
    BY <1>1, <1>4
  <2>2. runs[a] = 0
    <3>1. runs[a] \in Nat /\ runs[a] <= 1
      BY <1>2 DEF IInv, Types, RecordOK
    <3>2. record[a] = "confirmed" => runs[a] = 0
      BY <1>2 DEF RecordOK
    <3>3. record[a] = "ack_sent" => runs[a] # 1
      BY <1>0, <1>2, <1>4 DEF SpentOK
    <3>4. QED
      BY <1>4, <3>1, <3>2, <3>3
  <2>3. QED
    BY <1>0, <1>1, <1>2, <1>4, <2>1, <2>2, StartsOnce
<1>5. CASE ~(local[a].terminal \/ claim.pc = "reack") /\ record[a] \notin {"ack_sent", "confirmed"}
  <2>1. /\ ReportFatal("assignment already confirmed") /\ UNCHANGED <<core, record, events, runs>>
    BY <1>1, <1>5
  <2>2. QED
    BY <1>2, <2>1, RuntimeWorkerAssumption, ProcessEndsAlone
<1>6. QED
  BY <1>3, <1>4, <1>5

\* The record of a rejection is still there when the answer comes, or the attempt is
\* terminal: the process does not end.
LEMMA AssignmentRejectedInv ==
  ASSUME IInv, AssignmentRejected
  PROVE  IInv'
<1>0. /\ claim.pc = "reject" /\ claim.net = "ok" /\ claim.a \in Attempts /\ up # "down"
      /\ record[claim.a] \in {"reject_sent", "absent"}
      /\ local[claim.a].terminal \/ record[claim.a] = "reject_sent"
  BY NotDownClaim DEF AssignmentRejected, IInv, ClaimOK, AssignmentCalls
<1> PICK a \in Attempts : a = claim.a
  BY <1>0
<1>1. /\ UNCHANGED <<core, events, runs, budget, local, flush, resume, up, fatal>>
      /\ claim' = NoCall
      /\ record' = record \/ record' = [record EXCEPT ![a] = "absent"]
      /\ ~local[a].terminal => record' = [record EXCEPT ![a] = "absent"]
      /\ local[a].terminal => record' = record
  BY <1>0 DEF AssignmentRejected
<1>2. RecordOK(a) /\ SpentOK(a) /\ LocalOK(a) /\ budget' \in Budgets
  BY <1>1 DEF IInv, AttemptsOK, Types
<1>3. CASE local[a].terminal
  BY <1>0, <1>1, <1>2, <1>3, ClaimIdle, ClaimOnly DEF durable
<1>4. CASE ~local[a].terminal
  <2>1. /\ record' \in [Attempts -> Records] /\ record'[a] = "absent" /\ record[a] = "reject_sent"
        /\ \A b \in Attempts : b # a => record'[b] = record[b]
    BY <1>0, <1>1, <1>4 DEF IInv, Types, Records
  <2>2. Types' /\ DownIsEmpty' /\ NoRefusal' /\ ClaimOK'
    BY <1>0, <1>1, <2>1, ClaimIdle DEF IInv, Types, DownIsEmpty, NoRefusal
  <2>3. FlushOK'
    BY <1>1, <2>1, FieldTypes DEF IInv, FlushOK, Uploads
  <2>4. ResumeOK'
    BY <1>1, <2>1, ClaimIdle DEF IInv, ResumeOK
  <2>5. AttemptsOK'
    <3> SUFFICES ASSUME NEW b \in Attempts
                 PROVE  RecordOK(b)' /\ SpentOK(b)' /\ LocalOK(b)'
      BY DEF AttemptsOK
    <3>1. claim'.pc # "ack"
      BY <1>1, ClaimIdle
    <3>2. CASE b # a
      <4>1. RecordOK(b) /\ SpentOK(b) /\ LocalOK(b)
        BY DEF IInv, AttemptsOK
      <4>2. QED
        BY <1>1, <2>1, <3>1, <3>2, <4>1 DEF RecordOK, SpentOK, LocalOK, Live
    <3>3. CASE b = a
      <4>1. RecordOK(a)'
        BY <1>1, <1>2, <2>1 DEF RecordOK
      <4>2. SpentOK(a)'
        BY <1>1, <1>2, <2>1 DEF SpentOK, FinalRecords
      <4>3. LocalOK(a)'
        BY <1>1, <1>2, <2>1 DEF LocalOK, Live
      <4>4. QED
        BY <3>3, <4>1, <4>2, <4>3
    <3>4. QED
      BY <3>2, <3>3
  <2>6. QED
    BY <2>2, <2>3, <2>4, <2>5 DEF IInv
<1>5. QED
  BY <1>3, <1>4

-----------------------------------------------------------------------------
(* The steps of a start, a switch and a resume *)

\* A report of the journal: it is about attempts that Core knows.
LEMMA ReportFields ==
  ASSUME IInv, NEW reconnect \in BOOLEAN
  PROVE  /\ Report(reconnect) \in ResumeRecords
         /\ Report(reconnect).pc = "call" /\ Report(reconnect).reconnect = reconnect
         /\ Report(reconnect).left = Kept /\ Report(reconnect).snap = record
         /\ Report(reconnect).decision = [a \in Attempts |-> "none"]
         /\ \A a \in Kept : core[a] # "idle"
<1>1. \A a \in Kept : core[a] # "idle"
  BY DEF IInv, AttemptsOK, RecordOK, Kept
<1>2. NoResume \in ResumeRecords /\ Kept \subseteq Attempts /\ record \in [Attempts -> Records]
  BY NothingType, RuntimeWorkerAssumption DEF IInv, Types, Kept
<1>3. NoResume.decision = [a \in Attempts |-> "none"]
  BY DEF NoResume
<1>4. QED
  BY <1>1, <1>2, <1>3 DEF Report, ResumeRecords, Nets

\* A step of the resume alone.
LEMMA ResumeOnly ==
  ASSUME IInv, up # "down", up' \in Ups \ {"down"}, claim' \in ClaimRecords, ClaimOK',
         claim'.pc = claim.pc, claim'.net = claim.net, claim'.a = claim.a,
         resume' \in ResumeRecords, ResumeOK', budget' \in Budgets,
         \A a \in Attempts : resume'.decision[a] \in {resume.decision[a], "none"},
         UNCHANGED <<core, durable, local, flush, fatal, runs>>
  PROVE  IInv'
<1> USE DEF IInv, durable
<1>1. Types'
  BY DEF Types
<1>2. DownIsEmpty'
  BY DEF DownIsEmpty
<1>3. FlushOK'
  BY DEF FlushOK
<1>4. AttemptsOK'
  BY DEF AttemptsOK, RecordOK, SpentOK, LocalOK, Live
<1>5. NoRefusal'
  BY DEF NoRefusal
<1>6. QED
  BY <1>1, <1>2, <1>3, <1>4, <1>5

LEMMA SwitchStartInv ==
  ASSUME IInv, SwitchStart
  PROVE  IInv'
<1>1. /\ claim.pc # "call" /\ resume' = Report(TRUE) /\ up # "down" /\ up \in Ups
      /\ UNCHANGED <<core, record, events, local, claim, flush, up, fatal, runs>>
      /\ budget' \in Budgets
  BY DEF SwitchStart, Running, durable, IInv, Types, Budgets
<1>2. ResumeOK' /\ resume' \in ResumeRecords
  BY <1>1, ReportFields DEF ResumeOK
<1>3. claim' \in ClaimRecords /\ ClaimOK'
  BY <1>1 DEF IInv, Types, ClaimOK
<1>4. QED
  BY <1>1, <1>2, <1>3, ReportFields, ResumeOnly DEF durable

\* A new process: its predecessor's tasks are gone.
LEMMA StartProcessInv ==
  ASSUME IInv, StartProcess
  PROVE  IInv'
<1>1. /\ up = "down" /\ budget' = [budget EXCEPT !.starts = @ - 1] /\ budget.starts > 0
      /\ events' = [a \in Attempts |-> IF record[a] \in FinalRecords THEN 0 ELSE events[a]]
      /\ resume' = IF Kept = {} THEN NoResume ELSE Report(FALSE)
      /\ up' = IF Kept = {} THEN "running" ELSE "starting"
      /\ fatal' = "none"
      /\ UNCHANGED <<core, record, local, claim, flush, runs>>
  BY DEF StartProcess
<1>2. claim = NoCall /\ flush = NoFlush /\ local = [a \in Attempts |-> NoLocal]
  BY <1>1 DEF IInv, DownIsEmpty
<1>3. budget' \in Budgets
  BY <1>1 DEF IInv, Types, Budgets
<1>4. events' \in [Attempts -> 0 .. MaxEvents]
  BY <1>1, RuntimeWorkerAssumption DEF IInv, Types
<1>5. resume' \in ResumeRecords /\ ResumeOK'
  <2>1. CASE Kept = {}
    BY <1>1, <2>1, NothingType, RuntimeWorkerAssumption DEF ResumeOK, NoResume
  <2>2. CASE Kept # {}
    BY <1>1, <1>2, <2>2, ReportFields DEF ResumeOK, NoCall
  <2>3. QED
    BY <2>1, <2>2
<1>6. Types' /\ DownIsEmpty' /\ NoRefusal'
  BY <1>1, <1>3, <1>4, <1>5 DEF IInv, Types, Ups, DownIsEmpty, NoRefusal
<1>7. ClaimOK'
  BY <1>1 DEF IInv, ClaimOK
<1>8. FlushOK'
  BY <1>1, <1>2 DEF FlushOK, NoFlush, Uploads
<1>9. AttemptsOK'
  <2> SUFFICES ASSUME NEW b \in Attempts
               PROVE  RecordOK(b)' /\ SpentOK(b)' /\ LocalOK(b)'
    BY DEF AttemptsOK
  <2>1. RecordOK(b) /\ SpentOK(b) /\ LocalOK(b)
    BY DEF IInv, AttemptsOK
  <2>2. events'[b] \in {0, events[b]}
    BY <1>1
  <2>3. resume'.decision[b] = "none"
    BY <1>1, ReportFields DEF NoResume
  <2>4. QED
    BY <1>1, <2>1, <2>2, <2>3 DEF RecordOK, SpentOK, LocalOK, Live
<1>10. QED
  BY <1>5, <1>6, <1>7, <1>8, <1>9 DEF IInv

LEMMA NotDownResume == ASSUME IInv, resume.pc # "idle" PROVE up # "down"
  BY DEF IInv, DownIsEmpty, NoResume

LEMMA ResumeAnsweredInv ==
  ASSUME IInv, ResumeAnswered
  PROVE  IInv'
<1>1. /\ resume.pc = "call" /\ resume' = [resume EXCEPT !.pc = "apply"]
      /\ UNCHANGED <<core, record, events, local, claim, flush, up, fatal, runs, budget>>
  BY DEF ResumeAnswered, durable, process
<1>2. /\ resume' \in ResumeRecords /\ resume'.pc = "apply" /\ resume'.reconnect = resume.reconnect
      /\ resume'.left = resume.left /\ resume'.snap = resume.snap
      /\ resume'.decision = resume.decision
  BY <1>1 DEF IInv, Types, ResumeRecords
<1>3. ResumeOK'
  BY <1>1, <1>2 DEF IInv, ResumeOK
<1>4. ClaimOK' /\ claim' \in ClaimRecords /\ up # "down" /\ up' \in Ups \ {"down"}
      /\ budget' \in Budgets
  BY <1>1, NotDownResume DEF IInv, Types, ClaimOK
<1>5. QED
  BY <1>1, <1>2, <1>3, <1>4, ResumeOnly DEF durable

LEMMA ResumeAnswerLostInv ==
  ASSUME IInv, ResumeAnswerLost
  PROVE  IInv'
<1> DEFINE D == [a \in Attempts |-> "none"]
<1>1. /\ resume.pc = "call" /\ resume' = [resume EXCEPT !.net = "sent", !.decision = D]
      /\ UNCHANGED <<core, record, events, local, claim, flush, up, fatal, runs>>
  BY DEF ResumeAnswerLost, durable
<1>2. D \in [Attempts -> DecisionsOrNone] /\ \A a \in Attempts : D[a] = "none"
  BY DEF DecisionsOrNone
<1> HIDE DEF D
<1>3. /\ resume' \in ResumeRecords /\ resume'.pc = "call" /\ resume'.reconnect = resume.reconnect
      /\ resume'.left = resume.left /\ resume'.snap = resume.snap /\ resume'.decision = D
  BY <1>1, <1>2 DEF IInv, Types, ResumeRecords, Nets
<1>4. ResumeOK'
  BY <1>1, <1>2, <1>3 DEF IInv, ResumeOK
<1>5. ClaimOK' /\ claim' \in ClaimRecords /\ up # "down" /\ up' \in Ups \ {"down"}
      /\ budget' \in Budgets
  BY <1>1, NotDownResume, LostType DEF IInv, Types, ClaimOK, ResumeAnswerLost
<1>6. QED
  BY <1>1, <1>2, <1>3, <1>4, <1>5, ResumeOnly DEF durable

LEMMA ResumeEndsInv ==
  ASSUME IInv, ResumeEnds
  PROVE  IInv'
<1>1. PICK toWebSocket \in BOOLEAN :
        claim' = [claim EXCEPT !.unrouted =
                    resume.reconnect /\ toWebSocket /\ claim.pc \in {"ack", "reack"}]
  BY DEF ResumeEnds
<1>2. /\ resume.pc = "apply" /\ resume' = NoResume
      /\ up' = IF up = "starting" THEN "running" ELSE up
      /\ UNCHANGED <<core, record, events, local, flush, fatal, runs, budget>>
  BY DEF ResumeEnds, durable
<1>3. /\ claim' \in ClaimRecords /\ claim'.pc = claim.pc /\ claim'.net = claim.net
      /\ claim'.a = claim.a
  BY <1>1, FieldTypes DEF IInv, Types, ClaimRecords
<1>4. ClaimOK'
  BY <1>2, <1>3 DEF IInv, ClaimOK
<1>5. up # "down" /\ up' \in Ups \ {"down"} /\ budget' \in Budgets
  BY <1>2, NotDownResume DEF IInv, Types, Ups
<1>6. resume' \in ResumeRecords /\ \A a \in Attempts : resume'.decision[a] = "none"
  BY <1>2, NothingType, RuntimeWorkerAssumption DEF NoResume
<1>7. ResumeOK'
  BY <1>2 DEF ResumeOK, NoResume
<1>8. QED
  BY <1>2, <1>3, <1>4, <1>5, <1>6, <1>7, ResumeOnly DEF durable

LEMMA DrainInv ==
  ASSUME IInv, Drain
  PROVE  IInv'
<1>1. /\ up = "running" /\ up' = "draining"
      /\ UNCHANGED <<core, record, events, local, claim, flush, resume, fatal, runs, budget>>
  BY DEF Drain, durable
<1>2. ResumeOK' /\ ClaimOK' /\ claim' \in ClaimRecords /\ resume' \in ResumeRecords
      /\ budget' \in Budgets /\ up' \in Ups \ {"down"}
  BY <1>1 DEF IInv, Types, Ups, ResumeOK, ClaimOK
<1>3. QED
  BY <1>1, <1>2, ResumeOnly DEF durable

\* An attempt of the report is done with.
LEMMA AppliedFields ==
  ASSUME IInv, NEW a \in Attempts, Applied(a)
  PROVE  /\ resume' \in ResumeRecords /\ resume'.pc = resume.pc
         /\ resume'.reconnect = resume.reconnect /\ resume'.left = resume.left \ {a}
         /\ resume'.snap = resume.snap /\ resume'.decision = resume.decision
         /\ resume'.left \subseteq resume.left /\ resume'.left \subseteq Attempts
<1>1. resume' = [resume EXCEPT !.left = resume.left \ {a}, !.at = NoAttempt]
  BY DEF Applied
<1>2. resume.left \ {a} \in SUBSET Attempts
  BY FieldTypes DEF IInv
<1>3. QED
  BY <1>1, <1>2 DEF IInv, Types, ResumeRecords

\* The process changes what it keeps of one attempt, and Core moves on or a decision is applied.
LEMMA LocalStep ==
  ASSUME IInv, up # "down", Ahead,
         NEW a \in Attempts, NEW l \in Local, SetLocal(a, l),
         l.ours = local[a].ours, local[a].terminal => l.terminal, LocalOK(a)',
         resume' \in ResumeRecords, resume'.pc = resume.pc, resume'.reconnect = resume.reconnect,
         resume'.snap = resume.snap, resume'.decision = resume.decision,
         resume'.left \subseteq resume.left, resume = NoResume => resume' = NoResume,
         budget' \in Budgets,
         UNCHANGED <<record, events, claim, flush, up, fatal, runs>>
  PROVE  IInv'
<1>1. /\ local' \in [Attempts -> Local] /\ local'[a] = l
      /\ \A b \in Attempts : b # a => local'[b] = local[b]
  BY SetLocalFields DEF IInv, Types
<1>2. Types' /\ DownIsEmpty' /\ NoRefusal'
  BY <1>1 DEF IInv, Types, DownIsEmpty, NoRefusal, Ahead
<1>3. ClaimOK'
  <2>1. claim.a \in Attempts => core'[claim.a] # "idle"
    BY DEF IInv, ClaimOK, Ahead
  <2>2. /\ claim.pc \in {"ack", "reack"} /\ claim.net = "ok" => core'[claim.a] \in Accepted
        /\ claim.pc \in {"ack", "reack"} /\ claim.net = "refused"
             => core'[claim.a] \in Closed \union {"rejected"}
    <3> SUFFICES ASSUME claim.pc \in {"ack", "reack"}
                 PROVE  /\ claim.net = "ok" => core'[claim.a] \in Accepted
                        /\ claim.net = "refused" => core'[claim.a] \in Closed \union {"rejected"}
      OBVIOUS
    <3>1. claim.a \in Attempts
      BY DEF IInv, ClaimOK, AssignmentCalls
    <3>2. claim.net = "ok" => core[claim.a] \in Accepted
      BY DEF IInv, ClaimOK
    <3>3. claim.net = "refused" => core[claim.a] \in Closed \union {"rejected"}
      BY DEF IInv, ClaimOK
    <3>4. QED
      BY <3>1, <3>2, <3>3 DEF Ahead, Closed
  <2>3. QED
    BY <1>1, <2>1, <2>2, FieldTypes DEF IInv, ClaimOK, AssignmentCalls
<1>4. FlushOK'
  BY FieldTypes DEF IInv, FlushOK, Ahead, Uploads
<1>5. ResumeOK'
  BY FieldTypes DEF IInv, ResumeOK, Ahead
<1>6. AttemptsOK'
  <2> SUFFICES ASSUME NEW b \in Attempts
               PROVE  RecordOK(b)' /\ SpentOK(b)' /\ LocalOK(b)'
    BY DEF AttemptsOK
  <2>1. RecordOK(b) /\ SpentOK(b) /\ LocalOK(b)
    BY DEF IInv, AttemptsOK
  <2>2. RecordOK(b)'
    BY <2>1 DEF Ahead, RecordOK
  <2>3. SpentOK(b)'
    BY <1>1, <2>1 DEF Ahead, SpentOK
  <2>4. LocalOK(b)'
    <3>1. CASE b = a
      BY <3>1
    <3>2. CASE b # a
      BY <1>1, <2>1, <3>2 DEF Ahead, LocalOK, Live
    <3>3. QED
      BY <3>1, <3>2
  <2>5. QED
    BY <2>2, <2>3, <2>4
<1>7. QED
  BY <1>2, <1>3, <1>4, <1>5, <1>6 DEF IInv

LEMMA AheadUnchanged == ASSUME IInv, UNCHANGED core PROVE Ahead
  BY DEF IInv, Types, Ahead

LEMMA ApplyUploadOnlyInv ==
  ASSUME IInv, NEW a \in Attempts, ApplyUploadOnly(a)
  PROVE  IInv'
<1> DEFINE l == [local[a] EXCEPT !.allowed = TRUE]
<1>1. /\ resume.pc = "apply" /\ resume.decision[a] = "upload_spool_only" /\ Applied(a)
      /\ SetLocal(a, l)
      /\ UNCHANGED <<core, record, events, claim, flush, up, fatal, runs, budget>>
  BY DEF ApplyUploadOnly, Applying, durable, process
<1>2. local[a] \in Local /\ up # "down" /\ core[a] \in Accepted /\ budget' \in Budgets
      /\ resume # NoResume
  BY <1>1, NotDownResume DEF IInv, Types, ResumeOK, NoResume
<1>3. /\ l \in Local /\ l.ours = local[a].ours /\ l.active = local[a].active
      /\ l.cancelled = local[a].cancelled /\ l.expired = local[a].expired
      /\ l.terminal = local[a].terminal /\ l.allowed
      /\ l.finalizing = local[a].finalizing /\ l.cancel = local[a].cancel
      /\ l.handler = local[a].handler
  BY <1>2 DEF Local
<1> HIDE DEF l
<1>4. local'[a] = l
  BY <1>1, <1>3, SetLocalFields DEF IInv, Types
<1>5. LocalOK(a)'
  BY <1>1, <1>2, <1>3, <1>4 DEF IInv, AttemptsOK, LocalOK, Live
<1>6. Ahead
  BY <1>1, AheadUnchanged
<1>7. QED
  BY <1>1, <1>2, <1>3, <1>5, <1>6, AppliedFields, LocalStep

\* A resume that fails ends the process, or is given up.
LEMMA ResumeFailsInv ==
  ASSUME IInv, resume.pc = "apply", NEW cause, ResumeFails(cause),
         cause \notin {"Result of no started assignment", "rejected assignment is gone"},
         UNCHANGED <<core, record, events, runs, budget>>
  PROVE  IInv'
<1>1. budget' \in Budgets /\ up # "down"
  BY NotDownResume DEF IInv, Types
<1>2. CASE ReportFatal(cause)
  BY <1>1, <1>2, RuntimeWorkerAssumption, ProcessEndsAlone
<1>3. CASE resume.reconnect /\ resume' = NoResume /\ UNCHANGED <<local, claim, flush, up, fatal>>
  <2>1. resume' \in ResumeRecords /\ \A a \in Attempts : resume'.decision[a] = "none"
    BY <1>3, NothingType, RuntimeWorkerAssumption DEF NoResume
  <2>2. ResumeOK'
    BY <1>3 DEF ResumeOK, NoResume
  <2>3. ClaimOK' /\ claim' \in ClaimRecords /\ up' \in Ups \ {"down"}
    BY <1>1, <1>3 DEF IInv, Types, ClaimOK
  <2>4. QED
    BY <1>1, <1>3, <2>1, <2>2, <2>3, ResumeOnly DEF durable
<1>4. QED
  BY <1>2, <1>3 DEF ResumeFails

\* Core lets an attempt go on: only an assignment whose handler has not been started is
\* confirmed and started.
LEMMA ApplyContinueInv ==
  ASSUME IInv, NEW a \in Attempts, ApplyContinue(a)
  PROVE  IInv'
<1> DEFINE snap == resume.snap[a]
           fail(cause) == ResumeFails(cause) /\ UNCHANGED <<record, runs>>
<1>1. /\ resume.pc = "apply" /\ resume.decision[a] = "continue_execution"
      /\ UNCHANGED <<core, events, budget>>
      /\ IF snap \in {"started", "finished"}
           THEN IF ~resume.reconnect THEN fail("a previous process started this Attempt")
                ELSE IF ~local[a].active THEN fail("no live lease owner")
                ELSE /\ SetLocal(a, [local[a] EXCEPT !.allowed = TRUE])
                     /\ Applied(a)
                     /\ UNCHANGED <<record, runs, claim, flush, up, fatal>>
         ELSE IF snap \notin {"ack_sent", "confirmed"} \/ record[a] \notin {"ack_sent", "confirmed"}
           THEN fail("not executable")
         ELSE ConfirmAndStart(a) /\ Applied(a) /\ UNCHANGED <<claim, flush, up, fatal>>
  BY DEF ApplyContinue, Applying
<1> HIDE DEF snap, fail
<1>2. local[a] \in Local /\ up # "down" /\ core[a] \in Accepted /\ budget' \in Budgets
      /\ resume # NoResume /\ RecordOK(a) /\ SpentOK(a) /\ LocalOK(a)
  <2>1. resume.pc = "apply" /\ up # "down"
    BY <1>1, NotDownResume
  <2>2. resume # NoResume
    BY <2>1 DEF NoResume
  <2>3. core[a] \in Accepted
    BY <1>1 DEF IInv, ResumeOK
  <2>4. local[a] \in Local /\ budget' \in Budgets
    BY <1>1 DEF IInv, Types
  <2>5. RecordOK(a) /\ SpentOK(a) /\ LocalOK(a)
    BY DEF IInv, AttemptsOK
  <2>6. QED
    BY <2>1, <2>2, <2>3, <2>4, <2>5
<1>3. CASE fail("a previous process started this Attempt")
  BY <1>1, <1>3, ResumeFailsInv DEF fail
<1>4. CASE fail("no live lease owner")
  BY <1>1, <1>4, ResumeFailsInv DEF fail
<1>5. CASE fail("not executable")
  BY <1>1, <1>5, ResumeFailsInv DEF fail
<1>6. CASE /\ SetLocal(a, [local[a] EXCEPT !.allowed = TRUE])
           /\ Applied(a)
           /\ UNCHANGED <<record, runs, claim, flush, up, fatal>>
  <2> DEFINE l == [local[a] EXCEPT !.allowed = TRUE]
  <2>1. /\ l \in Local /\ l.ours = local[a].ours /\ l.active = local[a].active
        /\ l.cancelled = local[a].cancelled /\ l.expired = local[a].expired
        /\ l.terminal = local[a].terminal /\ l.allowed
        /\ l.finalizing = local[a].finalizing /\ l.cancel = local[a].cancel
        /\ l.handler = local[a].handler
    BY <1>2 DEF Local
  <2>2. SetLocal(a, l)
    BY <1>6
  <2> HIDE DEF l
  <2>3. local'[a] = l
    BY <2>1, <2>2, SetLocalFields DEF IInv, Types
  <2>4. LocalOK(a)'
    BY <1>1, <1>2, <1>6, <2>1, <2>3 DEF LocalOK, Live
  <2>5. Ahead
    BY <1>1, AheadUnchanged
  <2>6. QED
    BY <1>1, <1>2, <1>6, <2>1, <2>2, <2>4, <2>5, AppliedFields, LocalStep
<1>7. CASE /\ record[a] \in {"ack_sent", "confirmed"} /\ ConfirmAndStart(a) /\ Applied(a)
           /\ UNCHANGED <<claim, flush, up, fatal>>
  <2>1. runs[a] = 0
    <3>1. runs[a] \in Nat /\ runs[a] <= 1
      BY <1>2 DEF IInv, Types, RecordOK
    <3>2. record[a] = "confirmed" => runs[a] = 0
      BY <1>2 DEF RecordOK
    <3>3. record[a] = "ack_sent" => runs[a] # 1
      BY <1>1, <1>2, <1>7 DEF SpentOK
    <3>4. QED
      BY <1>7, <3>1, <3>2, <3>3
  <2>2. QED
    BY <1>1, <1>2, <1>7, <2>1, AppliedFields, StartsOnce
<1>8. QED
  BY <1>1, <1>3, <1>4, <1>5, <1>6, <1>7

\* The resume waits for the lock or for the finalizer of the attempt it is at.
LEMMA WaitsFields ==
  ASSUME IInv, NEW a \in Attempts, resume.pc = "apply", WaitsAt(a)
  PROVE  /\ resume' \in ResumeRecords /\ resume'.pc = resume.pc
         /\ resume'.reconnect = resume.reconnect /\ resume'.left = resume.left
         /\ resume'.snap = resume.snap /\ resume'.decision = resume.decision
         /\ resume # NoResume
  BY DEF IInv, Types, ResumeRecords, WaitsAt, NoResume

LEMMA AcknowledgedWaitsInv ==
  ASSUME IInv, NEW a \in Attempts, AcknowledgedWaits(a)
  PROVE  IInv'
<1> DEFINE l == [local[a] EXCEPT !.cancelled = local[a].cancelled \/ local[a].active]
<1>1. /\ resume.pc = "apply" /\ SetLocal(a, l) /\ WaitsAt(a)
      /\ UNCHANGED <<core, durable, claim, flush, up, fatal, runs, budget>>
  BY DEF AcknowledgedWaits, Applying, process
<1>2. local[a] \in Local /\ up # "down" /\ budget' \in Budgets /\ Ahead
  BY <1>1, NotDownResume, AheadUnchanged DEF IInv, Types
<1>3. /\ l \in Local /\ l.ours = local[a].ours /\ l.active = local[a].active
      /\ l.cancelled = (local[a].cancelled \/ local[a].active) /\ l.expired = local[a].expired
      /\ l.terminal = local[a].terminal /\ l.allowed = local[a].allowed
      /\ l.finalizing = local[a].finalizing /\ l.cancel = local[a].cancel
      /\ l.handler = local[a].handler
  BY <1>2 DEF Local
<1> HIDE DEF l
<1>4. local'[a] = l
  BY <1>1, <1>3, SetLocalFields DEF IInv, Types
<1>5. LocalOK(a)'
  BY <1>1, <1>3, <1>4 DEF IInv, AttemptsOK, LocalOK, Live, durable
<1>6. QED
  BY <1>1, <1>2, <1>3, <1>5, WaitsFields, LocalStep DEF durable

LEMMA ApplyAcknowledgedInv ==
  ASSUME IInv, NEW a \in Attempts, ApplyAcknowledged(a)
  PROVE  IInv'
<1>1. /\ resume.pc = "apply" /\ resume.decision[a] = "result_already_acked" /\ ~Locked(a)
      /\ UNCHANGED <<core, runs, budget>>
  BY DEF ApplyAcknowledged, Applying
<1>2. local[a] \in Local /\ up # "down" /\ core[a] \in Done /\ resume # NoResume
      /\ resume.pc # "idle"
  BY <1>1, NotDownResume DEF IInv, Types, ResumeOK, NoResume
<1>3. CASE record[a] = "finished" \/ resume.snap[a] = "result_acked"
  <2> DEFINE l == [Forget(local[a]) EXCEPT !.cancelled = Forget(local[a]).cancelled \/ local[a].active]
  <2>1. /\ record' = [record EXCEPT ![a] = "absent"] /\ events' = [events EXCEPT ![a] = 0]
        /\ SetLocal(a, l) /\ Applied(a) /\ UNCHANGED <<claim, flush, up, fatal>>
    BY <1>3 DEF ApplyAcknowledged
  <2>2. /\ l \in Local /\ l.ours = local[a].ours /\ l.handler = local[a].handler
        /\ l.terminal = local[a].terminal /\ (local[a].cancelled => l.cancelled)
        /\ l.cancel = local[a].cancel /\ l.finalizing = local[a].finalizing
        /\ ~l.active /\ ~l.allowed
    BY <1>2 DEF Local, Forget
  <2> HIDE DEF l
  <2>3. record[a] \in {"finished", "result_acked", "absent"}
    BY <1>3 DEF IInv, ResumeOK
  <2>4. /\ record'[a] = "absent" /\ \A b \in Attempts : b # a => record'[b] = record[b]
        /\ \A b \in Attempts : b # a => events'[b] = events[b]
    BY <2>1 DEF IInv, Types
  <2>5. flush' \in FlushRecords /\ FlushOK'
    BY <1>1, <2>1, <2>4 DEF IInv, Types, FlushOK, Locked, Uploads
  <2>6. /\ resume' \in ResumeRecords /\ resume'.pc = resume.pc
        /\ resume'.reconnect = resume.reconnect /\ resume'.left \subseteq resume.left
        /\ resume'.snap = resume.snap /\ resume'.decision = resume.decision
        /\ resume'.left \subseteq Attempts
    BY <2>1, AppliedFields
  <2>7. ResumeOK'
    BY <1>1, <1>2, <2>1, <2>4, <2>6 DEF IInv, ResumeOK
  <2>8. QED
    BY <1>1, <1>2, <2>1, <2>2, <2>3, <2>5, <2>6, <2>7, RecordRemoved
<1>4. CASE ~(record[a] = "finished" \/ resume.snap[a] = "result_acked")
  BY <1>1, <1>4, ResumeFailsInv DEF ApplyAcknowledged, durable
<1>5. QED
  BY <1>3, <1>4

LEMMA ApplyRevokedInv ==
  ASSUME IInv, NEW a \in Attempts, ApplyRevoked(a)
  PROVE  IInv'
<1>1. /\ resume.pc = "apply" /\ resume.decision[a] = "lease_revoked"
      /\ UNCHANGED <<core, record, events, claim, flush, up, fatal, runs, budget>>
  BY DEF ApplyRevoked, Applying, durable, process
<1>2. /\ local[a] \in Local /\ up # "down" /\ core[a] \in {"revoked", "rejected"}
      /\ resume # NoResume /\ budget' \in Budgets /\ RecordOK(a) /\ LocalOK(a)
  BY <1>1, NotDownResume DEF IInv, Types, ResumeOK, NoResume, AttemptsOK
<1>3. CASE record[a] = "absent"
  <2> DEFINE l == [Forget(local[a]) EXCEPT !.terminal = TRUE]
  <2>1. SetLocal(a, l) /\ Applied(a)
    BY <1>3 DEF ApplyRevoked
  <2>2. /\ l \in Local /\ l.ours = local[a].ours /\ l.handler = local[a].handler
        /\ l.terminal /\ l.cancelled = local[a].cancelled
        /\ l.cancel = local[a].cancel /\ l.finalizing = local[a].finalizing
        /\ ~l.active /\ ~l.allowed
    BY <1>2 DEF Local, Forget
  <2> HIDE DEF l
  <2>3. local'[a] = l
    BY <2>1, <2>2, SetLocalFields DEF IInv, Types
  <2>4. LocalOK(a)'
    BY <1>1, <1>2, <1>3, <2>2, <2>3 DEF LocalOK, Live
  <2>5. Ahead
    BY <1>1, AheadUnchanged
  <2>6. QED
    BY <1>1, <1>2, <2>1, <2>2, <2>4, <2>5, AppliedFields, LocalStep
<1>4. CASE record[a] # "absent"
  <2>1. SetLocal(a, Revoke(local[a])) /\ WaitsAt(a)
    BY <1>4 DEF ApplyRevoked
  <2>2. record[a] = "finished" => core[a] \in Closed
    BY <1>2 DEF RecordOK, Accepted, Done, Closed
  <2>3. QED
    BY <1>1, <1>2, <2>1, <2>2, RevokeKeeps, WaitsFields, AheadUnchanged, LocalStep DEF durable
<1>5. QED
  BY <1>3, <1>4

\* The end of a cancellation at Core.
LEMMA CancelEndedAhead ==
  ASSUME IInv, NEW a \in Attempts, core' = [core EXCEPT ![a] = CancelEnded(@)]
  PROVE  Ahead
<1>1. core[a] \in CoreStates /\ core \in [Attempts -> CoreStates]
  BY DEF IInv, Types
<1>2. /\ CancelEnded(core[a]) \in CoreStates
      /\ CancelEnded(core[a]) = IF core[a] = "canceling" THEN "revoked"
                                ELSE IF core[a] = "done_canceling" THEN "done" ELSE core[a]
  BY <1>1 DEF CancelEnded, CoreStates, Done
<1>3. /\ core' \in [Attempts -> CoreStates] /\ core'[a] = CancelEnded(core[a])
      /\ \A b \in Attempts : b # a => core'[b] = core[b]
  BY <1>1, <1>2
<1>4. QED
  BY <1>1, <1>2, <1>3 DEF Ahead, Accepted, Closed, Done

LEMMA CancelStoppedInv ==
  ASSUME IInv, NEW a \in Attempts, CancelStopped(a)
  PROVE  IInv'
<1> DEFINE l == [local[a] EXCEPT !.cancel = "none", !.finalizing = TRUE]
<1>1. /\ local[a].cancel = "stopped" /\ core' = [core EXCEPT ![a] = CancelEnded(@)]
      /\ SetLocal(a, l)
      /\ UNCHANGED <<record, events, claim, flush, resume, up, fatal, runs, budget>>
  BY DEF CancelStopped, durable, process
<1>2. /\ local[a] \in Local /\ up # "down" /\ budget' \in Budgets /\ resume \in ResumeRecords
      /\ LocalOK(a)
  BY <1>1, NotDown DEF IInv, Types, AttemptsOK
<1>3. /\ l \in Local /\ l.ours = local[a].ours /\ l.active = local[a].active
      /\ l.cancelled = local[a].cancelled /\ l.expired = local[a].expired
      /\ l.terminal = local[a].terminal /\ l.allowed = local[a].allowed
      /\ l.finalizing /\ l.cancel = "none" /\ l.handler = local[a].handler
  BY <1>2 DEF Local
<1> HIDE DEF l
<1>4. Ahead
  BY <1>1, CancelEndedAhead
<1>5. local'[a] = l
  BY <1>1, <1>3, SetLocalFields DEF IInv, Types
<1>6. LocalOK(a)'
  BY <1>1, <1>2, <1>3, <1>4, <1>5 DEF Ahead, LocalOK, Live
<1>7. QED
  BY <1>1, <1>2, <1>3, <1>4, <1>6, LocalStep

LEMMA CancelUnconfirmedInv ==
  ASSUME IInv, NEW a \in Attempts, CancelUnconfirmed(a)
  PROVE  IInv'
<1> DEFINE l == [local[a] EXCEPT !.cancel = "none"]
<1>1. /\ local[a].cancel = "stopped" /\ core' \in {core, [core EXCEPT ![a] = CancelEnded(@)]}
      /\ SetLocal(a, l)
      /\ UNCHANGED <<record, events, claim, flush, resume, up, fatal, runs>>
  BY DEF CancelUnconfirmed, durable
<1>2. /\ local[a] \in Local /\ up # "down" /\ budget' \in Budgets /\ resume \in ResumeRecords
      /\ LocalOK(a)
  BY <1>1, NotDown, LostType DEF IInv, Types, AttemptsOK, CancelUnconfirmed
<1>3. /\ l \in Local /\ l.ours = local[a].ours /\ l.active = local[a].active
      /\ l.cancelled = local[a].cancelled /\ l.expired = local[a].expired
      /\ l.terminal = local[a].terminal /\ l.allowed = local[a].allowed
      /\ l.finalizing = local[a].finalizing /\ l.cancel = "none" /\ l.handler = local[a].handler
  BY <1>2 DEF Local
<1> HIDE DEF l
<1>4. Ahead
  BY <1>1, CancelEndedAhead, AheadUnchanged
<1>5. local'[a] = l
  BY <1>1, <1>3, SetLocalFields DEF IInv, Types
<1>6. LocalOK(a)'
  BY <1>1, <1>2, <1>3, <1>4, <1>5 DEF Ahead, LocalOK, Live
<1>7. QED
  BY <1>1, <1>2, <1>3, <1>4, <1>6, LocalStep

-----------------------------------------------------------------------------
(* A crash *)

\* What a crash leaves of a record that a step was about to write.
LEMMA CutShortKeeps ==
  ASSUME IInv, NEW a \in Attempts, NEW state \in Records, CutShort(a, state)
  PROVE  /\ state # "absent" => core[a] # "idle"
         /\ state = "confirmed" => core[a] \in Accepted /\ runs[a] = 0
         /\ state \notin {"started", "finished", "ack_sent"}
         /\ core[a] \in Done => runs[a] = 1 /\ events[a] = 0
         /\ runs[a] = 1 => \/ core[a] \in Closed
                           \/ core[a] = "leased" /\ state \in FinalRecords
<1>0. RecordOK(a) /\ SpentOK(a) /\ LocalOK(a) /\ runs[a] \in Nat
  BY DEF IInv, Types, AttemptsOK
<1>1. CASE state = "received"
  <2>1. record[a] = "absent" /\ ~local[a].terminal /\ claim.pc = "call" /\ claim.net = "ok" /\ claim.a = a
    BY <1>1 DEF CutShort
  <2>2. core[a] # "idle" /\ local[a].ours
    BY <2>1 DEF IInv, ClaimOK
  <2>3. QED
    BY <1>0, <1>1, <2>1, <2>2 DEF RecordOK, SpentOK
<1>2. CASE state = "rejected"
  <2>1. record[a] = "reject_sent"
    BY <1>2 DEF CutShort
  <2>2. QED
    BY <1>0, <1>2, <2>1 DEF RecordOK, SpentOK, FinalRecords
<1>3. CASE state = "confirmed"
  <2>1. /\ record[a] = "ack_sent"
        /\ \/ claim.pc = "ack" /\ claim.net = "ok" /\ claim.a = a
           \/ resume.decision[a] = "continue_execution"
    BY <1>3 DEF CutShort, Applying
  <2>2. core[a] \in Accepted
    BY <2>1 DEF IInv, ClaimOK, ResumeOK
  <2>3. runs[a] = 0
    <3>1. runs[a] <= 1
      BY <1>0 DEF RecordOK
    <3>2. runs[a] # 1
      BY <1>0, <2>1 DEF SpentOK
    <3>3. QED
      BY <1>0, <3>1, <3>2
  <2>4. QED
    BY <1>0, <1>3, <2>1, <2>2, <2>3 DEF RecordOK
<1>4. CASE state = "result_acked"
  <2>1. /\ record[a] = "finished"
        /\ \/ flush.pc = "result" /\ flush.net = "ok" /\ flush.a = a
           \/ resume.decision[a] = "result_already_acked"
    BY <1>4 DEF CutShort, Applying
  <2>2. core[a] \in Done
    BY <2>1 DEF IInv, FlushOK, ResumeOK
  <2>3. QED
    BY <1>0, <1>4, <2>1, <2>2 DEF RecordOK, Closed
<1>5. CASE state = "revoked"
  <2>1. record[a] \notin FinalRecords \union {"absent"}
    BY <1>5 DEF CutShort
  <2>2. QED
    BY <1>0, <1>5, <2>1 DEF RecordOK, Accepted, Closed, FinalRecords
<1>6. QED
  BY <1>1, <1>2, <1>3, <1>4, <1>5 DEF CutShort

LEMMA CrashInv ==
  ASSUME IInv, Crash
  PROVE  IInv'
<1>1. /\ ReportFatal("none") /\ UNCHANGED <<core, events, runs, budget>>
      /\ \/ UNCHANGED record
         \/ \E a \in Attempts, state \in Records :
              CutShort(a, state) /\ record' = [record EXCEPT ![a] = state]
  BY DEF Crash
<1>2. budget' \in Budgets
  BY <1>1 DEF IInv, Types
<1>3. CASE UNCHANGED record
  BY <1>1, <1>2, <1>3, RuntimeWorkerAssumption, ProcessEndsAlone
<1>4. CASE \E a \in Attempts, state \in Records :
             CutShort(a, state) /\ record' = [record EXCEPT ![a] = state]
  <2>1. PICK a \in Attempts, state \in Records :
          CutShort(a, state) /\ record' = [record EXCEPT ![a] = state]
    BY <1>4
  <2>2. /\ record' \in [Attempts -> Records] /\ record'[a] = state
        /\ \A b \in Attempts : b # a => record'[b] = record[b]
    BY <2>1 DEF IInv, Types
  <2>3. ASSUME NEW b \in Attempts PROVE RecordOK(b)' /\ SpentOK(b)'
    <3>1. RecordOK(b) /\ SpentOK(b)
      BY DEF IInv, AttemptsOK
    <3>2. /\ claim'.pc = "idle" /\ resume'.decision[b] = "none" /\ ~local'[b].ours
      BY <1>1 DEF ReportFatal, NoCall, NoResume, NoLocal
    <3>3. CASE b # a
      BY <1>1, <2>2, <3>1, <3>2, <3>3 DEF RecordOK, SpentOK
    <3>4. CASE b = a
      <4>1. RecordOK(a)'
        BY <1>1, <2>1, <2>2, <3>1, <3>4, CutShortKeeps DEF RecordOK
      <4>2. SpentOK(a)'
        BY <1>1, <2>1, <2>2, <3>2, <3>4, CutShortKeeps DEF SpentOK
      <4>3. QED
        BY <3>4, <4>1, <4>2
    <3>5. QED
      BY <3>3, <3>4
  <2>4. QED
    BY <1>1, <1>2, <2>2, <2>3, RuntimeWorkerAssumption, ProcessEnds
<1>5. QED
  BY <1>1, <1>3, <1>4

-----------------------------------------------------------------------------
(* The invariant *)

LEMMA InitInvariant == Init => IInv
<1> SUFFICES ASSUME Init PROVE IInv
  OBVIOUS
<1>1. Types
  BY NothingType, RuntimeWorkerAssumption DEF Init, Types, CoreStates, Records, Ups, Budgets
<1>2. DownIsEmpty
  BY DEF Init, DownIsEmpty
<1>3. ClaimOK /\ FlushOK
  BY RuntimeWorkerAssumption DEF Init, ClaimOK, FlushOK, NoCall, NoFlush, AssignmentCalls, Uploads
<1>4. ResumeOK
  BY DEF Init, ResumeOK, NoResume
<1>5. AttemptsOK
  BY DEF Init, AttemptsOK, RecordOK, SpentOK, LocalOK, Live, NoLocal, Done
<1>6. NoRefusal
  BY DEF Init, NoRefusal
<1>7. QED
  BY <1>1, <1>2, <1>3, <1>4, <1>5, <1>6 DEF IInv

\* Every step keeps the invariant, by the loop or the task that takes it.
LEMMA StepInvariant == IInv /\ [Next]_vars => IInv'
<1> SUFFICES ASSUME IInv, [Next]_vars PROVE IInv'
  OBVIOUS
<1>1. CASE Claim \/ ClaimEmpty \/ ClaimStep \/ ClaimAnswerLost \/ AckUnrouted
  BY <1>1, ClaimInv, ClaimEmptyInv, CoreAnswersAssignmentInv, HandleAssignmentInv,
     AssignmentConfirmedInv, AssignmentRejectedInv, AssignmentRefusedInv, AssignmentRevokedInv,
     ClaimAnswerLostInv, AckUnroutedInv DEF ClaimStep
<1>2. CASE FlushStep \/ CoreMissesEvents \/ UploadFails
  BY <1>2, FlushStartInv, FlushEndsInv, FlushAttemptInv, CoreAnswersUploadInv,
     EventAcknowledgedInv, EventsReplayedInv, ResultAcknowledgedInv, UploadRefusedInv,
     UploadRevokedInv, CoreMissesEventsInv, UploadFailsInv DEF FlushStep
<1>3. CASE StartProcess \/ SwitchStart \/ ResumeStep \/ ResumeAnswerLost \/ Drain \/ Crash
  BY <1>3, StartProcessInv, SwitchStartInv, CoreAnswersResumeInv, ResumeAnsweredInv,
     ResumeEndsInv, ApplyContinueInv, ApplyUploadOnlyInv, ApplyRevokedInv, AcknowledgedWaitsInv,
     ApplyAcknowledgedInv, ResumeAnswerLostInv, DrainInv, CrashInv DEF ResumeStep
<1>4. ASSUME NEW a \in Attempts,
             \/ CoreOffers(a) \/ CoreRevokes(a) \/ CoreCancels(a)
             \/ HandlerEmits(a) \/ HandlerReturns(a) \/ StoreResult(a)
             \/ RenewRefused(a) \/ LeaseExpires(a) \/ Finalize(a)
             \/ CancelQueued(a) \/ CancelStart(a) \/ CancelStep(a) \/ CancelUnconfirmed(a) \/ LeaseRevoked(a)
      PROVE  IInv'
  BY <1>4, CoreOffersInv, CoreRevokesInv, CoreCancelsInv, HandlerEmitsInv, HandlerReturnsInv,
     StoreResultInv, RenewRefusedInv, LeaseExpiresInv, FinalizeInv, CancelQueuedInv, CancelStartInv,
     CancelLockInv, CancelWaitInv, CancelStoppedInv, CancelUnconfirmedInv, LeaseRevokedInv
     DEF CancelStep
<1>5. CASE UNCHANGED vars
  <2>1. Types' /\ DownIsEmpty' /\ NoRefusal'
    BY <1>5 DEF vars, IInv, Types, DownIsEmpty, NoRefusal
  <2>2. ClaimOK' /\ FlushOK'
    BY <1>5 DEF vars, IInv, ClaimOK, FlushOK
  <2>3. ResumeOK'
    BY <1>5 DEF vars, IInv, ResumeOK
  <2>4. AttemptsOK'
    BY <1>5 DEF vars, IInv, AttemptsOK, RecordOK, SpentOK, LocalOK, Live
  <2>5. QED
    BY <2>1, <2>2, <2>3, <2>4 DEF IInv
<1>6. QED
  BY <1>1, <1>2, <1>3, <1>4, <1>5 DEF Next

\* The invariant holds in every reachable state.
THEOREM InvariantHolds == Spec => []IInv
  BY InitInvariant, StepInvariant, PTL DEF Spec

-----------------------------------------------------------------------------
(* What follows in every reachable state *)

\* TypeOK: the types, and that a call names its attempt.
THEOREM TypesHold == Spec => []TypeOK
<1>1. IInv => TypeOK
  <2> SUFFICES ASSUME IInv PROVE TypeOK
    OBVIOUS
  <2>1. /\ claim.pc \in AssignmentCalls => claim.a # NoAttempt
        /\ flush.pc \in {"event", "result"} => flush.a # NoAttempt
    BY RuntimeWorkerAssumption DEF IInv, ClaimOK, FlushOK, Uploads
  <2>2. /\ [pc |-> claim.pc, a |-> claim.a, net |-> claim.net]
             \in CallType({"idle", "call", "ack", "reack", "reject", "revoke"})
        /\ [pc |-> flush.pc, a |-> flush.a, net |-> flush.net]
             \in CallType({"idle", "next", "event", "result", "replay", "revoke"})
    BY FieldTypes DEF IInv, CallType, ClaimPcs, AssignmentCalls, FlushPcs, Uploads, Nets
  <2>3. /\ claim.unrouted \in BOOLEAN /\ flush.n \in Nat /\ flush.left \subseteq Attempts
        /\ resume.pc \in {"idle", "call", "apply"} /\ resume.left \subseteq Attempts
        /\ resume.at \in Attempts \union {NoAttempt}
        /\ resume.snap \in [Attempts -> Records]
    BY FieldTypes DEF IInv, Types, ResumeRecords
  <2>4. QED
    BY <2>1, <2>2, <2>3 DEF IInv, Types, Local, Handlers, Ups, TypeOK
<1>2. QED
  BY <1>1, InvariantHolds, PTL

\* RunsAtMostOnce for every number of losses, redeliveries, switches and starts: a record
\* that is gone is not acknowledged again by a process that may start it (SpentOK).
THEOREM HandlersRunOnce == Spec => []RunsAtMostOnce
<1>1. IInv => RunsAtMostOnce
  BY DEF IInv, AttemptsOK, RecordOK, RunsAtMostOnce
<1>2. QED
  BY <1>1, InvariantHolds, PTL

\* EventsBeforeResult: the Result is sent under the attempt lock, with no Event pending.
THEOREM EventsComeFirst == Spec => []EventsBeforeResult
<1>1. IInv => EventsBeforeResult
  BY DEF IInv, AttemptsOK, RecordOK, EventsBeforeResult
<1>2. QED
  BY <1>1, InvariantHolds, PTL

\* ActiveHasRecord: whoever removes a record removes its attempt from _active.
THEOREM ActiveRecords == Spec => []ActiveHasRecord
<1>1. IInv => ActiveHasRecord
  BY DEF IInv, AttemptsOK, LocalOK, ActiveHasRecord
<1>2. QED
  BY <1>1, InvariantHolds, PTL

\* ReportsFindTheirRecord: nobody takes away what a handler, a rejection or an upload that is
\* under way reports: an upload holds the attempt lock, a Result is stored under it after a
\* last look at the cancellation, and a rejected record is never revoked (FlushOK, NoRefusal).
THEOREM ReportsAreExpected == Spec => []ReportsFindTheirRecord
<1>1. IInv => ReportsFindTheirRecord
  <2> SUFFICES ASSUME IInv PROVE ReportsFindTheirRecord
    OBVIOUS
  <2>1. flush.pc = "event" => events[flush.a] > 0
    BY FieldTypes DEF IInv, FlushOK, Uploads, Types
  <2>2. QED
    BY <2>1 DEF IInv, FlushOK, NoRefusal, ReportsFindTheirRecord
<1>2. QED
  BY <1>1, InvariantHolds, PTL

-----------------------------------------------------------------------------
(* What a step does to an attempt *)

Executing == {"started", "finished"}
Still(a) == core'[a] = core[a] /\ record'[a] = record[a] /\ runs'[a] = runs[a]

\* Core's ways with an attempt.
CoreStep(a) ==
  /\ record'[a] = record[a] /\ runs'[a] = runs[a]
  /\ \/ core[a] = "idle" /\ core'[a] = "offered"
     \/ core[a] = "offered" /\ core'[a] \in {"leased", "rejected"}
     \/ core[a] = "leased" /\ core'[a] = "canceling"
     \/ core[a] \in {"offered", "leased", "canceling"} /\ core'[a] = "revoked"
     \/ core[a] = "done_canceling" /\ core'[a] = "done"
     \/ core[a] \in {"leased", "canceling"} /\ core'[a] \in Done /\ record[a] = "finished"

\* The worker's, in the journal and with the handler.
WorkerStep(a) ==
  /\ core'[a] = core[a]
  /\ \/ /\ runs'[a] = runs[a] /\ record[a] \notin Executing /\ record'[a] \notin Executing
        /\ local[a].terminal /\ record[a] = "absent" => record'[a] = "absent"
     \/ /\ runs[a] = 0 /\ runs'[a] = 1 /\ record'[a] = "started"
        /\ core[a] \in Accepted \ Done /\ ~local[a].terminal
     \/ /\ runs'[a] = runs[a] /\ record[a] = "started" /\ record'[a] = "finished"
        /\ ~local[a].terminal
     \/ runs'[a] = runs[a] /\ record[a] = "started" /\ record'[a] \notin Executing
     \/ /\ runs'[a] = runs[a] /\ record[a] = "finished" /\ record'[a] \notin Executing
        /\ core[a] \in Closed \/ local[a].expired

Effect(a) == Still(a) \/ CoreStep(a) \/ WorkerStep(a)

LEMMA CoreStepsEffect ==
  ASSUME IInv, NEW a \in Attempts,
         \/ CoreAnswersAssignment \/ CoreAnswersUpload \/ CoreAnswersResume
         \/ \E b \in Attempts : \/ CoreOffers(b) \/ CoreRevokes(b) \/ CoreCancels(b)
                                \/ CancelStopped(b) \/ CancelUnconfirmed(b)
  PROVE  Effect(a)
<1>0. core \in [Attempts -> CoreStates]
  BY DEF IInv, Types
<1>1. CASE CoreAnswersAssignment
  <2>0. claim.a \in Attempts /\ UNCHANGED <<record, runs>>
    BY <1>1 DEF CoreAnswersAssignment, IInv, ClaimOK, durable
  <2> PICK b \in Attempts : b = claim.a
    BY <2>0
  <2>1. PICK state \in CoreStates :
          /\ core' = [core EXCEPT ![b] = state]
          /\ state \in IF core[b] = "offered" THEN {core[b], "leased", "rejected"} ELSE {core[b]}
    BY <1>1, AssignmentAnswered
  <2>2. core'[a] = IF b = a THEN state ELSE core[a]
    BY <1>0, <2>1
  <2>3. QED
    BY <2>0, <2>1, <2>2 DEF Effect, Still, CoreStep
<1>2. CASE CoreAnswersUpload
  <2>1. PICK accepted :
          core' = [core EXCEPT ![flush.a] =
                     IF ~accepted \/ flush.pc # "result" THEN core[flush.a]
                     ELSE IF core[flush.a] = "leased" THEN "done"
                     ELSE IF core[flush.a] = "canceling" THEN "done_canceling" ELSE core[flush.a]]
    BY <1>2 DEF CoreAnswersUpload
  <2>2. UNCHANGED <<record, runs>>
    BY <1>2 DEF CoreAnswersUpload, durable
  <2>3. flush.pc = "result" => record[flush.a] = "finished"
    BY DEF IInv, FlushOK
  <2>4. QED
    BY <1>0, <2>1, <2>2, <2>3 DEF Effect, Still, CoreStep, Done
<1>3. CASE CoreAnswersResume
  BY <1>3 DEF CoreAnswersResume, durable, Effect, Still, CoreStep
<1>4. ASSUME NEW b \in Attempts,
             \/ CoreOffers(b) \/ CoreRevokes(b) \/ CoreCancels(b)
             \/ CancelStopped(b) \/ CancelUnconfirmed(b)
      PROVE  Effect(a)
  <2>1. UNCHANGED <<record, runs>>
    BY <1>4 DEF CoreOffers, CoreRevokes, CoreCancels, CancelStopped, CancelUnconfirmed, durable
  <2>2. CASE CoreOffers(b)
    BY <1>0, <2>1, <2>2 DEF CoreOffers, Effect, Still, CoreStep
  <2>3. CASE CoreRevokes(b)
    BY <1>0, <2>1, <2>3 DEF CoreRevokes, Effect, Still, CoreStep
  <2>4. CASE CoreCancels(b)
    BY <1>0, <2>1, <2>4 DEF CoreCancels, Effect, Still, CoreStep
  <2>5. CASE CancelStopped(b)
    BY <1>0, <2>1, <2>5 DEF CancelStopped, CancelEnded, Effect, Still, CoreStep
  <2>6. CASE CancelUnconfirmed(b)
    BY <1>0, <2>1, <2>6 DEF CancelUnconfirmed, CancelEnded, Effect, Still, CoreStep
  <2>7. QED
    BY <1>4, <2>2, <2>3, <2>4, <2>5, <2>6
<1>5. QED
  BY <1>1, <1>2, <1>3, <1>4

\* A start, an assignment that is only confirmed, and everything else on the record of b.
LEMMA StartEffect ==
  ASSUME IInv, NEW a \in Attempts, NEW b \in Attempts, ConfirmAndStart(b), UNCHANGED core,
         record[b] \in {"ack_sent", "confirmed"}, core[b] \in Accepted, runs[b] = 0
  PROVE  Effect(a)
<1>1. /\ b # a => record'[a] = record[a] /\ runs'[a] = runs[a]
      /\ IF ~local[b].active /\ ~local[b].terminal
           THEN record'[b] = "started" /\ runs'[b] = runs[b] + 1
           ELSE record'[b] = "confirmed" /\ runs'[b] = runs[b]
  BY ConfirmAndStartFields DEF IInv
<1>2. core[b] \notin Done
  BY DEF IInv, AttemptsOK, RecordOK
<1>3. QED
  BY <1>1, <1>2 DEF Effect, Still, WorkerStep, Executing

LEMMA JournalEffect ==
  ASSUME IInv, NEW a \in Attempts,
         HandleAssignment \/ AssignmentConfirmed \/ AssignmentRejected \/ ResultAcknowledged \/ Crash
  PROVE  Effect(a)
<1>0. record \in [Attempts -> Records]
  BY DEF IInv, Types
<1>1. CASE HandleAssignment
  <2>0. claim.pc = "call" /\ claim.net = "ok" /\ claim.a \in Attempts
    BY <1>1 DEF HandleAssignment, IInv, ClaimOK
  <2> PICK b \in Attempts : b = claim.a
    BY <2>0
  <2>1. RecordOK(b) /\ UNCHANGED core
    BY <1>1 DEF HandleAssignment, IInv, AttemptsOK
  <2>2. CASE UNCHANGED <<record, runs>>
    BY <2>1, <2>2 DEF Effect, Still
  <2>3. CASE ~local[b].terminal /\ record[b] \in {"absent", "received"} /\ UNCHANGED runs
             /\ record' = [record EXCEPT ![b] = IF Full THEN "reject_sent" ELSE "ack_sent"]
    BY <1>0, <2>1, <2>3 DEF Effect, Still, WorkerStep, Executing
  <2>4. CASE record[b] = "confirmed" /\ ConfirmAndStart(b)
    BY <2>1, <2>4, StartEffect DEF RecordOK
  <2>5. QED
    BY <1>1, <2>2, <2>3, <2>4 DEF HandleAssignment
<1>2. CASE AssignmentConfirmed
  <2>0. /\ claim.pc \in {"ack", "reack"} /\ claim.net = "ok" /\ claim.a \in Attempts
        /\ core[claim.a] \in Accepted /\ UNCHANGED core
    BY <1>2 DEF AssignmentConfirmed, IInv, ClaimOK, AssignmentCalls
  <2> PICK b \in Attempts : b = claim.a
    BY <2>0
  <2>1. RecordOK(b) /\ SpentOK(b) /\ runs[b] \in Nat
    BY DEF IInv, AttemptsOK, Types
  <2>2. CASE UNCHANGED <<record, runs>>
    BY <2>0, <2>2 DEF Effect, Still
  <2>3. CASE claim.pc = "ack" /\ record[b] \in {"ack_sent", "confirmed"} /\ ConfirmAndStart(b)
    <3>1. runs[b] <= 1 /\ (record[b] = "confirmed" => runs[b] = 0)
      BY <2>1 DEF RecordOK
    <3>2. record[b] = "ack_sent" => runs[b] # 1
      BY <2>0, <2>1, <2>3 DEF SpentOK
    <3>3. runs[b] = 0
      BY <2>1, <2>3, <3>1, <3>2
    <3>4. QED
      BY <2>0, <2>3, <3>3, StartEffect
  <2>4. QED
    BY <1>2, <2>0, <2>2, <2>3 DEF AssignmentConfirmed
<1>3. CASE AssignmentRejected
  <2>1. claim.a \in Attempts /\ UNCHANGED <<core, runs>>
    BY <1>3 DEF AssignmentRejected, IInv, ClaimOK, AssignmentCalls
  <2>2. \/ UNCHANGED record
        \/ record[claim.a] = "reject_sent" /\ record' = [record EXCEPT ![claim.a] = "absent"]
    BY <1>3 DEF AssignmentRejected
  <2>3. QED
    BY <1>0, <2>1, <2>2 DEF Effect, Still, WorkerStep, Executing
<1>4. CASE ResultAcknowledged
  <2>1. /\ flush.a \in Attempts /\ core[flush.a] \in Done /\ record[flush.a] = "finished"
        /\ UNCHANGED <<core, runs>> /\ record' = [record EXCEPT ![flush.a] = "absent"]
    BY <1>4 DEF ResultAcknowledged, IInv, FlushOK, Uploads, process
  <2>2. QED
    BY <1>0, <2>1 DEF Effect, Still, WorkerStep, Executing, Closed
<1>5. CASE Crash
  <2>1. UNCHANGED <<core, runs>>
    BY <1>5 DEF Crash
  <2>2. CASE UNCHANGED record
    BY <2>1, <2>2 DEF Effect, Still
  <2>3. ASSUME NEW b \in Attempts, NEW state \in Records, CutShort(b, state),
               record' = [record EXCEPT ![b] = state]
        PROVE  Effect(a)
    <3>1. state \notin Executing /\ (local[b].terminal => record[b] # "absent")
      BY <2>3 DEF CutShort, Executing
    <3>2. record[b] = "finished" => core[b] \in Closed \/ local[b].expired
      <4>1. CASE local[b].finalizing
        BY <4>1 DEF IInv, AttemptsOK, LocalOK
      <4>2. CASE ~local[b].finalizing /\ record[b] = "finished"
        <5>1. \/ flush.pc = "result" /\ flush.net = "ok" /\ flush.a = b
              \/ resume.decision[b] = "result_already_acked"
          BY <2>3, <4>2 DEF CutShort, Applying
        <5>2. QED
          BY <5>1 DEF IInv, FlushOK, ResumeOK, Closed
      <4>3. QED
        BY <4>1, <4>2
    <3>3. QED
      BY <1>0, <2>1, <2>3, <3>1, <3>2 DEF Effect, Still, WorkerStep, Executing
  <2>4. QED
    BY <1>5, <2>2, <2>3 DEF Crash
<1>6. QED
  BY <1>1, <1>2, <1>3, <1>4, <1>5

LEMMA AttemptEffect ==
  ASSUME IInv, NEW a \in Attempts, NEW b \in Attempts,
         StoreResult(b) \/ Finalize(b) \/ ApplyContinue(b) \/ ApplyAcknowledged(b)
  PROVE  Effect(a)
<1>0. record \in [Attempts -> Records] /\ RecordOK(b) /\ SpentOK(b) /\ LocalOK(b)
      /\ runs[b] \in Nat
  BY DEF IInv, Types, AttemptsOK
<1>1. CASE StoreResult(b)
  <2>1. UNCHANGED <<core, runs>>
    BY <1>1 DEF StoreResult
  <2>2. CASE UNCHANGED record
    BY <2>1, <2>2 DEF Effect, Still
  <2>3. CASE ~local[b].cancelled /\ record[b] = "started"
             /\ record' = [record EXCEPT ![b] = "finished"]
    <3>1. ~local[b].terminal
      BY <1>0, <1>1, <2>3 DEF StoreResult, LocalOK, Live
    <3>2. QED
      BY <1>0, <2>1, <2>3, <3>1 DEF Effect, Still, WorkerStep, Executing
  <2>4. QED
    BY <1>1, <2>2, <2>3 DEF StoreResult, durable
<1>2. CASE Finalize(b)
  <2>1. local[b].finalizing /\ UNCHANGED <<core, runs>> /\ record' = [record EXCEPT ![b] = "absent"]
    BY <1>2 DEF Finalize
  <2>2. record[b] = "finished" => core[b] \in Closed \/ local[b].expired
    BY <1>0, <2>1 DEF LocalOK
  <2>3. QED
    BY <1>0, <2>1, <2>2 DEF Effect, Still, WorkerStep, Executing
<1>3. CASE ApplyContinue(b)
  <2>1. UNCHANGED core /\ resume.decision[b] = "continue_execution"
    BY <1>3 DEF ApplyContinue, Applying
  <2>2. core[b] \in Accepted
    BY <2>1 DEF IInv, ResumeOK
  <2>3. CASE UNCHANGED <<record, runs>>
    BY <2>1, <2>3 DEF Effect, Still
  <2>4. CASE record[b] \in {"ack_sent", "confirmed"} /\ ConfirmAndStart(b)
    <3>1. runs[b] <= 1 /\ (record[b] = "confirmed" => runs[b] = 0)
      BY <1>0 DEF RecordOK
    <3>2. record[b] = "ack_sent" => runs[b] # 1
      BY <1>0, <2>1 DEF SpentOK
    <3>3. runs[b] = 0
      BY <1>0, <2>4, <3>1, <3>2
    <3>4. QED
      BY <2>1, <2>2, <2>4, <3>3, StartEffect
  <2>5. QED
    BY <1>3, <2>3, <2>4 DEF ApplyContinue
<1>4. CASE ApplyAcknowledged(b)
  <2>1. UNCHANGED <<core, runs>> /\ resume.decision[b] = "result_already_acked"
    BY <1>4 DEF ApplyAcknowledged, Applying
  <2>2. core[b] \in Done
    BY <2>1 DEF IInv, ResumeOK
  <2>3. CASE UNCHANGED record
    BY <2>1, <2>3 DEF Effect, Still
  <2>4. CASE record[b] = "finished" \/ resume.snap[b] = "result_acked"
    <3>1. record' = [record EXCEPT ![b] = "absent"]
      BY <1>4, <2>4 DEF ApplyAcknowledged
    <3>2. record[b] \in {"finished", "result_acked", "absent"}
      BY <2>4 DEF IInv, ResumeOK
    <3>3. QED
      BY <1>0, <2>1, <2>2, <3>1, <3>2 DEF Effect, Still, WorkerStep, Executing, Closed
  <2>5. QED
    BY <1>4, <2>3, <2>4 DEF ApplyAcknowledged, durable
<1>5. QED
  BY <1>1, <1>2, <1>3, <1>4

\* The steps that leave Core, the journal and the handlers' starts alone.
LEMMA NoEffect ==
  ASSUME NEW a \in Attempts,
         \/ Claim \/ ClaimEmpty \/ AssignmentRefused \/ AssignmentRevoked \/ ClaimAnswerLost
         \/ AckUnrouted \/ FlushStart \/ FlushEnds \/ EventAcknowledged \/ EventsReplayed
         \/ UploadRefused \/ UploadRevoked \/ CoreMissesEvents \/ UploadFails \/ StartProcess
         \/ SwitchStart \/ ResumeAnswered \/ ResumeEnds \/ ResumeAnswerLost \/ Drain
         \/ UNCHANGED vars
         \/ \E b \in Attempts :
              \/ FlushAttempt(b) \/ ApplyUploadOnly(b) \/ ApplyRevoked(b) \/ AcknowledgedWaits(b)
              \/ HandlerEmits(b) \/ HandlerReturns(b) \/ RenewRefused(b) \/ LeaseExpires(b)
              \/ CancelQueued(b) \/ CancelStart(b) \/ CancelLock(b) \/ CancelWait(b) \/ LeaseRevoked(b)
  PROVE  Effect(a)
<1>1. UNCHANGED <<core, record, runs>>
  BY DEF Claim, ClaimEmpty, AssignmentRefused, AssignmentRevoked, ClaimAnswerLost, AckUnrouted,
     FlushStart, FlushEnds, EventAcknowledged, EventsReplayed, UploadRefused, UploadRevoked,
     CoreMissesEvents, UploadFails, StartProcess, SwitchStart, ResumeAnswered, ResumeEnds,
     ResumeAnswerLost, Drain, FlushAttempt, ApplyUploadOnly, ApplyRevoked, AcknowledgedWaits,
     HandlerEmits, HandlerReturns, RenewRefused, LeaseExpires, CancelQueued, CancelStart, CancelLock,
     CancelWait, LeaseRevoked, durable, vars
<1>2. QED
  BY <1>1 DEF Effect, Still

LEMMA StepEffect ==
  ASSUME IInv, [Next]_vars, NEW a \in Attempts
  PROVE  Effect(a)
<1>1. CASE Claim \/ ClaimEmpty \/ ClaimStep \/ ClaimAnswerLost \/ AckUnrouted
  BY <1>1, NoEffect, CoreStepsEffect, JournalEffect DEF ClaimStep
<1>2. CASE FlushStep \/ CoreMissesEvents \/ UploadFails
  BY <1>2, NoEffect, CoreStepsEffect, JournalEffect DEF FlushStep
<1>3. CASE StartProcess \/ SwitchStart \/ ResumeStep \/ ResumeAnswerLost \/ Drain \/ Crash
  BY <1>3, NoEffect, CoreStepsEffect, JournalEffect, AttemptEffect DEF ResumeStep
<1>4. ASSUME NEW b \in Attempts,
             \/ CoreOffers(b) \/ CoreRevokes(b) \/ CoreCancels(b)
             \/ HandlerEmits(b) \/ HandlerReturns(b) \/ StoreResult(b)
             \/ RenewRefused(b) \/ LeaseExpires(b) \/ Finalize(b)
             \/ CancelQueued(b) \/ CancelStart(b) \/ CancelStep(b) \/ CancelUnconfirmed(b) \/ LeaseRevoked(b)
      PROVE  Effect(a)
  BY <1>4, NoEffect, CoreStepsEffect, AttemptEffect DEF CancelStep
<1>5. CASE UNCHANGED vars
  BY <1>5, NoEffect
<1>6. QED
  BY <1>1, <1>2, <1>3, <1>4, <1>5 DEF Next

\* TerminalStaysTerminal: neither a Result, nor a redelivery, nor a late answer, nor a
\* crash between two writes brings an attempt that was cancelled or revoked back.
THEOREM TerminalAttempts == Spec => TerminalStaysTerminal
<1>1. ASSUME IInv, [Next]_vars, NEW a \in Attempts, local[a].terminal
      PROVE  /\ record'[a] = "finished" => record[a] = "finished"
             /\ record[a] = "absent" => record'[a] = "absent"
             /\ runs'[a] = runs[a]
  BY <1>1, StepEffect DEF Effect, Still, CoreStep, WorkerStep, Executing
<1>2. IInv /\ [Next]_vars =>
        [\A a \in Attempts : local[a].terminal =>
           /\ record'[a] = "finished" => record[a] = "finished"
           /\ record[a] = "absent" => record'[a] = "absent"
           /\ runs'[a] = runs[a]]_vars
  BY <1>1
<1>3. QED
  BY <1>2, InvariantHolds, PTL DEF Spec, TerminalStaysTerminal

-----------------------------------------------------------------------------
(* The worker implements AttemptDelivery *)

RefinedTypes ==
  /\ [a \in Attempts |-> StageOf(a)] \in [Attempts -> Delivery!Stages]
  /\ [a \in Attempts |-> LeaseOf(core[a])] \in [Attempts -> Delivery!Leases]
  /\ runs \in [Attempts -> Nat]
  /\ [a \in Attempts |-> local[a].expired] \in [Attempts -> BOOLEAN]

LEMMA RefinementTypes == IInv => RefinedTypes
<1> SUFFICES ASSUME IInv PROVE RefinedTypes
  OBVIOUS
<1>1. ASSUME NEW a \in Attempts
      PROVE  /\ StageOf(a) \in Delivery!Stages /\ LeaseOf(core[a]) \in Delivery!Leases
             /\ local[a].expired \in BOOLEAN
  BY LocalTypes DEF IInv, Types, StageOf, LeaseOf, Delivery!Stages, Delivery!Leases, CoreStates, Done
<1>2. QED
  BY <1>1 DEF RefinedTypes, IInv, Types

\* A step of the worker on one attempt is a step of the abstract one, or none.
LEMMA StepRefines ==
  ASSUME IInv, IInv', NEW a \in Attempts, Effect(a)
  PROVE  Delivery!Stays(a) \/ Delivery!CoreMoves(a) \/ Delivery!WorkerMoves(a)
<1> DEFINE stage == [b \in Attempts |-> StageOf(b)]
           lease == [b \in Attempts |-> LeaseOf(core[b])]
<1>0. /\ stage[a] = StageOf(a) /\ lease[a] = LeaseOf(core[a])
      /\ stage'[a] = StageOf(a)' /\ lease'[a] = LeaseOf(core'[a])
  OBVIOUS
<1>1. RecordOK(a) /\ core[a] \in CoreStates /\ core'[a] \in CoreStates /\ runs[a] \in Nat
  BY DEF IInv, Types, AttemptsOK
<1>2. CASE Still(a)
  BY <1>0, <1>2 DEF Still, StageOf, Delivery!Stays, Delivery!Keep
<1>3. CASE CoreStep(a)
  <2>1. StageOf(a)' = StageOf(a) /\ runs'[a] = runs[a]
    BY <1>3 DEF CoreStep, StageOf
  <2>2. \/ LeaseOf(core'[a]) = LeaseOf(core[a])
        \/ LeaseOf(core[a]) = "open" /\ LeaseOf(core'[a]) \in {"accepted", "refused"}
        \/ LeaseOf(core[a]) = "accepted" /\ LeaseOf(core'[a]) = "ending"
        \/ LeaseOf(core[a]) \in {"open", "accepted", "ending"} /\ LeaseOf(core'[a]) = "ended"
        \/ /\ LeaseOf(core[a]) \in {"accepted", "ending"} /\ LeaseOf(core'[a]) = "recorded"
           /\ StageOf(a) = "answered"
    BY <1>1, <1>3 DEF CoreStep, LeaseOf, StageOf, RecordOK, Done
  <2>3. QED
    BY <1>0, <2>1, <2>2 DEF Delivery!Stays, Delivery!CoreMoves, Delivery!Keep, Delivery!Move,
       Delivery!Accept, Delivery!Refuse, Delivery!Cancel, Delivery!End, Delivery!Record
<1>4. CASE WorkerStep(a)
  <2>1. LeaseOf(core'[a]) = LeaseOf(core[a])
    BY <1>4 DEF WorkerStep
  <2>2. \/ StageOf(a)' = StageOf(a) /\ runs'[a] = runs[a]
        \/ /\ StageOf(a) = "waiting" /\ StageOf(a)' = "started" /\ runs'[a] = runs[a] + 1
           /\ LeaseOf(core[a]) \in {"accepted", "ending", "ended"}
        \/ StageOf(a) = "started" /\ StageOf(a)' = "answered" /\ runs'[a] = runs[a]
        \/ StageOf(a) = "started" /\ StageOf(a)' = "gone" /\ runs'[a] = runs[a]
        \/ /\ StageOf(a) = "answered" /\ StageOf(a)' = "gone" /\ runs'[a] = runs[a]
           /\ LeaseOf(core[a]) \in {"recorded", "ending", "ended"} \/ local[a].expired
    BY <1>1, <1>4 DEF WorkerStep, StageOf, LeaseOf, RecordOK, Executing, Accepted, Closed, Done
  <2>3. [b \in Attempts |-> local[b].expired][a] = local[a].expired
    OBVIOUS
  <2>4. QED
    BY <1>0, <2>1, <2>2, <2>3 DEF Delivery!Stays, Delivery!WorkerMoves, Delivery!Keep,
       Delivery!Move, Delivery!Start, Delivery!Answer, Delivery!Drop, Delivery!Settle
<1>5. QED
  BY <1>2, <1>3, <1>4 DEF Effect

\* DeliversAttempts for every set of attempts: a handler is started once and after Core has
\* accepted the worker, Core records only what was stored, and a stored Result goes only
\* when Core has it, has ended the lease or the run, or when the worker's lease has passed.
THEOREM ImplementsDelivery == Spec => DeliversAttempts
<1>1. Init => Delivery!Init
  <2> SUFFICES ASSUME Init PROVE Delivery!Init
    OBVIOUS
  <2>1. ASSUME NEW a \in Attempts
        PROVE  StageOf(a) = "waiting" /\ LeaseOf(core[a]) = "open" /\ ~local[a].expired
               /\ local[a].expired = FALSE
    <3>1. core[a] = "idle" /\ runs[a] = 0 /\ record[a] = "absent" /\ local[a] = NoLocal
      BY DEF Init
    <3>2. StageOf(a) = "waiting"
      BY <3>1 DEF StageOf
    <3>3. LeaseOf(core[a]) = "open"
      BY <3>1 DEF LeaseOf, Done
    <3>4. QED
      BY <3>1, <3>2, <3>3 DEF NoLocal
  <2>2. runs = [a \in Attempts |-> 0]
    BY DEF Init
  <2>3. QED
    BY <2>1, <2>2 DEF Delivery!Init
<1>0. IInv' => RefinedTypes'
  BY RefinementTypes, PTL
<1>2. IInv /\ IInv' /\ [Next]_vars => [Delivery!Next]_(Delivery!vars)
  <2> SUFFICES ASSUME IInv, IInv', [Next]_vars PROVE Delivery!Next
    OBVIOUS
  <2>1. \A a \in Attempts :
          Delivery!Stays(a) \/ Delivery!CoreMoves(a) \/ Delivery!WorkerMoves(a)
    BY StepEffect, StepRefines
  <2>2. RefinedTypes'
    BY <1>0
  <2>3. QED
    BY <2>1, <2>2 DEF RefinedTypes, Delivery!Next
<1>3. QED
  BY <1>1, <1>2, InvariantHolds, PTL DEF Spec, DeliversAttempts, Delivery!Spec

-----------------------------------------------------------------------------
(* Capacity, which the first process keeps: the assignment whose acknowledgement is under *)
(* way has its place, and no other waits to be confirmed.                                 *)

First == up # "down" /\ FirstStart
Claiming(a) == claim.pc = "ack" /\ claim.a = a /\ record[a] = "ack_sent" /\ ~local[a].terminal

CapacityOfFirst ==
  /\ Cardinality(Active) <= Capacity
  /\ (\E a \in Attempts : Claiming(a)) => Cardinality(Active) < Capacity
  /\ \A a \in Attempts :
       /\ record[a] # "received"
       /\ record[a] = "ack_sent" => Claiming(a) \/ local[a].terminal
       /\ record[a] = "confirmed" => local[a].terminal

CapInv ==
  /\ IsFiniteSet(Active)
  /\ budget.starts <= MaxStarts
  /\ budget.starts = MaxStarts => up = "down" /\ \A a \in Attempts : record[a] = "absent"
  /\ First => CapacityOfFirst

\* A step that starts no attempt and acknowledges no other assignment.
Quiet ==
  /\ \A a \in Attempts :
       /\ local'[a].active => local[a].active
       /\ local[a].terminal => local'[a].terminal
       /\ record'[a] = record[a] \/ record'[a] \notin {"received", "ack_sent", "confirmed"}
  /\ claim'.pc = "ack" => claim.pc = "ack" /\ claim'.a = claim.a
  /\ claim.pc = "ack" =>
       claim'.pc = "ack" \/ local'[claim.a].terminal \/ record'[claim.a] # "ack_sent"
  /\ budget'.starts = budget.starts
  /\ up = "down" => UNCHANGED <<record, up>>

LEMMA QuietKeepsCapacity ==
  ASSUME IInv, CapInv, Quiet
  PROVE  CapInv'
<1> USE DEF IInv, Types, CapInv, Quiet
<1>1. Active' \subseteq Active /\ IsFiniteSet(Active)
  BY DEF Active
<1>2. IsFiniteSet(Active') /\ Cardinality(Active') <= Cardinality(Active)
  BY <1>1, FS_Subset
<1>3. Cardinality(Active) \in Nat /\ Cardinality(Active') \in Nat /\ Capacity \in Nat
  BY <1>1, <1>2, FS_CardinalityType, RuntimeWorkerAssumption
<1>4. First' => CapacityOfFirst'
  <2> SUFFICES ASSUME First' PROVE CapacityOfFirst'
    OBVIOUS
  <2>1. CapacityOfFirst
    BY DEF First, FirstStart
  <2>2. \A a \in Attempts : Claiming(a)' => Claiming(a)
    BY DEF Claiming
  <2>3. \A a \in Attempts : Claiming(a) => Claiming(a)' \/ local'[a].terminal \/ record'[a] # "ack_sent"
    BY DEF Claiming
  <2>4. \A a \in Attempts :
          /\ record'[a] # "received"
          /\ record'[a] = "ack_sent" => Claiming(a)' \/ local'[a].terminal
          /\ record'[a] = "confirmed" => local'[a].terminal
    BY <2>1, <2>3 DEF CapacityOfFirst
  <2>5. Cardinality(Active') <= Capacity
    BY <1>2, <1>3, <2>1 DEF CapacityOfFirst
  <2>6. (\E a \in Attempts : Claiming(a)') => Cardinality(Active') < Capacity
    BY <1>2, <1>3, <2>1, <2>2 DEF CapacityOfFirst
  <2>7. QED
    BY <2>4, <2>5, <2>6 DEF CapacityOfFirst
<1>5. budget'.starts <= MaxStarts
      /\ (budget'.starts = MaxStarts => up' = "down" /\ \A a \in Attempts : record'[a] = "absent")
  OBVIOUS
<1>6. QED
  BY <1>2, <1>4, <1>5

\* A process that ends has no active attempt.
LEMMA EndKeepsCapacity ==
  ASSUME IInv, CapInv, up # "down", NEW cause, ReportFatal(cause), budget'.starts = budget.starts
  PROVE  CapInv'
<1>1. Active' = {}
  BY DEF Active, ReportFatal, NoLocal
<1>2. IsFiniteSet(Active')
  BY <1>1, FS_EmptySet
<1>3. up' = "down"
  BY DEF ReportFatal
<1>4. QED
  BY <1>2, <1>3 DEF CapInv, First

\* An assignment that is acknowledged, or one that waits for its confirmation, starts.
LEMMA StartKeepsCapacity ==
  ASSUME IInv, CapInv, up # "down", NEW a \in Attempts, ConfirmAndStart(a),
         record[a] \in {"ack_sent", "confirmed"},
         claim' \in {claim, NoCall}, UNCHANGED <<up, budget>>,
         claim' = NoCall => claim.a = a \/ claim.pc # "ack"
  PROVE  CapInv'
<1>1. /\ \A b \in Attempts : b # a => local'[b] = local[b] /\ record'[b] = record[b]
      /\ local'[a].terminal = local[a].terminal
      /\ IF ~local[a].active /\ ~local[a].terminal
           THEN record'[a] = "started" /\ local'[a].active
           ELSE record'[a] = "confirmed" /\ local'[a].active = local[a].active
  BY ConfirmAndStartFields DEF IInv
<1>2. /\ claim'.pc = "ack" => claim' = claim
      /\ claim.pc = "ack" /\ claim.a # a => claim' = claim
  BY ClaimIdle
<1>3. ~local[a].active /\ a \notin Active
  BY DEF IInv, AttemptsOK, LocalOK, Active
<1>4. CASE local[a].terminal
  <2>1. Active' = Active
    BY <1>1, <1>4 DEF Active
  <2>2. \A b \in Attempts : Claiming(b)' => Claiming(b)
    BY <1>1, <1>2, <1>4 DEF Claiming
  <2>3. \A b \in Attempts : b # a /\ Claiming(b) => Claiming(b)'
    BY <1>1, <1>2 DEF Claiming
  <2>4. First' => CapacityOfFirst'
    BY <1>1, <1>4, <2>1, <2>2, <2>3 DEF CapInv, First, FirstStart, CapacityOfFirst
  <2>5. QED
    BY <2>1, <2>4 DEF CapInv
<1>5. CASE ~local[a].terminal
  <2>1. Active' = Active \union {a}
    BY <1>1, <1>3, <1>5 DEF Active
  <2>2. IsFiniteSet(Active') /\ Cardinality(Active') = Cardinality(Active) + 1
    BY <1>3, <2>1, FS_AddElement DEF CapInv
  <2>3. Cardinality(Active) \in Nat /\ Capacity \in Nat
    BY FS_CardinalityType, RuntimeWorkerAssumption DEF CapInv
  <2>4. First' => CapacityOfFirst'
    <3> SUFFICES ASSUME First' PROVE CapacityOfFirst'
      OBVIOUS
    <3>1. CapacityOfFirst
      BY DEF CapInv, First, FirstStart
    <3>2. Claiming(a)
      BY <1>5, <3>1 DEF CapacityOfFirst
    <3>3. \A b \in Attempts : ~Claiming(b)'
      BY <1>1, <1>2, <1>3, <1>5, <3>2 DEF Claiming
    <3>4. Cardinality(Active') <= Capacity
      BY <2>2, <2>3, <3>1, <3>2 DEF CapacityOfFirst
    <3>5. \A b \in Attempts : b # a => ~Claiming(b)
      BY <3>2 DEF Claiming
    <3>6. \A b \in Attempts :
            /\ record'[b] # "received"
            /\ record'[b] = "ack_sent" => local'[b].terminal
            /\ record'[b] = "confirmed" => local'[b].terminal
      BY <1>1, <1>3, <1>5, <3>1, <3>5 DEF CapacityOfFirst
    <3>7. QED
      BY <3>3, <3>4, <3>6 DEF CapacityOfFirst
  <2>5. QED
    BY <2>2, <2>4 DEF CapInv
<1>6. QED
  BY <1>4, <1>5

\* One attempt changes: it does not become active and stays terminal.
LEMMA QuietLocal ==
  ASSUME IInv, NEW a \in Attempts, NEW l, SetLocal(a, l),
         l.active => local[a].active, local[a].terminal => l.terminal
  PROVE  \A b \in Attempts :
           /\ local'[b].active => local[b].active
           /\ local[b].terminal => local'[b].terminal
<1>1. local'[a] = l /\ \A b \in Attempts : b # a => local'[b] = local[b]
  BY DEF IInv, Types, SetLocal
<1>2. QED
  BY <1>1

\* The steps that change neither what the process keeps nor the journal.
LEMMA QuietAround ==
  ASSUME IInv,
         \/ Claim \/ ClaimEmpty \/ CoreAnswersAssignment \/ AssignmentRevoked \/ ClaimAnswerLost
         \/ FlushStart \/ FlushEnds \/ (\E a \in Attempts : FlushAttempt(a)) \/ CoreAnswersUpload
         \/ EventAcknowledged \/ EventsReplayed \/ UploadRevoked \/ CoreMissesEvents \/ UploadFails
         \/ SwitchStart \/ CoreAnswersResume \/ ResumeAnswered \/ ResumeEnds \/ ResumeAnswerLost
         \/ Drain \/ UNCHANGED vars
         \/ \E a \in Attempts : CoreRevokes(a) \/ CoreCancels(a) \/ HandlerEmits(a)
  PROVE  Quiet
<1>1. UNCHANGED <<record, local>>
  BY DEF Claim, ClaimEmpty, CoreAnswersAssignment, AssignmentRevoked, ClaimAnswerLost, FlushStart,
         FlushEnds, FlushAttempt, CoreAnswersUpload, EventAcknowledged, EventsReplayed, UploadRevoked,
         CoreMissesEvents, UploadFails, SwitchStart, CoreAnswersResume, ResumeAnswered, ResumeEnds,
         ResumeAnswerLost, Drain, vars, CoreRevokes, CoreCancels, HandlerEmits, durable
<1>2. budget'.starts = budget.starts
  BY DEF Claim, ClaimEmpty, CoreAnswersAssignment, AssignmentRevoked, ClaimAnswerLost, FlushStart,
         FlushEnds, FlushAttempt, CoreAnswersUpload, EventAcknowledged, EventsReplayed, UploadRevoked,
         CoreMissesEvents, UploadFails, SwitchStart, CoreAnswersResume, ResumeAnswered, ResumeEnds,
         ResumeAnswerLost, Drain, vars, CoreRevokes, CoreCancels, HandlerEmits, process, Lost,
         IInv, Types, Budgets
<1>3. up = "down" => up' = up
  <2>1. resume.pc = "apply" => up # "down"
    BY NotDownResume
  <2>2. QED
    BY <2>1 DEF Claim, ClaimEmpty, CoreAnswersAssignment, AssignmentRevoked, ClaimAnswerLost, FlushStart,
         FlushEnds, FlushAttempt, CoreAnswersUpload, EventAcknowledged, EventsReplayed, UploadRevoked,
         CoreMissesEvents, UploadFails, SwitchStart, CoreAnswersResume, ResumeAnswered, ResumeEnds,
         ResumeAnswerLost, Drain, vars, CoreRevokes, CoreCancels, HandlerEmits, process
<1>4. /\ claim'.pc = "ack" => claim.pc = "ack" /\ claim'.a = claim.a
      /\ claim.pc = "ack" => claim'.pc = "ack"
  <2>1. claim \in ClaimRecords /\ NoCall.pc = "idle"
    BY DEF IInv, Types, NoCall
  <2>2. CASE Claim \/ ClaimEmpty \/ AssignmentRevoked
    BY <2>1, <2>2 DEF Claim, ClaimEmpty, AssignmentRevoked, ClaimRecords
  <2>3. CASE CoreAnswersAssignment \/ ResumeEnds
    <3>1. claim'.pc = claim.pc /\ claim'.a = claim.a
      BY <2>1, <2>3 DEF CoreAnswersAssignment, ResumeEnds, ClaimRecords
    <3>2. QED
      BY <3>1
  <2>4. CASE ClaimAnswerLost
    BY <2>1, <2>4 DEF ClaimAnswerLost, ClaimRecords
  <2>5. CASE UNCHANGED claim
    BY <2>5
  <2>6. QED
    BY <2>2, <2>3, <2>4, <2>5 DEF FlushStart,
         FlushEnds, FlushAttempt, CoreAnswersUpload, EventAcknowledged, EventsReplayed, UploadRevoked,
         CoreMissesEvents, UploadFails, SwitchStart, CoreAnswersResume, ResumeAnswered,
         ResumeAnswerLost, Drain, vars, CoreRevokes, CoreCancels, HandlerEmits
<1>5. QED
  BY <1>1, <1>2, <1>3, <1>4, Zenon DEF Quiet

\* The steps that change what the process keeps of an attempt, not the journal.
LEMMA QuietTask ==
  ASSUME IInv, NEW a \in Attempts,
         \/ HandlerReturns(a) \/ RenewRefused(a) \/ LeaseExpires(a)
         \/ CancelQueued(a) \/ CancelStart(a)
         \/ CancelLock(a) \/ CancelWait(a) \/ CancelStopped(a) \/ CancelUnconfirmed(a)
         \/ LeaseRevoked(a) \/ ApplyUploadOnly(a) \/ AcknowledgedWaits(a) \/ ApplyRevoked(a)
  PROVE  Quiet
<1>1. UNCHANGED <<record, claim, up>> /\ budget'.starts = budget.starts
  BY DEF HandlerReturns, RenewRefused, LeaseExpires, CancelQueued, CancelStart, CancelLock, CancelWait,
         CancelStopped, CancelUnconfirmed, LeaseRevoked, ApplyUploadOnly, AcknowledgedWaits,
         ApplyRevoked, durable, process, Lost, IInv, Types, Budgets
<1>2. local[a] \in Local
  BY DEF IInv, Types
<1> DEFINE Calm(l) == SetLocal(a, l) /\ (l.active => local[a].active) /\ (local[a].terminal => l.terminal)
<1>3. \E l : Calm(l)
  <2>1. CASE HandlerReturns(a)
    <3>1. PICK h \in Handlers : SetLocal(a, [local[a] EXCEPT !.handler = h])
      BY <2>1 DEF HandlerReturns, Handlers
    <3>2. Calm([local[a] EXCEPT !.handler = h])
      BY <1>2, <3>1 DEF Local
    <3>3. QED
      BY <3>2
  <2>2. CASE RenewRefused(a) \/ LeaseRevoked(a) \/ (ApplyRevoked(a) /\ record[a] # "absent")
    <3>1. Calm(Revoke(local[a]))
      BY <1>2, <2>2, RevokeFields DEF RenewRefused, LeaseRevoked, ApplyRevoked
    <3>2. QED
      BY <3>1
  <2>3. CASE LeaseExpires(a)
    <3>1. Calm([Revoke(local[a]) EXCEPT !.expired = TRUE])
      BY <1>2, <2>3, RevokeFields DEF LeaseExpires, Local
    <3>2. QED
      BY <3>1
  <2>4. CASE CancelStart(a) /\ record[a] # "absent"
    <3>1. Calm([local[a] EXCEPT !.terminal = TRUE, !.cancelled = @ \/ local[a].active, !.cancel = "lock"])
      BY <1>2, <2>4 DEF CancelStart, Local
    <3>2. QED
      BY <3>1
  <2>5. CASE CancelLock(a)
    <3>1. Calm([local[a] EXCEPT !.allowed = FALSE, !.cancel = "wait"])
      BY <1>2, <2>5 DEF CancelLock, Local
    <3>2. QED
      BY <3>1
  <2>6. CASE \/ CancelQueued(a) \/ CancelWait(a) \/ CancelUnconfirmed(a)
             \/ CancelStart(a) /\ record[a] = "absent"
    <3>1. PICK c \in {"none", "queued", "stopped"} : SetLocal(a, [local[a] EXCEPT !.cancel = c])
      BY <2>6 DEF CancelQueued, CancelStart, CancelWait, CancelUnconfirmed
    <3>2. Calm([local[a] EXCEPT !.cancel = c])
      BY <1>2, <3>1 DEF Local
    <3>3. QED
      BY <3>2
  <2>7. CASE CancelStopped(a)
    <3>1. Calm([local[a] EXCEPT !.cancel = "none", !.finalizing = TRUE])
      BY <1>2, <2>7 DEF CancelStopped, Local
    <3>2. QED
      BY <3>1
  <2>8. CASE ApplyUploadOnly(a)
    <3>1. Calm([local[a] EXCEPT !.allowed = TRUE])
      BY <1>2, <2>8 DEF ApplyUploadOnly, Local
    <3>2. QED
      BY <3>1
  <2>9. CASE AcknowledgedWaits(a)
    <3>1. Calm([local[a] EXCEPT !.cancelled = @ \/ local[a].active])
      BY <1>2, <2>9 DEF AcknowledgedWaits, Local
    <3>2. QED
      BY <3>1
  <2>10. CASE ApplyRevoked(a) /\ record[a] = "absent"
    <3>1. Calm([Forget(local[a]) EXCEPT !.terminal = TRUE])
      BY <1>2, <2>10, ForgetFields DEF ApplyRevoked, Local
    <3>2. QED
      BY <3>1
  <2>11. QED
    BY <2>1, <2>2, <2>3, <2>4, <2>5, <2>6, <2>7, <2>8, <2>9, <2>10
<1>4. QED
  BY <1>1, <1>3, QuietLocal DEF Quiet

\* The steps that remove a record, store a Result, or end the call of an assignment.
LEMMA FinalizeCapacity ==
  ASSUME IInv, CapInv, NEW a \in Attempts, Finalize(a)
  PROVE  CapInv'
<1> DEFINE l == [Forget(local[a]) EXCEPT !.finalizing = FALSE]
<1>1. local[a] \in Local /\ up # "down" /\ record' = [record EXCEPT ![a] = "absent"]
      /\ SetLocal(a, l) /\ UNCHANGED <<claim, up, budget>>
  BY NotDown DEF Finalize, IInv, Types, process
<1>2. ~l.active /\ l.terminal = local[a].terminal
  BY <1>1, ForgetFields DEF Local
<1> HIDE DEF l
<1>3. \A b \in Attempts : record'[b] = record[b] \/ record'[b] = "absent"
  BY <1>1 DEF IInv, Types
<1>4. Quiet
  BY <1>1, <1>2, <1>3, QuietLocal DEF Quiet
<1>5. QED
  BY <1>4, QuietKeepsCapacity

LEMMA StoreResultCapacity ==
  ASSUME IInv, CapInv, NEW a \in Attempts, StoreResult(a)
  PROVE  CapInv'
<1>1. local[a] \in Local /\ up # "down" /\ budget' = budget
  BY NotDown DEF StoreResult, IInv, Types
<1>2. CASE ReportFatal("Result of no started assignment")
  BY <1>1, <1>2, EndKeepsCapacity
<1>3. CASE local[a].cancelled \/ record[a] = "started"
  <2>1. PICK allowed \in BOOLEAN :
          SetLocal(a, [local[a] EXCEPT !.handler = "ended", !.allowed = allowed])
    <3>1. CASE local[a].cancelled
      <4>1. [local[a] EXCEPT !.handler = "ended"]
              = [local[a] EXCEPT !.handler = "ended", !.allowed = local[a].allowed]
        BY <1>1 DEF Local
      <4>2. SetLocal(a, [local[a] EXCEPT !.handler = "ended"]) /\ local[a].allowed \in BOOLEAN
        BY <1>1, <3>1, LocalTypes DEF StoreResult
      <4>3. QED
        BY <4>1, <4>2
    <3>2. CASE ~local[a].cancelled
      BY <1>3, <3>2 DEF StoreResult
    <3>3. QED
      BY <3>1, <3>2
  <2>2. \A b \in Attempts : record'[b] = record[b] \/ record'[b] = "finished"
    BY <1>3 DEF StoreResult, IInv, Types
  <2>3. UNCHANGED <<claim, up>>
    BY <1>3 DEF StoreResult
  <2> DEFINE l == [local[a] EXCEPT !.handler = "ended", !.allowed = allowed]
  <2>4. l.active = local[a].active /\ l.terminal = local[a].terminal /\ SetLocal(a, l)
    BY <1>1, <2>1 DEF Local
  <2> HIDE DEF l
  <2>5. Quiet
    BY <1>1, <2>2, <2>3, <2>4, QuietLocal DEF Quiet
  <2>6. QED
    BY <2>5, QuietKeepsCapacity
<1>4. QED
  BY <1>2, <1>3 DEF StoreResult

LEMMA ResultAcknowledgedCapacity ==
  ASSUME IInv, CapInv, ResultAcknowledged
  PROVE  CapInv'
<1>1. flush.a \in Attempts /\ up # "down"
  BY NotDownFlush DEF ResultAcknowledged, IInv, FlushOK, Uploads
<1> PICK a \in Attempts : a = flush.a
  BY <1>1
<1>2. /\ local[a] \in Local /\ record' = [record EXCEPT ![a] = "absent"]
      /\ SetLocal(a, Forget(local[a])) /\ UNCHANGED <<claim, up, budget>>
  BY DEF ResultAcknowledged, IInv, Types, process
<1>3. \A b \in Attempts : record'[b] = record[b] \/ record'[b] = "absent"
  BY <1>2 DEF IInv, Types
<1>4. Quiet
  BY <1>1, <1>2, <1>3, ForgetFields, QuietLocal DEF Quiet
<1>5. QED
  BY <1>4, QuietKeepsCapacity

LEMMA ResumeFailsCapacity ==
  ASSUME IInv, CapInv, up # "down", NEW cause, ResumeFails(cause), UNCHANGED <<record, budget>>
  PROVE  CapInv'
<1>1. CASE ReportFatal(cause)
  BY <1>1, EndKeepsCapacity
<1>2. CASE UNCHANGED <<local, claim, up>>
  BY <1>2, QuietKeepsCapacity DEF Quiet
<1>3. QED
  BY <1>1, <1>2 DEF ResumeFails

LEMMA ApplyAcknowledgedCapacity ==
  ASSUME IInv, CapInv, NEW a \in Attempts, ApplyAcknowledged(a)
  PROVE  CapInv'
<1> DEFINE l == [Forget(local[a]) EXCEPT !.cancelled = @ \/ local[a].active]
<1>1. local[a] \in Local /\ up # "down" /\ budget' = budget
  BY NotDownResume DEF ApplyAcknowledged, Applying, IInv, Types
<1>2. CASE ResumeFails("no matching durable Result") /\ UNCHANGED durable
  BY <1>1, <1>2, ResumeFailsCapacity DEF durable
<1>3. CASE record' = [record EXCEPT ![a] = "absent"] /\ SetLocal(a, l) /\ UNCHANGED <<claim, up>>
  <2>1. ~l.active /\ l.terminal = local[a].terminal
    BY <1>1, ForgetFields DEF Local
  <2>2. SetLocal(a, l) /\ UNCHANGED <<claim, up>>
    BY <1>3
  <2>3. \A b \in Attempts : record'[b] = record[b] \/ record'[b] = "absent"
    BY <1>3 DEF IInv, Types
  <2> HIDE DEF l
  <2>4. Quiet
    BY <1>1, <2>1, <2>2, <2>3, QuietLocal DEF Quiet
  <2>5. QED
    BY <2>4, QuietKeepsCapacity
<1>4. QED
  BY <1>2, <1>3 DEF ApplyAcknowledged

LEMMA AssignmentRejectedCapacity ==
  ASSUME IInv, CapInv, AssignmentRejected
  PROVE  CapInv'
<1>1. up # "down" /\ claim.pc = "reject" /\ budget' = budget
  BY NotDownClaim DEF AssignmentRejected
<1>2. CASE ReportFatal("rejected assignment is gone")
  BY <1>1, <1>2, EndKeepsCapacity
<1>3. CASE claim' = NoCall /\ UNCHANGED <<local, up>>
  <2>1. \A b \in Attempts : record'[b] = record[b] \/ record'[b] = "absent"
    BY <1>3 DEF AssignmentRejected, IInv, Types, ReportFatal
  <2>2. claim'.pc = "idle"
    BY <1>3, ClaimIdle
  <2>3. Quiet
    BY <1>1, <1>3, <2>1, <2>2 DEF Quiet
  <2>4. QED
    BY <2>3, QuietKeepsCapacity
<1>4. QED
  BY <1>2, <1>3 DEF AssignmentRejected

LEMMA AssignmentRefusedCapacity ==
  ASSUME IInv, CapInv, AssignmentRefused
  PROVE  CapInv'
<1>1. claim.a \in Attempts /\ up # "down" /\ NoCall.pc = "idle"
  BY NotDownClaim DEF AssignmentRefused, IInv, ClaimOK, AssignmentCalls, NoCall
<1> PICK a \in Attempts : a = claim.a
  BY <1>1
<1> DEFINE l == IF record[a] = "absent" THEN [local[a] EXCEPT !.terminal = TRUE]
                                        ELSE Revoke(local[a])
<1>2. /\ local[a] \in Local /\ UNCHANGED <<record, up, budget>>
      /\ claim' = [NoCall EXCEPT !.pc = "revoke", !.a = a]
      /\ SetLocal(a, l)
  BY DEF AssignmentRefused, IInv, Types, durable, process, SetLocal
<1>3. l.active = local[a].active /\ l.terminal
  BY <1>2, RevokeFields DEF Local
<1>4. claim'.pc = "revoke"
  BY <1>2 DEF NoCall
<1> HIDE DEF l
<1>5. local'[a].terminal
  BY <1>2, <1>3 DEF SetLocal, IInv, Types
<1>6. Quiet
  BY <1>2, <1>3, <1>4, <1>5, QuietLocal DEF Quiet
<1>7. QED
  BY <1>6, QuietKeepsCapacity

LEMMA CoreOffersCapacity ==
  ASSUME IInv, CapInv, NEW a \in Attempts, CoreOffers(a)
  PROVE  CapInv'
<1> DEFINE l == [local[a] EXCEPT !.ours = TRUE]
<1>1. /\ local[a] \in Local /\ UNCHANGED <<record, up, budget>> /\ claim.pc = "call"
      /\ claim' = [claim EXCEPT !.a = a, !.net = "ok"] /\ claim \in ClaimRecords
      /\ SetLocal(a, l)
  BY DEF CoreOffers, IInv, Types, durable, process, SetLocal
<1>2. l.active = local[a].active /\ l.terminal = local[a].terminal
  BY <1>1 DEF Local
<1>3. claim'.pc = "call"
  BY <1>1 DEF ClaimRecords
<1> HIDE DEF l
<1>4. Quiet
  BY <1>1, <1>2, <1>3, QuietLocal DEF Quiet
<1>5. QED
  BY <1>4, QuietKeepsCapacity

LEMMA UploadRefusedCapacity ==
  ASSUME IInv, CapInv, UploadRefused
  PROVE  CapInv'
<1>1. flush.a \in Attempts /\ up # "down"
  BY NotDownFlush DEF UploadRefused, IInv, FlushOK
<1> PICK a \in Attempts : a = flush.a
  BY <1>1
<1>2. local[a] \in Local /\ SetLocal(a, Revoke(local[a])) /\ UNCHANGED <<record, claim, up, budget>>
  BY DEF UploadRefused, IInv, Types, durable, process
<1>3. Quiet
  BY <1>2, RevokeFields, QuietLocal DEF Quiet
<1>4. QED
  BY <1>3, QuietKeepsCapacity

\* A step of a process in which no assignment waits to be confirmed and none is acknowledged
\* is no concern of the first process.
LEMMA SameActive ==
  ASSUME IInv, CapInv, up # "down", UNCHANGED <<local, up, budget>>, First => CapacityOfFirst'
  PROVE  CapInv'
<1>1. Active' = Active
  BY DEF Active
<1>2. First' = First
  BY DEF First, FirstStart
<1>3. QED
  BY <1>1, <1>2 DEF CapInv

\* An assignment is acknowledged when there is room for it, and the first process has no
\* acknowledgement to repeat.
LEMMA HandleAssignmentCapacity ==
  ASSUME IInv, CapInv, HandleAssignment
  PROVE  CapInv'
<1>0. /\ claim.pc = "call" /\ claim.net = "ok" /\ claim.a \in Attempts
      /\ up # "down" /\ claim \in ClaimRecords
  BY NotDownClaim DEF HandleAssignment, IInv, Types, ClaimOK
<1> PICK a \in Attempts : a = claim.a
  BY <1>0
<1>1. /\ UNCHANGED <<core, events, flush, resume, up, fatal, budget>>
      /\ IF local[a].terminal
           THEN claim' = NoCall /\ UNCHANGED <<record, local, runs>>
         ELSE IF record[a] \in {"absent", "received"}
           THEN /\ record' = [record EXCEPT ![a] = IF Full THEN "reject_sent" ELSE "ack_sent"]
                /\ claim' = [claim EXCEPT !.pc = IF Full THEN "reject" ELSE "ack", !.net = "sent"]
                /\ UNCHANGED <<local, runs>>
         ELSE IF record[a] \in {"ack_sent", "started", "finished"}
           THEN /\ claim' = [claim EXCEPT !.pc = IF record[a] = "ack_sent" THEN "ack" ELSE "reack",
                                          !.net = "sent"]
                /\ UNCHANGED <<record, local, runs>>
         ELSE IF record[a] = "confirmed"
           THEN ConfirmAndStart(a) /\ claim' = NoCall
         ELSE claim' = NoCall /\ UNCHANGED <<record, local, runs>>
  BY DEF HandleAssignment, process
<1>2. CASE claim' = NoCall /\ UNCHANGED <<record, local>>
  BY <1>0, <1>1, <1>2, ClaimIdle, QuietKeepsCapacity DEF Quiet
<1>3. CASE ~local[a].terminal /\ record[a] \in {"absent", "received"} /\ Full
  <2>1. /\ record' = [record EXCEPT ![a] = "reject_sent"]
        /\ claim' = [claim EXCEPT !.pc = "reject", !.net = "sent"] /\ UNCHANGED local
    BY <1>1, <1>3
  <2>2. claim'.pc = "reject"
    BY <1>0, <2>1 DEF ClaimRecords
  <2>3. \A b \in Attempts : record'[b] = record[b] \/ record'[b] = "reject_sent"
    BY <2>1 DEF IInv, Types
  <2>4. Quiet
    BY <1>0, <1>1, <2>1, <2>2, <2>3 DEF Quiet
  <2>5. QED
    BY <2>4, QuietKeepsCapacity
<1>4. CASE ~local[a].terminal /\ record[a] \in {"absent", "received"} /\ ~Full
  <2>1. /\ record' = [record EXCEPT ![a] = "ack_sent"]
        /\ claim' = [claim EXCEPT !.pc = "ack", !.net = "sent"] /\ UNCHANGED local
    BY <1>1, <1>4
  <2>2. claim'.pc = "ack" /\ claim'.a = a
    BY <1>0, <2>1 DEF ClaimRecords
  <2>3. record'[a] = "ack_sent" /\ \A b \in Attempts : b # a => record'[b] = record[b]
    BY <2>1 DEF IInv, Types
  <2>4. Active' = Active /\ Cardinality(Active) \in Nat /\ Capacity \in Nat
    BY <2>1, FS_CardinalityType, RuntimeWorkerAssumption DEF CapInv, Active
  <2>5. Cardinality(Active') < Capacity
    BY <1>4, <2>4 DEF Full
  <2>6. First => CapacityOfFirst'
    <3> SUFFICES ASSUME First PROVE CapacityOfFirst'
      OBVIOUS
    <3>1. Claiming(a)'
      BY <1>4, <2>1, <2>2, <2>3 DEF Claiming
    <3>2. \A b \in Attempts : b # a => record'[b] = record[b] /\ local'[b] = local[b] /\ ~Claiming(b)
      BY <1>0, <2>1, <2>3 DEF Claiming
    <3>3. \A b \in Attempts :
            /\ record'[b] # "received"
            /\ record'[b] = "ack_sent" => Claiming(b)' \/ local'[b].terminal
            /\ record'[b] = "confirmed" => local'[b].terminal
      BY <2>3, <3>1, <3>2 DEF CapInv, CapacityOfFirst
    <3>4. QED
      BY <2>4, <2>5, <3>3 DEF CapacityOfFirst
  <2>7. QED
    BY <1>0, <1>1, <2>1, <2>6, SameActive
<1>5. CASE ~local[a].terminal /\ record[a] = "ack_sent"
  <2>1. ~First
    BY <1>0, <1>5 DEF CapInv, CapacityOfFirst, Claiming
  <2>2. UNCHANGED local
    BY <1>1, <1>5
  <2>3. QED
    BY <1>0, <1>1, <2>1, <2>2, SameActive
<1>6. CASE ~local[a].terminal /\ record[a] \in {"started", "finished"}
  <2>1. claim' = [claim EXCEPT !.pc = "reack", !.net = "sent"] /\ UNCHANGED <<record, local>>
    BY <1>1, <1>6
  <2>2. claim'.pc = "reack"
    BY <1>0, <2>1 DEF ClaimRecords
  <2>3. Quiet
    BY <1>0, <1>1, <2>1, <2>2 DEF Quiet
  <2>4. QED
    BY <2>3, QuietKeepsCapacity
<1>7. CASE ~local[a].terminal /\ record[a] = "confirmed"
  <2>1. ConfirmAndStart(a) /\ claim' = NoCall
    BY <1>1, <1>7
  <2>2. QED
    BY <1>0, <1>1, <1>7, <2>1, StartKeepsCapacity
<1>8. QED
  BY <1>1, <1>2, <1>3, <1>4, <1>5, <1>6, <1>7

LEMMA AssignmentConfirmedCapacity ==
  ASSUME IInv, CapInv, AssignmentConfirmed
  PROVE  CapInv'
<1>0. /\ claim.pc \in {"ack", "reack"} /\ claim.net = "ok" /\ claim.a \in Attempts /\ up # "down"
  BY NotDownClaim DEF AssignmentConfirmed, IInv, ClaimOK, AssignmentCalls
<1> PICK a \in Attempts : a = claim.a
  BY <1>0
<1>1. /\ UNCHANGED <<core, events, budget>>
      /\ IF local[a].terminal \/ claim.pc = "reack"
           THEN claim' = NoCall /\ UNCHANGED <<record, local, runs, flush, resume, up, fatal>>
         ELSE IF record[a] \in {"ack_sent", "confirmed"}
           THEN ConfirmAndStart(a) /\ claim' = NoCall /\ UNCHANGED <<flush, resume, up, fatal>>
         ELSE ReportFatal("assignment already confirmed") /\ UNCHANGED <<record, runs>>
  BY DEF AssignmentConfirmed
<1>2. CASE local[a].terminal \/ claim.pc = "reack"
  <2>1. claim'.pc = "idle"
    BY <1>1, <1>2, ClaimIdle
  <2>2. Quiet
    BY <1>0, <1>1, <1>2, <2>1 DEF Quiet
  <2>3. QED
    BY <2>2, QuietKeepsCapacity
<1>3. CASE ~(local[a].terminal \/ claim.pc = "reack") /\ record[a] \in {"ack_sent", "confirmed"}
  <2>1. ConfirmAndStart(a) /\ claim' = NoCall /\ UNCHANGED <<up, budget>>
    BY <1>1, <1>3
  <2>2. QED
    BY <1>0, <1>3, <2>1, StartKeepsCapacity
<1>4. CASE ~(local[a].terminal \/ claim.pc = "reack") /\ record[a] \notin {"ack_sent", "confirmed"}
  <2>1. ReportFatal("assignment already confirmed") /\ budget' = budget
    BY <1>1, <1>4
  <2>2. QED
    BY <1>0, <2>1, EndKeepsCapacity
<1>5. QED
  BY <1>2, <1>3, <1>4

LEMMA ApplyContinueCapacity ==
  ASSUME IInv, CapInv, NEW a \in Attempts, ApplyContinue(a)
  PROVE  CapInv'
<1> DEFINE l == [local[a] EXCEPT !.allowed = TRUE]
           fail(cause) == ResumeFails(cause) /\ UNCHANGED <<record, runs>>
<1>1. /\ up # "down" /\ budget' = budget
      /\ \/ \E cause : fail(cause)
         \/ SetLocal(a, l) /\ UNCHANGED <<record, claim, up>>
         \/ record[a] \in {"ack_sent", "confirmed"} /\ ConfirmAndStart(a) /\ UNCHANGED <<claim, up>>
  BY NotDownResume DEF ApplyContinue, Applying
<1>2. CASE \E cause : fail(cause)
  BY <1>1, <1>2, ResumeFailsCapacity
<1>3. CASE SetLocal(a, l) /\ UNCHANGED <<record, claim, up>>
  <2>1. local[a] \in Local
    BY DEF IInv, Types
  <2>2. l.active = local[a].active /\ l.terminal = local[a].terminal
    BY <2>1 DEF Local
  <2>3. Quiet
    BY <1>1, <1>3, <2>2, QuietLocal DEF Quiet
  <2>4. QED
    BY <2>3, QuietKeepsCapacity
<1>4. CASE record[a] \in {"ack_sent", "confirmed"} /\ ConfirmAndStart(a) /\ UNCHANGED <<claim, up>>
  <2>1. NoCall.pc = "idle"
    BY DEF NoCall
  <2>2. QED
    BY <1>1, <1>4, <2>1, StartKeepsCapacity
<1>5. QED
  BY <1>1, <1>2, <1>3, <1>4

\* The first process starts with an empty journal.
LEMMA StartProcessCapacity ==
  ASSUME IInv, CapInv, StartProcess
  PROVE  CapInv'
<1>1. /\ up = "down" /\ budget' = [budget EXCEPT !.starts = @ - 1] /\ budget.starts > 0
      /\ UNCHANGED <<record, local>>
  BY DEF StartProcess
<1>2. budget.starts \in Nat /\ budget'.starts = budget.starts - 1 /\ MaxStarts \in Nat /\ Capacity \in Nat
  BY <1>1, RuntimeWorkerAssumption DEF IInv, Types, Budgets
<1>3. Active' = {}
  BY <1>1 DEF IInv, DownIsEmpty, NoLocal, Active
<1>4. IsFiniteSet(Active') /\ Cardinality(Active') = 0
  BY <1>3, FS_EmptySet
<1>5. First' => CapacityOfFirst'
  <2> SUFFICES ASSUME First' PROVE CapacityOfFirst'
    OBVIOUS
  <2>1. budget.starts = MaxStarts
    BY <1>2 DEF First, FirstStart, CapInv
  <2>2. \A a \in Attempts : record'[a] = "absent"
    BY <1>1, <2>1 DEF CapInv
  <2>3. \A a \in Attempts : ~Claiming(a)'
    BY <2>2 DEF Claiming
  <2>4. QED
    BY <1>2, <1>4, <2>2, <2>3 DEF CapacityOfFirst
<1>6. QED
  BY <1>2, <1>4, <1>5 DEF CapInv

LEMMA InitCapacity == Init => CapInv
<1> SUFFICES ASSUME Init PROVE CapInv
  OBVIOUS
<1>1. Active = {}
  BY DEF Init, Active, NoLocal
<1>2. IsFiniteSet(Active)
  BY <1>1, FS_EmptySet
<1>3. QED
  BY <1>2, RuntimeWorkerAssumption DEF Init, CapInv, First

LEMMA StepCapacity == IInv /\ CapInv /\ [Next]_vars => CapInv'
<1> SUFFICES ASSUME IInv, CapInv, [Next]_vars PROVE CapInv'
  OBVIOUS
<1>1. CASE Claim \/ ClaimEmpty \/ ClaimStep \/ ClaimAnswerLost
  BY <1>1, QuietAround, QuietKeepsCapacity, HandleAssignmentCapacity, AssignmentConfirmedCapacity,
     AssignmentRejectedCapacity, AssignmentRefusedCapacity DEF ClaimStep
<1>2. CASE AckUnrouted
  BY <1>2, NotDownClaim, EndKeepsCapacity DEF AckUnrouted, Lost, IInv, Types, Budgets
<1>3. CASE FlushStep \/ CoreMissesEvents \/ UploadFails
  BY <1>3, QuietAround, QuietTask, QuietKeepsCapacity, ResultAcknowledgedCapacity,
     UploadRefusedCapacity DEF FlushStep
<1>4. CASE StartProcess \/ SwitchStart \/ ResumeStep \/ ResumeAnswerLost \/ Drain
  BY <1>4, QuietAround, QuietTask, QuietKeepsCapacity, StartProcessCapacity, ApplyContinueCapacity,
     ApplyAcknowledgedCapacity DEF ResumeStep
<1>5. CASE Crash
  BY <1>5, EndKeepsCapacity DEF Crash
<1>6. ASSUME NEW a \in Attempts,
             \/ CoreOffers(a) \/ CoreRevokes(a) \/ CoreCancels(a)
             \/ HandlerEmits(a) \/ HandlerReturns(a) \/ StoreResult(a)
             \/ RenewRefused(a) \/ LeaseExpires(a) \/ Finalize(a)
             \/ CancelQueued(a) \/ CancelStart(a) \/ CancelStep(a) \/ CancelUnconfirmed(a) \/ LeaseRevoked(a)
      PROVE  CapInv'
  BY <1>6, QuietAround, QuietTask, QuietKeepsCapacity, CoreOffersCapacity, StoreResultCapacity,
     FinalizeCapacity DEF CancelStep
<1>7. CASE UNCHANGED vars
  BY <1>7, QuietAround, QuietKeepsCapacity
<1>8. QED
  BY <1>1, <1>2, <1>3, <1>4, <1>5, <1>6, <1>7 DEF Next

\* The first process owns no more attempts than the capacity it offers: the claim loop
\* acknowledges one assignment at a time and only when there is room, and what a resume of
\* that process may start is the one whose acknowledgement is under way (_handle_assignment,
\* _start_confirmed_attempt).
THEOREM CapacityIsKept == Spec => []CapacityKept
<1>1. IInv /\ CapInv => CapacityKept
  <2> SUFFICES ASSUME IInv, CapInv, FirstStart PROVE Cardinality(Active) <= Capacity
    BY DEF CapacityKept
  <2>1. CASE up = "down"
    <3>1. Active = {}
      BY <2>1 DEF IInv, DownIsEmpty, NoLocal, Active
    <3>2. QED
      BY <3>1, FS_EmptySet, RuntimeWorkerAssumption
  <2>2. CASE up # "down"
    BY <2>2 DEF CapInv, First, CapacityOfFirst
  <2>3. QED
    BY <2>1, <2>2
<1>2. QED
  BY <1>1, InvariantHolds, InitCapacity, StepCapacity, PTL DEF Spec
=============================================================================
