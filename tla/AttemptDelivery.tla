--------------------------- MODULE AttemptDelivery ---------------------------
(***************************************************************************)
(* What a Runtime worker promises of an attempt, without its tasks, its    *)
(* calls, its journal and its processes: the handler is started once, after*)
(* Core has accepted the worker; a Result is kept until Core has it or     *)
(* wants it no more; and what Core has recorded was stored before.         *)
(* RuntimeWorker implements it.                                            *)
(***************************************************************************)
EXTENDS Naturals

CONSTANT Attempts

VARIABLES
  stage,   \* how far the worker is with each attempt
  lease,   \* how far Core is with it
  starts,  \* how often its handler was started
  lapsed   \* the time of the lease that the worker knows of has passed

vars == <<stage, lease, starts, lapsed>>

Stages == {"waiting", "started", "answered", "gone"}
\* "ending": Core cancels, and may still take a Result that is on its way.
Leases == {"open", "accepted", "ending", "recorded", "refused", "ended"}

TypeOK ==
  /\ stage \in [Attempts -> Stages]
  /\ lease \in [Attempts -> Leases]
  /\ starts \in [Attempts -> Nat]
  /\ lapsed \in [Attempts -> BOOLEAN]

Init ==
  /\ stage = [a \in Attempts |-> "waiting"]
  /\ lease = [a \in Attempts |-> "open"]
  /\ starts = [a \in Attempts |-> 0]
  /\ lapsed = [a \in Attempts |-> FALSE]

-----------------------------------------------------------------------------
(* Steps of one attempt; a step of the system may be one of several *)

Move(f, a, from, to) == f[a] \in from /\ f'[a] = to
Keep(f, a) == f'[a] = f[a]

Accept(a) == Move(lease, a, {"open"}, "accepted")
Refuse(a) == Move(lease, a, {"open"}, "refused")
Cancel(a) == Move(lease, a, {"accepted"}, "ending")
End(a)    == Move(lease, a, {"open", "accepted", "ending"}, "ended")
\* Core records what the worker has stored.
Record(a) == stage[a] = "answered" /\ Move(lease, a, {"accepted", "ending"}, "recorded")

CoreMoves(a) ==
  /\ Accept(a) \/ Refuse(a) \/ Cancel(a) \/ End(a) \/ Record(a)
  /\ Keep(stage, a) /\ Keep(starts, a)

Start(a) ==
  /\ lease[a] \in {"accepted", "ending", "ended"}
  /\ Move(stage, a, {"waiting"}, "started")
  /\ starts'[a] = starts[a] + 1
Answer(a) == Move(stage, a, {"started"}, "answered") /\ Keep(starts, a)
\* An attempt that is given up without a Result.
Drop(a) == Move(stage, a, {"started"}, "gone") /\ Keep(starts, a)
\* A Result is removed only when Core has it or wants it no more.
Settle(a) ==
  /\ lease[a] \in {"recorded", "ending", "ended"} \/ lapsed[a]
  /\ Move(stage, a, {"answered"}, "gone") /\ Keep(starts, a)

WorkerMoves(a) ==
  /\ Start(a) \/ Answer(a) \/ Drop(a) \/ Settle(a)
  /\ Keep(lease, a)

Stays(a) == Keep(stage, a) /\ Keep(lease, a) /\ Keep(starts, a)

Next ==
  /\ \A a \in Attempts : Stays(a) \/ CoreMoves(a) \/ WorkerMoves(a)
  /\ stage' \in [Attempts -> Stages] /\ lease' \in [Attempts -> Leases]
  /\ starts' \in [Attempts -> Nat] /\ lapsed' \in [Attempts -> BOOLEAN]

Spec == Init /\ [][Next]_vars
=============================================================================
