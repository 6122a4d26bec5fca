------------------------ MODULE HandlerContextProofs ------------------------
(***************************************************************************)
(* An Event that a context accepts finds its record started, whatever the  *)
(* users of the context are and however many: a proof for HandlerContext.  *)
(***************************************************************************)
EXTENDS HandlerContext, TLAPS

\* The variables that decide whether an Event is accepted have their types.
Types ==
  /\ handler \in {"running", "returned", "stored", "gone"}
  /\ record \in {"started", "finished", "gone"}
  /\ closed \in BOOLEAN /\ cancelled \in BOOLEAN /\ force \in BOOLEAN

\* The context is closed before the worker looks at what the handler returned.
ReturnCloses == handler # "running" => closed

\* A record that is not started any more has a context that is not open.
RecordCloses ==
  /\ record = "finished" => closed
  /\ record = "gone" => closed \/ cancelled

Inv == Types /\ ReturnCloses /\ RecordCloses /\ EventsFindTheirRecord

\* The invariant holds when the handler starts (RuntimeContext.__init__).
LEMMA InitInvariant == Init => Inv
  BY DEF Init, Inv, Types, ReturnCloses, RecordCloses, EventsFindTheirRecord

\* Emit is refused by the store only in states the context has closed before.
LEMMA EmitInvariant ==
  ASSUME NEW u \in Users, Inv, Emit(u)
  PROVE  Inv'
<1>1. record = "started"
  BY DEF Emit, OpenForEmit, Open, Inv, Types, RecordCloses
<1>2. QED
  BY <1>1 DEF Emit, ends, Inv, Types, ReturnCloses, RecordCloses, EventsFindTheirRecord

\* Steps of the users but Emit leave what the invariant speaks of alone.
LEMMA UserInvariant ==
  ASSUME NEW u \in Users, Inv,
         \/ CallAgent(u) \/ ReadDelegatedRun(u) \/ CallAnswered(u) \/ CallDelayed(u)
         \/ OrphanAnswered(u) \/ OrphanDelayed(u) \/ ReadAnswered(u) \/ Returns(u)
         \/ Woken(u) \/ Reaped(u) \/ Interrupted(u)
  PROVE  Inv'
<1>1. UNCHANGED <<handler, events, record, ends>>
  BY DEF CallAgent, ReadDelegatedRun, CallAnswered, CallDelayed, OrphanAnswered,
         OrphanDelayed, ReadAnswered, Returns, Woken, Reaped, Interrupted
<1>2. QED
  BY <1>1 DEF ends, Inv, Types, ReturnCloses, RecordCloses, EventsFindTheirRecord

\* Every step keeps the invariant, one case for each action of the worker.
LEMMA StepInvariant == Inv /\ [Next]_vars => Inv'
<1> SUFFICES ASSUME Inv, [Next]_vars PROVE Inv'
  OBVIOUS
<1> USE DEF Inv, Types, ReturnCloses, RecordCloses, EventsFindTheirRecord
<1>1. CASE \E u \in Users : Emit(u)
  BY <1>1, EmitInvariant
<1>2. CASE \E u \in Users :
             \/ CallAgent(u) \/ ReadDelegatedRun(u) \/ CallAnswered(u) \/ CallDelayed(u)
             \/ OrphanAnswered(u) \/ OrphanDelayed(u) \/ ReadAnswered(u) \/ Returns(u)
             \/ Woken(u) \/ Reaped(u) \/ Interrupted(u)
  BY <1>2, UserInvariant
<1>3. CASE HandlerReturns
  BY <1>3 DEF HandlerReturns
<1>4. CASE StoreResult
  <2>1. closed
    BY <1>4 DEF StoreResult
  <2>2. QED
    BY <1>4, <2>1 DEF StoreResult, ends
<1>5. CASE Cancel
  BY <1>5 DEF Cancel
<1>6. CASE Finalize
  BY <1>6 DEF Finalize, ends
<1>7. CASE ForceCancel
  BY <1>7 DEF ForceCancel
<1>8. CASE DeadlinePasses \/ Switches \/ UNCHANGED vars
  BY <1>8 DEF DeadlinePasses, Switches, vars, ends
<1>9. QED
  BY <1>1, <1>2, <1>3, <1>4, <1>5, <1>6, <1>7, <1>8 DEF Next

\* In every reachable state: a record that has moved on has a closed context.
THEOREM InvariantHolds == Spec => []Inv
  BY InitInvariant, StepInvariant, PTL DEF Spec

\* EventsFindTheirRecord for every set of users (RuntimeContext.emit, _persist_event).
THEOREM EmitIsSafe == Spec => []EventsFindTheirRecord
<1>1. Inv => EventsFindTheirRecord
  BY DEF Inv
<1>2. QED
  BY <1>1, InvariantHolds, PTL
=============================================================================
