--------------------------- MODULE LifecycleProofs ---------------------------
(***************************************************************************)
(* What Lifecycle keeps for every set of Attempts, every capacity and any  *)
(* number of lost answers.                                                 *)
(***************************************************************************)
EXTENDS Lifecycle, TLAPS

-----------------------------------------------------------------------------
(* The inductive invariant *)

Phases ==
  {"starting", "resuming", "running", "heartbeat", "grace", "killing", "cancelled", "flush", "closed"}
ClaimLabels == {"off", "idle", "waiting", "polling", "acking", "rejecting"}
DrainLabels == {"off", "request", "lock", "calling", "check", "proof", "closing",
                "drained", "stopped", "failed"}
Owners == {"none", "external", "fatal", "lifecycle", "drain", "drain_failure"}

\* The values of the variables.
Shape ==
  /\ phase \in Phases
  /\ stopping \in BOOLEAN /\ draining \in BOOLEAN /\ force \in BOOLEAN
  /\ fatal \in BOOLEAN /\ spooling \in BOOLEAN /\ fenced \in BOOLEAN
  /\ owner \in Owners
  /\ lock \in {"free", "claim", "drain"}
  /\ claim \in [pc : ClaimLabels, attempt : Attempts \union {NoAttempt}]
  /\ drain \in [pc : DrainLabels, again : BOOLEAN, told : BOOLEAN]
  /\ att \in [Attempts -> AttemptStates]
  /\ losses \in 0 .. MaxLosses

\* Who stopped the worker, who holds the lock, whose assignment is answered.
Held ==
  /\ stopping <=> owner # "none"
  /\ stopping => draining
  /\ lock = "claim" <=> claim.pc = "polling"
  /\ lock = "drain" <=> drain.pc = "calling"
  /\ claim.attempt = NoAttempt <=> claim.pc \notin {"acking", "rejecting"}
  /\ \A a \in Attempts : att[a] \in {"acking", "rejecting"} <=> claim.attempt = a

\* What a drain knows by the time it got so far.  Once it has had the lock no claim polls
\* any more; once it was answered Core offers nothing more; the evidence of its second
\* request rests on a store that was seen empty before.
Evidence ==
  /\ drain.pc # "off" \/ drain.again => draining
  /\ drain.pc \in {"calling", "check", "proof", "closing", "drained"} \/ drain.again
       => claim.pc \notin {"waiting", "polling"}
  /\ drain.pc \in {"check", "proof", "closing", "drained"} \/ drain.again => fenced
  /\ drain.again => Records = {}
  /\ drain.pc = "check" /\ ~drain.told => core = {}
  /\ drain.pc \in {"proof", "closing", "drained"} => Records = {} /\ core = {}
  /\ drain.pc \in {"closing", "drained"} => owner = "drain"

\* What the last phases of a shutdown have behind them.
Ended ==
  /\ phase \in {"starting", "resuming", "flush", "closed"} => claim.pc = "off"
  /\ phase \in {"flush", "closed"} => Handlers = {}
  /\ phase = "closed" => flush = {}

\* Handlers that ran when the stop was requested end by themselves until their time is over.
Grace ==
  /\ ~stopping => atStop = {}
  /\ phase \notin {"starting", "resuming", "running"} => stopping
  /\ \A a \in atStop : a \in Attempts /\ att[a] \notin {"none", "offered", "acking", "rejecting"}
  /\ phase \in {"grace", "killing"} => atStop \intersect Running \subseteq waitFor
  /\ phase \in {"cancelled", "flush", "closed"} => atStop \intersect Running = {}
  /\ phase \in {"starting", "resuming", "running", "heartbeat", "grace"} /\ ~fatal
       => ~force /\ cancelled = {}

IInv == Shape /\ Held /\ Evidence /\ Ended /\ Grace
-----------------------------------------------------------------------------
(* Every step keeps it *)

\* A worker that has not run yet satisfies it, whatever an earlier process left.
LEMMA InitInvariant == Init => IInv
<1> SUFFICES ASSUME Init PROVE IInv
  OBVIOUS
<1> USE LifecycleAssumption DEF LifecycleAssumption, Init, Claiming, Draining
<1>1. Shape
  <2>1. claim \in [pc : ClaimLabels, attempt : Attempts \union {NoAttempt}]
    BY DEF ClaimLabels
  <2>2. drain \in [pc : DrainLabels, again : BOOLEAN, told : BOOLEAN]
    BY DEF DrainLabels
  <2>3. att \in [Attempts -> AttemptStates]
    BY DEF AttemptStates
  <2>4. losses \in 0 .. MaxLosses
    OBVIOUS
  <2> QED
    BY <2>1, <2>2, <2>3, <2>4 DEF Shape, Phases, Owners
<1>2. Held
  BY DEF Held
<1>3. Evidence /\ Ended /\ Grace
  BY DEF Evidence, Ended, Grace, Records, Running, Handlers
<1> QED
  BY <1>1, <1>2, <1>3 DEF IInv

\* The one step that splits on what the drain knows.
LEMMA DrainingFacts ==
  ASSUME NEW pc \in DrainLabels
  PROVE  /\ Draining(pc) \in [pc : DrainLabels, again : BOOLEAN, told : BOOLEAN]
         /\ Draining(pc).pc = pc /\ Draining(pc).again = FALSE
BY DEF Draining

LEMMA DrainChecksInvariant ==
  ASSUME IInv, DrainChecks
  PROVE  IInv'
<1> USE DEF DrainChecks, stop, end, loops, handlers, coreState
<1>1. /\ Draining("stopped") \in [pc : DrainLabels, again : BOOLEAN, told : BOOLEAN]
      /\ Draining("stopped").pc = "stopped" /\ ~Draining("stopped").again
  BY DrainingFacts DEF DrainLabels
<1>2. drain' \in [pc : DrainLabels, again : BOOLEAN, told : BOOLEAN]
  BY <1>1 DEF IInv, Shape, DrainLabels
<1>3. /\ drain.pc = "check"
      /\ \/ Records = {} /\ drain.told /\ drain'.pc = "request" /\ drain'.again
         \/ Records = {} /\ ~drain.told /\ drain'.pc = "proof" /\ drain'.again = drain.again
         \/ drain'.pc = "stopped" /\ ~drain'.again
  BY <1>1 DEF IInv, Shape
<1>4. Shape'
  BY <1>2 DEF IInv, Shape
<1>5. Held'
  BY <1>3 DEF IInv, Held
<1>6. Evidence'
  BY <1>3 DEF IInv, Evidence, Records
<1>7. Ended' /\ Grace'
  BY DEF IInv, Ended, Grace, Running, Handlers
<1> QED
  BY <1>4, <1>5, <1>6, <1>7 DEF IInv

\* A cancelled claim leaves its assignment in the store, a cancelled handler its record.
LEMMA LoopsCancelledInvariant ==
  ASSUME IInv, LoopsCancelled
  PROVE  IInv'
<1> USE DEF LoopsCancelled, stop, end, loops, handlers, coreState
<1>1. /\ att' \in [Attempts -> AttemptStates]
      /\ \A a \in Attempts : att'[a] = IF a = claim.attempt THEN "left"
                                     ELSE IF att[a] \in {"running", "canceling"} THEN "killed"
                                     ELSE IF att[a] = "revoked" THEN "gone" ELSE att[a]
  BY DEF IInv, Shape, Held, AttemptStates
<1>2. /\ claim' \in [pc : ClaimLabels, attempt : Attempts \union {NoAttempt}]
      /\ claim'.pc = "off" /\ claim'.attempt = NoAttempt
  BY DEF Claiming, ClaimLabels
<1>3. Shape'
  BY <1>1, <1>2 DEF IInv, Shape, Phases
<1>4. Held'
  BY LifecycleAssumption, <1>1, <1>2 DEF IInv, Held, Shape, LifecycleAssumption
<1>5. Records' \subseteq Records /\ Handlers' = {} /\ Running' = {}
  BY <1>1 DEF IInv, Held, Records, Running, Handlers
<1>6. Evidence'
  BY <1>2, <1>5 DEF IInv, Evidence
<1>7. Ended' /\ Grace'
  BY <1>1, <1>2, <1>5 DEF IInv, Ended, Grace
<1> QED
  BY <1>3, <1>4, <1>6, <1>7 DEF IInv

\* The claim loop or the spool loop sees the stop.
LEMMA LoopsEndInvariant ==
  ASSUME IInv, LoopsEnd
  PROVE  IInv'
<1> USE DEF LoopsEnd, LoopsRun, stop, end, loops, handlers, coreState
<1>1. claim' = claim \/ (claim.pc = "idle" /\ claim' = Claiming("off", NoAttempt))
  OBVIOUS
<1>2. claim' \in [pc : ClaimLabels, attempt : Attempts \union {NoAttempt}]
  BY <1>1 DEF IInv, Shape, Claiming, ClaimLabels
<1>3. spooling' \in BOOLEAN
  BY DEF IInv, Shape
<1>4. Shape'
  BY <1>2, <1>3 DEF IInv, Shape
<1>5. Held'
  BY <1>1 DEF IInv, Held, Claiming
<1>6. Evidence' /\ Ended' /\ Grace'
  BY <1>1 DEF IInv, Evidence, Ended, Grace, Records, Running, Handlers, Claiming
<1> QED
  BY <1>4, <1>5, <1>6 DEF IInv

\* Every other step changes little of what the invariant speaks of.
LEMMA StepInvariant ==
  ASSUME IInv, Next
  PROVE  IInv'
<1> USE DEF IInv, Shape, Held, Evidence, Ended, Grace
<1> USE DEF Phases, AttemptStates, ClaimLabels, DrainLabels, Owners, Running, Handlers, Records
<1> USE DEF stop, end, loops, handlers, coreState
<1>1. CASE StartEnds
  BY LifecycleAssumption, <1>1 DEF StartEnds, Claiming, LifecycleAssumption
<1>2. CASE StartFails
  BY <1>2 DEF StartFails, RequestStop
<1>3. CASE StartAttaches
  BY <1>3 DEF StartAttaches
<1>4. ASSUME NEW a \in Attempts, ResumeContinues(a) PROVE IInv'
  BY <1>4 DEF ResumeContinues
<1>5. ASSUME NEW a \in Attempts, CancelCommanded(a) PROVE IInv'
  BY <1>5 DEF CancelCommanded, LoopsRun
<1>6. CASE DrainCommanded
  BY <1>6 DEF DrainCommanded, LoopsRun
<1>7. ASSUME NEW a \in Attempts, CoreOffers(a) PROVE IInv'
  BY <1>7 DEF CoreOffers, LoopsRun
<1>8. ASSUME NEW a \in Attempts, CoreForgets(a) PROVE IInv'
  BY LifecycleAssumption, <1>8 DEF CoreForgets, Lose, LifecycleAssumption
<1>9. CASE ClaimStarts
  BY LifecycleAssumption, <1>9 DEF ClaimStarts, Claiming, LoopsRun, LifecycleAssumption
<1>10. CASE ClaimLocks
  BY LifecycleAssumption, <1>10 DEF ClaimLocks, Claiming, LoopsRun, LifecycleAssumption
<1>11. CASE ClaimEmpty
  BY LifecycleAssumption, <1>11 DEF ClaimEmpty, Claiming, LoopsRun, LifecycleAssumption
<1>12. CASE AckConfirmed
  BY LifecycleAssumption, <1>12 DEF AckConfirmed, Claiming, LoopsRun, LifecycleAssumption
<1>13. CASE AssignmentEnds
  BY LifecycleAssumption, <1>13 DEF AssignmentEnds, Claiming, LoopsRun, LifecycleAssumption
<1>14. CASE AnswerLost
  BY LifecycleAssumption, <1>14 DEF AnswerLost, Claiming, Lose, LoopsRun, LifecycleAssumption
<1>15. ASSUME NEW a \in Attempts, ClaimReturns(a) PROVE IInv'
  BY LifecycleAssumption, <1>15 DEF ClaimReturns, Claiming, LoopsRun, LifecycleAssumption
<1>16. CASE LoopsEnd
  BY <1>16, LoopsEndInvariant
<1>17. ASSUME NEW a \in Attempts, HandlerEnds(a) PROVE IInv'
  BY <1>17 DEF HandlerEnds
<1>18. ASSUME NEW a \in Attempts, Revoked(a) PROVE IInv'
  BY <1>18 DEF Revoked, LoopsRun
<1>19. CASE FlushStarts
  BY <1>19 DEF FlushStarts, LoopsRun
<1>20. CASE FlushFails
  BY LifecycleAssumption, <1>20 DEF FlushFails, Lose, LifecycleAssumption
<1>21. ASSUME NEW a \in Attempts, FlushVisits(a) PROVE IInv'
  BY <1>21 DEF FlushVisits
<1>22. ASSUME NEW a \in Attempts, HandlerCancelled(a) PROVE IInv'
  BY <1>22 DEF HandlerCancelled
<1>23. CASE StopCalled
  BY <1>23 DEF StopCalled, RequestStop
<1>24. CASE Fatal
  BY <1>24 DEF Fatal, RequestStop, LoopsRun
<1>25. CASE ShutdownStarts
  BY <1>25 DEF ShutdownStarts
<1>26. CASE GraceStarts
  BY <1>26 DEF GraceStarts, Active
<1>27. CASE GraceEnds
  BY <1>27 DEF GraceEnds
<1>28. CASE GraceTimesOut
  BY <1>28 DEF GraceTimesOut
<1>29. CASE LoopsCancelled
  BY <1>29, LoopsCancelledInvariant
<1>30. CASE ShutdownEnds
  BY <1>30 DEF ShutdownEnds
<1>31. CASE DrainCalled
  BY <1>31 DEF DrainCalled
<1>32. CASE DrainRequests
  BY <1>32 DEF DrainRequests, Draining, DrainLabels
<1>33. CASE DrainLocks
  BY <1>33 DEF DrainLocks
<1>34. CASE DrainAnswered
  BY <1>34 DEF DrainAnswered
<1>35. CASE DrainCallFails
  <2>1. CASE stopping /\ drain' = Draining("stopped") /\ UNCHANGED losses
    BY <1>35, <2>1 DEF DrainCallFails, Draining, DrainLabels
  <2>2. CASE Lose /\ drain' = [drain EXCEPT !.pc = "request"]
    BY LifecycleAssumption, <1>35, <2>2 DEF DrainCallFails, DrainLabels, Lose, LifecycleAssumption
  <2> QED
    BY <1>35, <2>1, <2>2 DEF DrainCallFails
<1>36. CASE DrainFails
  BY LifecycleAssumption, <1>36 DEF DrainFails, Draining, DrainLabels, RequestStop, Lose, LifecycleAssumption
<1>37. CASE DrainChecks
  BY <1>37, DrainChecksInvariant
<1>38. CASE DrainStops
  BY <1>38 DEF DrainStops, RequestStop
<1>39. CASE DrainReturns
  BY <1>39 DEF DrainReturns
<1>40. CASE DrainTimesOut
  BY <1>40 DEF DrainTimesOut, Draining, DrainLabels, RequestStop
<1> QED
  BY <1>1, <1>2, <1>3, <1>4, <1>5, <1>6, <1>7, <1>8, <1>9, <1>10, <1>11, <1>12, <1>13, <1>14,
     <1>15, <1>16, <1>17, <1>18, <1>19, <1>20, <1>21, <1>22, <1>23, <1>24, <1>25, <1>26, <1>27,
     <1>28, <1>29, <1>30, <1>31, <1>32, <1>33, <1>34, <1>35, <1>36, <1>37, <1>38, <1>39, <1>40
  DEF Next, StartStep, CoreStep, ClaimStep, HandlerStep, SpoolStep, ShutdownStep, DrainStep

-----------------------------------------------------------------------------
(* What follows from it *)

\* The invariant holds in every state, for every set of Attempts and any number of lost
\* answers, whatever stops, drains and fatal errors meet in run, drain and _shutdown.
THEOREM InvariantHolds == Spec => []IInv
<1>1. IInv /\ UNCHANGED vars => IInv'
  BY DEF vars, stop, end, loops, handlers, coreState,
         IInv, Shape, Held, Evidence, Ended, Grace, Running, Handlers, Records
<1>2. IInv /\ [Next]_vars => IInv'
  BY <1>1, StepInvariant
<1> QED
  BY InitInvariant, <1>2, PTL DEF Spec

\* The variables of a worker that ends keep their types, the switch lock its holder and
\* every answer its assignment.
THEOREM TypeCorrect == Spec => []TypeOK
<1>1. IInv => TypeOK
  BY DEF IInv, Shape, Held, TypeOK, Phases
<1> QED
  BY InvariantHolds, <1>1, PTL

\* A drain that succeeds stopped the worker itself and left no record in the store, no
\* slot of a handler and no Attempt at Core (the promise of drain's docstring).
THEOREM DrainLeavesNothing == Spec => []DrainedIsEmpty
<1>1. IInv => DrainedIsEmpty
  BY DEF IInv, Evidence, DrainedIsEmpty, Records, Active
<1> QED
  BY InvariantHolds, <1>1, PTL

\* No loop and no handler is left when _shutdown has closed the transports and the store.
THEOREM NobodyIsLeft == Spec => []NobodyAfterClose
<1>1. IInv => NobodyAfterClose
  BY DEF IInv, Held, Ended, NobodyAfterClose
<1> QED
  BY InvariantHolds, <1>1, PTL

\* Only three steps end a handler without its Result.
LEMMA KilledBy ==
  ASSUME IInv, Next, NEW a \in Attempts, att[a] = "running", att'[a] = "killed"
  PROVE  (att[a] = "running" /\ force) \/ a \in cancelled \/ phase = "cancelled"
<1> USE DEF IInv, Shape
<1>1. \/ UNCHANGED att
      \/ HandlerEnds(a) \/ HandlerCancelled(a) \/ LoopsCancelled
  <2>1. ASSUME NEW b \in Attempts,
               CoreOffers(b) \/ ClaimReturns(b) \/ Revoked(b) \/ FlushVisits(b)
                 \/ ResumeContinues(b) \/ CancelCommanded(b)
        PROVE  UNCHANGED att
    BY <2>1 DEF CoreOffers, ClaimReturns, Revoked, FlushVisits, ResumeContinues, CancelCommanded
  <2>2. ASSUME NEW b \in Attempts, CoreForgets(b)
        PROVE  UNCHANGED att
    BY <2>2 DEF CoreForgets, handlers
  <2>3. ASSUME NEW b \in Attempts, HandlerEnds(b) \/ HandlerCancelled(b)
        PROVE  b = a
    BY <2>3 DEF HandlerEnds, HandlerCancelled
  <2>4. CASE AckConfirmed \/ AssignmentEnds \/ AnswerLost
    BY <2>4 DEF AckConfirmed, AssignmentEnds, AnswerLost
  <2>5. CASE StartAttaches \/ StartEnds \/ StartFails \/ DrainCommanded \/ ClaimStarts \/
            ClaimLocks \/ ClaimEmpty \/ LoopsEnd
    BY <2>5 DEF StartAttaches, StartEnds, StartFails, DrainCommanded, ClaimStarts, ClaimLocks,
            ClaimEmpty, LoopsEnd, handlers
  <2>6. CASE FlushStarts \/ FlushFails \/ StopCalled \/ Fatal
    BY <2>6 DEF FlushStarts, FlushFails, StopCalled, Fatal, handlers
  <2>7. CASE ShutdownStarts \/ GraceStarts \/ GraceEnds \/ GraceTimesOut \/
            ShutdownEnds
    BY <2>7 DEF ShutdownStarts, GraceStarts, GraceEnds, GraceTimesOut,
            ShutdownEnds, handlers
  <2>8. CASE DrainCalled \/ DrainRequests \/ DrainLocks \/ DrainAnswered \/
            DrainCallFails \/ DrainFails \/ DrainChecks \/ DrainStops \/
            DrainReturns \/ DrainTimesOut
    BY <2>8 DEF DrainCalled, DrainRequests, DrainLocks, DrainAnswered,
            DrainCallFails, DrainFails, DrainChecks, DrainStops,
            DrainReturns, DrainTimesOut, handlers
  <2> QED
    BY <2>1, <2>2, <2>3, <2>4, <2>5, <2>6, <2>7, <2>8
    DEF Next, StartStep, CoreStep, ClaimStep, HandlerStep, SpoolStep, ShutdownStep, DrainStep
<1> QED
  BY <1>1 DEF HandlerEnds, HandlerCancelled, LoopsCancelled

\* A stop gives the handlers that ran when it was requested their time: before the time is
\* over only a fatal error ends one of them without its Result (_shutdown, _execute_attempt).
THEOREM GraceIsGiven == Spec => HandlersGetTheirTime
<1> DEFINE Given == \A a \in atStop : att[a] = "running" /\ att'[a] = "killed" => phase = "killing" \/ fatal
<1>1. ASSUME IInv, Next PROVE Given
  <2> SUFFICES ASSUME NEW a \in atStop, att[a] = "running", att'[a] = "killed"
               PROVE  phase = "killing" \/ fatal
    OBVIOUS
  <2>1. a \in Attempts /\ a \in Running
    BY <1>1 DEF IInv, Grace, Running
  <2>2. phase \notin {"cancelled", "flush", "closed"}
    BY <1>1, <2>1 DEF IInv, Grace
  <2>3. force \/ a \in cancelled
    BY <1>1, <2>1, <2>2, KilledBy
  <2> QED
    BY <1>1, <2>2, <2>3 DEF IInv, Shape, Grace, Phases
<1>2. IInv /\ [Next]_vars => [Given]_vars
  BY <1>1
<1> QED
  BY InvariantHolds, <1>2, PTL DEF Spec, HandlersGetTheirTime
=============================================================================
