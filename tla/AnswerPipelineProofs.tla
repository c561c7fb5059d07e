----------------------- MODULE AnswerPipelineProofs -------------------------
(***************************************************************************)
(* Theorems about AnswerPipeline, and about it under a patient candidate,   *)
(* for every value of their constants.                                     *)
(***************************************************************************)
EXTENDS PatientCandidate, TLAPS

(* The rows and local variables a step writes have their types.            *)
LEMMA InitialRecords ==
  /\ NewSession \in Session
  /\ AbsentTurn \in Turn
  /\ IdleHandler \in Handler
  /\ IdleWorker \in Worker
<1>1. NewSession \in Session
  BY DEF NewSession, Session, SessionStatus, FlowStatus
<1>2. AbsentTurn \in Turn
  BY DEF AbsentTurn, Turn, None
<1>3. IdleHandler \in Handler
  BY DEF IdleHandler, Handler
<1>4. IdleWorker \in Worker
  BY <1>1 DEF IdleWorker, Worker, WorkerPc, None
<1>5. QED
  BY <1>1, <1>2, <1>3, <1>4

(* Where a session goes next is a session again.                           *)
LEMMA NextSessionType ==
  ASSUME NEW s \in Session, NEW outcome
  PROVE  NextSession(s, outcome) \in Session
<1>1. CASE outcome = "follow_up" /\ s.followUps < MaxFollowUps
  BY <1>1 DEF NextSession, FollowUp, Advance, Session, SessionStatus, FlowStatus
<1>2. CASE ~(outcome = "follow_up" /\ s.followUps < MaxFollowUps) /\ s.question < NumQuestions
  BY <1>2 DEF NextSession, FollowUp, Advance, Session, SessionStatus, FlowStatus
<1>3. CASE ~(outcome = "follow_up" /\ s.followUps < MaxFollowUps) /\ ~(s.question < NumQuestions)
  <2>1. NextSession(s, outcome) =
          [s EXCEPT !.status = "FINISHED", !.flow = "COMPLETED", !.round = @ + 1]
    BY <1>3 DEF NextSession, FollowUp, Advance
  <2>2. QED
    <3>1. s = [status |-> s.status, flow |-> s.flow, question |-> s.question,
               round |-> s.round, followUps |-> s.followUps]
      BY DEF Session
    <3>2. NextSession(s, outcome) = [status |-> "FINISHED", flow |-> "COMPLETED",
            question |-> s.question, round |-> s.round + 1, followUps |-> s.followUps]
      BY <2>1, <3>1, Zenon
    <3>3. QED
      BY <3>2 DEF Session, SessionStatus, FlowStatus
<1>4. QED
  BY <1>1, <1>2, <1>3

(* Every way a step changes a worker's record keeps its type.              *)
WorkersTyped ==
  /\ worker \in [Workers -> Worker]
  /\ \A w \in Workers : worker[w].pc # "idle" => worker[w].turn \in Turns

(* Replacing one worker's record by a well-typed one.                      *)
LEMMA WorkerUpdate ==
  ASSUME WorkersTyped, NEW w \in Workers, NEW r \in Worker,
         r.pc = "idle" \/ r.turn \in Turns,
         worker' = [worker EXCEPT ![w] = r]
  PROVE  WorkersTyped'
BY DEF WorkersTyped

(* ProcessTurn returning keeps the workers' type.                          *)
LEMMA ReturningType ==
  ASSUME WorkersTyped, NEW w \in Workers, NEW ack \in BOOLEAN,
         worker[w].pc # "idle", Returning(w, ack)
  PROVE  WorkersTyped'
BY InitialRecords DEF WorkersTyped, Returning, Worker, WorkerPc, IdleWorker

(* ... and so does moving on,                                              *)
LEMMA GotoType ==
  ASSUME WorkersTyped, NEW w \in Workers, NEW pc \in WorkerPc,
         worker[w].pc # "idle", Goto(w, pc)
  PROVE  WorkersTyped'
BY DEF WorkersTyped, Goto, Worker

(* ... moving on with a result,                                            *)
LEMMA GotoWithType ==
  ASSUME WorkersTyped, NEW w \in Workers, NEW pc \in WorkerPc, worker[w].pc # "idle",
         NEW outcome \in Outcomes, NEW locked \in BOOLEAN, NEW status \in TurnStatus,
         \/ worker' = [worker EXCEPT ![w].pc = pc, ![w].outcome = outcome]
         \/ worker' = [worker EXCEPT ![w].pc = pc, ![w].locked = locked]
         \/ worker' = [worker EXCEPT ![w].pc = pc, ![w].seen = status]
  PROVE  WorkersTyped'
<1> DEFINE moved == [worker EXCEPT ![w].pc = pc]
<1>1. /\ moved \in [Workers -> Worker]
      /\ \A v \in Workers : moved[v].turn = worker[v].turn
      /\ \A v \in Workers : moved[v].pc # "idle" => moved[v].turn \in Turns
  BY DEF WorkersTyped, Worker
<1>2. \/ worker' = [moved EXCEPT ![w].outcome = outcome]
      \/ worker' = [moved EXCEPT ![w].locked = locked]
      \/ worker' = [moved EXCEPT ![w].seen = status]
  BY DEF WorkersTyped, Worker
<1> HIDE DEF moved
<1>3. CASE worker' = [moved EXCEPT ![w].outcome = outcome]
  BY <1>1, <1>3 DEF WorkersTyped, Worker
<1>4. CASE worker' = [moved EXCEPT ![w].locked = locked]
  BY <1>1, <1>4 DEF WorkersTyped, Worker
<1>5. CASE worker' = [moved EXCEPT ![w].seen = status]
  BY <1>1, <1>5 DEF WorkersTyped, Worker
<1>6. QED
  BY <1>2, <1>3, <1>4, <1>5

(* ... losing the lock,                                                    *)
LEMMA LockedType ==
  ASSUME WorkersTyped, NEW w \in Workers, NEW locked \in BOOLEAN,
         worker' = [worker EXCEPT ![w].locked = locked]
  PROVE  WorkersTyped'
BY DEF WorkersTyped, Worker

(* ... and a finished evaluation.                                          *)
LEMMA GotResultType ==
  ASSUME WorkersTyped, NEW w \in Workers, NEW outcome \in Outcomes,
         worker[w].pc # "idle", GotResult(w, outcome)
  PROVE  WorkersTyped'
BY GotoWithType DEF GotResult, WorkerPc, TurnStatus

(* ... and so does every way a step changes the status of a turn.          *)
LEMMA StatusType ==
  ASSUME turns \in [Turns -> Turn], NEW t \in Turns, NEW status \in TurnStatus,
         turns' = [turns EXCEPT ![t].status = status]
  PROVE  turns' \in [Turns -> Turn]
BY DEF Turn

(* Type correctness.                                                       *)
THEOREM TypeCorrect == Spec => []TypeOK
<1>1. Init => TypeOK
  <2> SUFFICES ASSUME Init PROVE TypeOK
    OBVIOUS
  <2>1. /\ session \in Session
        /\ turns \in [Turns -> Turn]
        /\ handler \in [Handlers -> Handler]
        /\ worker \in [Workers -> Worker]
    BY InitialRecords DEF Init
  <2>2. \A w \in Workers : worker[w].pc = "idle"
    BY DEF Init, IdleWorker
  <2>3. QED
    BY <2>1, <2>2 DEF Init, TypeOK
<1>2. TypeOK /\ [Next]_vars => TypeOK'
  <2> SUFFICES ASSUME TypeOK, [Next]_vars PROVE TypeOK'
    OBVIOUS
  <2>0. WorkersTyped /\ turns \in [Turns -> Turn]
    BY DEF TypeOK, WorkersTyped
  <2>1. ASSUME NEW h \in Handlers, LoadForSubmit(h) PROVE TypeOK'
    BY <2>1 DEF TypeOK, LoadForSubmit, Load, Session, Handler
  <2>2. ASSUME NEW h \in Handlers, LoadForFinalize(h) PROVE TypeOK'
    BY <2>2 DEF TypeOK, LoadForFinalize, Load, Session, Handler
  <2>3. ASSUME NEW h \in Handlers, EnqueueAnswer(h) PROVE TypeOK'
    <3>1. PICK t \in Turns, answer \in Answers, request \in Requests \cup Answers :
            /\ turns' = [turns EXCEPT ![t] =
                 [status |-> "queued", question |-> handler[h].question,
                  round |-> handler[h].round, answer |-> answer, request |-> request]]
            /\ entries' = entries \cup {<<t, 1>>}
      BY <2>3 DEF EnqueueAnswer
    <3>2. turns' \in [Turns -> Turn]
      BY <3>1 DEF TypeOK, Turn, TurnStatus, Handler
    <3>3. entries' \subseteq Entries
      BY <3>1, PipelineAssumption DEF TypeOK, Entries, EntryNos, PipelineAssumption
    <3>4. session' \in Session
      BY <2>3 DEF EnqueueAnswer, TypeOK, Session, SessionStatus, FlowStatus
    <3>5. handler' \in [Handlers -> Handler]
      BY <2>3, InitialRecords DEF EnqueueAnswer, TypeOK, Respond
    <3>6. QED
      BY <2>3, <3>2, <3>3, <3>4, <3>5 DEF EnqueueAnswer, TypeOK
  <2>4. ASSUME NEW h \in Handlers, RefuseAnswer(h) PROVE TypeOK'
    BY <2>4, InitialRecords DEF TypeOK, RefuseAnswer, Respond
  <2>5. ASSUME NEW h \in Handlers, Finalize(h) PROVE TypeOK'
    BY <2>5, InitialRecords DEF TypeOK, Finalize, Respond, Session, SessionStatus, FlowStatus
  <2>6. ASSUME NEW w \in Workers, NEW e \in Entries, Deliver(w, e) PROVE TypeOK'
    <3>1. WorkersTyped'
      <4> DEFINE r == [pc |-> IF Finished(e[1]) THEN "return" ELSE "loaded", turn |-> e[1],
                       no |-> e[2], snap |-> session, seen |-> "absent", outcome |-> None,
                       locked |-> FALSE, ack |-> Finished(e[1])]
      <4>1. worker' = [worker EXCEPT ![w] = r]
        BY <2>6 DEF Deliver
      <4>2. r \in Worker /\ r.turn \in Turns
        <5>1. e[1] \in Turns /\ e[2] \in Nat
          BY PipelineAssumption DEF Entries, EntryNos, PipelineAssumption
        <5>2. Finished(e[1]) \in BOOLEAN
          BY DEF Finished
        <5>3. QED
          BY <5>1, <5>2 DEF TypeOK, Worker, WorkerPc
      <4> HIDE DEF r
      <4>3. QED
        BY <2>0, <4>1, <4>2, WorkerUpdate
    <3>2. QED
      BY <2>6, <3>1 DEF Deliver, TypeOK, WorkersTyped
  <2>7. ASSUME NEW w \in Workers, TryLock(w) PROVE TypeOK'
    <3>1. WorkersTyped'
      BY <2>7, <2>0, ReturningType, GotoWithType
         DEF TryLock, ReturnNil, WorkerPc, Outcomes, TurnStatus
    <3>2. QED
      BY <2>7, <3>1 DEF TryLock, TypeOK, WorkersTyped
  <2>8. ASSUME NEW w \in Workers, claimTurn(w) PROVE TypeOK'
    <3>1. WorkersTyped'
      BY <2>8, <2>0, GotoType, ReturningType DEF claimTurn, ReturnNil, WorkerPc
    <3>2. turns' \in [Turns -> Turn]
      BY <2>8, <2>0, StatusType DEF claimTurn, TurnStatus, WorkersTyped
    <3>3. QED
      BY <2>8, <3>1, <3>2 DEF claimTurn, TypeOK, WorkersTyped
  <2>9. ASSUME NEW w \in Workers, EnterFlight(w) PROVE TypeOK'
    <3>1. WorkersTyped'
      BY <2>9, <2>0, GotoType DEF EnterFlight, WorkerPc
    <3>2. QED
      BY <2>9, <3>1 DEF EnterFlight, TypeOK, WorkersTyped
  <2>10. ASSUME NEW w \in Workers, Evaluate(w) PROVE TypeOK'
    <3>1. WorkersTyped'
      BY <2>10, <2>0, GotResultType DEF Evaluate
    <3>2. QED
      BY <2>10, <3>1 DEF Evaluate, TypeOK, WorkersTyped, LeaveFlight
  <2>11. ASSUME NEW w \in Workers, EvaluateFails(w) PROVE TypeOK'
    <3>1. WorkersTyped'
      BY <2>11, <2>0, GotoType DEF EvaluateFails, WorkerPc
    <3>2. QED
      BY <2>11, <3>1 DEF EvaluateFails, TypeOK, WorkersTyped, LeaveFlight
  <2>12. ASSUME NEW w \in Workers, PollFlight(w) PROVE TypeOK'
    <3>1. WorkersTyped'
      BY <2>12, <2>0, GotResultType, GotoType DEF PollFlight, WorkerPc
    <3>2. QED
      BY <2>12, <3>1 DEF PollFlight, TypeOK, WorkersTyped
  <2>13. ASSUME NEW w \in Workers, RequeueTurn(w) PROVE TypeOK'
    <3>1. WorkersTyped'
      BY <2>13, <2>0, ReturningType DEF RequeueTurn, ReturnError
    <3>2. turns' \in [Turns -> Turn]
      BY <2>13, <2>0, StatusType DEF RequeueTurn, TurnStatus, WorkersTyped
    <3>3. QED
      BY <2>13, <3>1, <3>2 DEF RequeueTurn, TypeOK, WorkersTyped
  <2>14. ASSUME NEW w \in Workers, PersistResult(w) PROVE TypeOK'
    <3>1. WorkersTyped'
      BY <2>14, <2>0, ReturningType DEF PersistResult, ReturnNil, ReturnError
    <3>2. turns' \in [Turns -> Turn]
      BY <2>14, <2>0, StatusType DEF PersistResult, TurnStatus, WorkersTyped
    <3>3. session' \in Session
      BY <2>14, NextSessionType DEF PersistResult, TypeOK, Worker
    <3>4. QED
      BY <2>14, <3>1, <3>2, <3>3 DEF PersistResult, TypeOK, WorkersTyped
  <2>15. ASSUME NEW w \in Workers, LoadForFailure(w) PROVE TypeOK'
    <3>1. WorkersTyped'
      BY <2>15, <2>0, ReturningType, GotoWithType
         DEF LoadForFailure, ReturnNil, WorkerPc, Outcomes, TurnStatus, validateTurnTransition,
             turnTransitions, WorkersTyped
    <3>2. QED
      BY <2>15, <3>1 DEF LoadForFailure, TypeOK, WorkersTyped
  <2>16. ASSUME NEW w \in Workers, FailTurn(w) PROVE TypeOK'
    <3>1. WorkersTyped'
      BY <2>16, <2>0, GotoType, ReturningType DEF FailTurn, ReturnNil, WorkerPc
    <3>2. turns' \in [Turns -> Turn]
      BY <2>16, <2>0, StatusType DEF FailTurn, TurnStatus, WorkersTyped
    <3>3. QED
      BY <2>16, <3>1, <3>2 DEF FailTurn, TypeOK, WorkersTyped
  <2>17. ASSUME NEW w \in Workers, FailSession(w) PROVE TypeOK'
    <3>1. WorkersTyped'
      BY <2>17, <2>0, ReturningType DEF FailSession, ReturnNil
    <3>2. session' \in Session
      BY <2>17 DEF FailSession, TypeOK, Session, SessionStatus
    <3>3. QED
      BY <2>17, <3>1, <3>2 DEF FailSession, TypeOK, WorkersTyped
  <2>18. ASSUME NEW w \in Workers, Return(w) PROVE TypeOK'
    <3>1. WorkersTyped'
      BY <2>18, <2>0, WorkerUpdate, InitialRecords DEF Return, IdleWorker
    <3>2. QED
      BY <2>18, <3>1 DEF Return, TypeOK, WorkersTyped
  <2>19. ASSUME NEW w \in Workers, Crash(w) PROVE TypeOK'
    <3>1. WorkersTyped'
      BY <2>19, <2>0, WorkerUpdate, InitialRecords DEF Crash, IdleWorker
    <3>2. QED
      BY <2>19, <3>1 DEF Crash, TypeOK, WorkersTyped, Fault
  <2>20. ASSUME NEW w \in Workers, StatementFails(w) PROVE TypeOK'
    <3>1. WorkersTyped'
      BY <2>20, <2>0, GotoType, ReturningType, LockedType
         DEF StatementFails, ReturnNil, ReturnError, WorkerPc
    <3>2. QED
      BY <2>20, <3>1 DEF StatementFails, TypeOK, WorkersTyped, Fault
  <2>21. ASSUME NEW t \in Turns, LockExpires(t) PROVE TypeOK'
    BY <2>21 DEF LockExpires, TypeOK, InTime, Stall
  <2>22. ASSUME NEW t \in Turns, FlightExpires(t) PROVE TypeOK'
    BY <2>22 DEF FlightExpires, TypeOK, InTime, Stall
  <2>23. ASSUME NEW t \in Turns, ReclaimStaleTurn(t) PROVE TypeOK'
    <3>1. turns' \in [Turns -> Turn]
      BY <2>23, <2>0, StatusType DEF ReclaimStaleTurn, TurnStatus
    <3>2. QED
      BY <2>23, <3>1 DEF ReclaimStaleTurn, TypeOK, InTime, Stall
  <2>24. ASSUME NEW t \in Turns, ReclaimMessage(t) PROVE TypeOK'
    BY <2>24 DEF ReclaimMessage, TypeOK, Entries
  <2>25. ASSUME NEW t \in Turns, ReclaimerCrash(t) PROVE TypeOK'
    BY <2>25 DEF ReclaimerCrash, TypeOK, Fault
  <2>26. ASSUME NEW e \in Entries, DeadLetter(e) PROVE TypeOK'
    BY <2>26 DEF DeadLetter, TypeOK, Fault
  <2>27. ASSUME UNCHANGED vars PROVE TypeOK'
    BY <2>27 DEF vars, TypeOK
  <2>28. QED
    BY <2>1, <2>2, <2>3, <2>4, <2>5, <2>6, <2>7, <2>8, <2>9, <2>10, <2>11,
       <2>12, <2>13, <2>14, <2>15, <2>16, <2>17, <2>18, <2>19, <2>20, <2>21,
       <2>22, <2>23, <2>24, <2>25, <2>26, <2>27
       DEF Next, HandlerStep, WorkerStep
<1>3. QED
  BY <1>1, <1>2, PTL DEF Spec

-----------------------------------------------------------------------------
(* Rounds.  Positions are written from copies, so their bound has to hold  *)
(* of every copy a handler or a worker may still write from.               *)
RoundsInv ==
  /\ RoundsBounded
  /\ \A w \in Workers : InBounds(worker[w].snap)
  /\ \A h \in Handlers : handler[h].pc = "submit" => handler[h].round <= MaxFollowUps

(* What the steps that end a worker's work leave in its record.            *)
LEMMA ReturningFrame ==
  ASSUME WorkersTyped, NEW w \in Workers, NEW ack \in BOOLEAN, Returning(w, ack)
  PROVE  /\ \A v \in Workers \ {w} : worker'[v] = worker[v]
         /\ worker'[w].pc = "return" /\ worker'[w].turn = worker[w].turn
         /\ worker'[w].snap = NewSession /\ worker'[w].locked = worker[w].locked
BY DEF WorkersTyped, Returning, IdleWorker

(* A worker whose record was reset has the copy of a new session.          *)
LEMMA IdleFrame ==
  ASSUME WorkersTyped, NEW w \in Workers, worker' = [worker EXCEPT ![w] = IdleWorker]
  PROVE  /\ \A v \in Workers \ {w} : worker'[v] = worker[v]
         /\ worker'[w].pc = "idle" /\ worker'[w].turn = None
         /\ worker'[w].snap = NewSession /\ ~worker'[w].locked
BY DEF WorkersTyped, IdleWorker

(* A worker's step that keeps the session's position.                      *)
LEMMA CopiesStayInBounds ==
  ASSUME RoundsInv, InBounds(session'), UNCHANGED handler,
         \A t \in Turns : turns'[t].round = turns[t].round,
         \A w \in Workers : worker'[w].snap \in {worker[w].snap, NewSession}
  PROVE  RoundsInv'
<1>1. InBounds(NewSession)
  BY PipelineAssumption DEF InBounds, NewSession, PipelineAssumption
<1>2. QED
  BY <1>1 DEF RoundsInv, RoundsBounded, InBounds

(* No answer is ever taken beyond max_follow_ups, whatever interleaves.    *)
THEOREM RoundsAreBounded == Spec => []RoundsBounded
<1>1. Init => RoundsInv
  BY PipelineAssumption
     DEF Init, RoundsInv, RoundsBounded, InBounds, NewSession, AbsentTurn, IdleWorker,
         IdleHandler, PipelineAssumption
<1>2. TypeOK /\ RoundsInv /\ [Next]_vars => RoundsInv'
  <2> SUFFICES ASSUME TypeOK, RoundsInv, [Next]_vars PROVE RoundsInv'
    OBVIOUS
  <2>0. WorkersTyped
    BY DEF TypeOK, WorkersTyped
  <2>1. ASSUME NEW h \in Handlers, HandlerStep(h) PROVE RoundsInv'
    <3> USE DEF TypeOK, RoundsInv, RoundsBounded, InBounds, Session, Turn, Handler
    <3>1. CASE LoadForSubmit(h) \/ LoadForFinalize(h)
      BY <3>1 DEF LoadForSubmit, LoadForFinalize, Load
    <3>2. CASE EnqueueAnswer(h)
      BY <3>2 DEF EnqueueAnswer, Respond, IdleHandler
    <3>3. CASE RefuseAnswer(h)
      BY <3>3 DEF RefuseAnswer, Respond, IdleHandler
    <3>4. CASE Finalize(h)
      <4>1. session'.flow = "COMPLETED"
        BY <3>4 DEF Finalize
      <4>2. QED
        BY <3>4, <4>1 DEF Finalize, Respond, IdleHandler
    <3>5. QED
      BY <2>1, <3>1, <3>2, <3>3, <3>4 DEF HandlerStep
  <2>2. ASSUME NEW w \in Workers, NEW e \in Entries, Deliver(w, e) PROVE RoundsInv'
    BY <2>2 DEF Deliver, TypeOK, RoundsInv, RoundsBounded, InBounds
  <2>3. ASSUME NEW w \in Workers, PersistResult(w) PROVE RoundsInv'
    <3>1. InBounds(session')
      <4>1. CASE UNCHANGED session
        BY <4>1 DEF RoundsInv, RoundsBounded, InBounds
      <4>2. CASE ~UNCHANGED session
        <5> DEFINE s == worker[w].snap
                   next == NextSession(s, worker[w].outcome)
        <5>1. session' = next /\ Persistable(s, next)
          BY <2>3, <4>2 DEF PersistResult
        <5>2. InBounds(s) /\ s \in Session
          BY <2>0 DEF RoundsInv, WorkersTyped, Worker
        <5> HIDE DEF s
        <5>3. CASE next.flow = "COMPLETED"
          BY <5>1, <5>3 DEF InBounds
        <5>4. CASE next.flow = "FOLLOW_UP"
          <6>1. s.flow # "COMPLETED"
            BY <5>1, <5>4 DEF Persistable, validateFlowTransition, flowTransitions
          <6>2. QED
            BY <5>1, <5>2, <5>4, <6>1, PipelineAssumption
               DEF NextSession, FollowUp, Advance, InBounds, Session, PipelineAssumption
        <5>5. CASE next.flow \notin {"COMPLETED", "FOLLOW_UP"}
          BY <5>1, <5>2, <5>5, PipelineAssumption
             DEF NextSession, FollowUp, Advance, InBounds, Session, PipelineAssumption
        <5>6. QED
          BY <5>3, <5>4, <5>5
      <4>3. QED
        BY <4>1, <4>2
    <3>2. \A v \in Workers : worker'[v].snap \in {worker[v].snap, NewSession}
      BY <2>3, <2>0, ReturningFrame DEF PersistResult, ReturnNil, ReturnError
    <3>3. UNCHANGED handler /\ \A t \in Turns : turns'[t].round = turns[t].round
      BY <2>3 DEF PersistResult, TypeOK, Turn
    <3>4. QED
      BY <3>1, <3>2, <3>3, CopiesStayInBounds
  <2>4. ASSUME NEW w \in Workers, WorkerStep(w) \/ Crash(w) \/ StatementFails(w),
               ~PersistResult(w)
        PROVE  RoundsInv'
    <3>1. InBounds(session') /\ UNCHANGED handler
      BY <2>4
         DEF WorkerStep, TryLock, claimTurn, EnterFlight, Evaluate, EvaluateFails, PollFlight,
             RequeueTurn, LoadForFailure, FailTurn, FailSession, Return, Crash, StatementFails,
             TypeOK, Session, RoundsInv, RoundsBounded, InBounds
    <3>2. \A t \in Turns : turns'[t].round = turns[t].round
      BY <2>4
         DEF WorkerStep, TryLock, claimTurn, EnterFlight, Evaluate, EvaluateFails, PollFlight,
             RequeueTurn, LoadForFailure, FailTurn, FailSession, Return, Crash, StatementFails,
             TypeOK, Turn
    <3>3. \A v \in Workers : worker'[v].snap \in {worker[v].snap, NewSession}
      <4>1. CASE \E ack \in BOOLEAN : Returning(w, ack)
        BY <4>1, <2>0, ReturningFrame
      <4>2. CASE worker' = [worker EXCEPT ![w] = IdleWorker]
        BY <4>2, <2>0, IdleFrame
      <4>3. CASE \/ EnterFlight(w) \/ Evaluate(w) \/ EvaluateFails(w) \/ PollFlight(w)
                 \/ /\ TryLock(w) \/ claimTurn(w) \/ FailTurn(w) \/ LoadForFailure(w)
                    /\ ~ReturnNil(w)
        BY <4>3, <2>0
           DEF WorkersTyped, Worker, TryLock, EnterFlight, Evaluate, EvaluateFails, PollFlight,
               claimTurn, FailTurn, LoadForFailure, Goto, GotResult
      <4>4. CASE StatementFails(w) /\ ~ReturnNil(w) /\ ~ReturnError(w)
        BY <4>4, <2>0 DEF WorkersTyped, Worker, StatementFails, Goto
      <4>5. QED
        BY <2>4, <4>1, <4>2, <4>3, <4>4
           DEF WorkerStep, RequeueTurn, FailSession, Return, Crash, ReturnNil, ReturnError
    <3>4. QED
      BY <3>1, <3>2, <3>3, CopiesStayInBounds
  <2>5. ASSUME NEW t \in Turns,
               \/ LockExpires(t) \/ FlightExpires(t) \/ ReclaimStaleTurn(t)
               \/ ReclaimMessage(t) \/ ReclaimerCrash(t)
        PROVE  RoundsInv'
    BY <2>5
       DEF LockExpires, FlightExpires, ReclaimStaleTurn, ReclaimMessage, ReclaimerCrash,
           TypeOK, Turn, RoundsInv, RoundsBounded, InBounds
  <2>6. ASSUME (\E e \in Entries : DeadLetter(e)) \/ UNCHANGED vars PROVE RoundsInv'
    BY <2>6 DEF DeadLetter, vars, RoundsInv, RoundsBounded, InBounds
  <2>7. QED
    BY <2>1, <2>2, <2>3, <2>4, <2>5, <2>6 DEF Next
<1>3. QED
  BY <1>1, <1>2, TypeCorrect, PTL DEF Spec, RoundsInv

-----------------------------------------------------------------------------
(* A session is FINISHED only with its flow COMPLETED, and COMPLETED only  *)
(* when it is over: the invariant is inductive, whatever copy is written.  *)
THEOREM StatusFollowsFlow == Spec => []StatusMatchesFlow
<1>1. Init => StatusMatchesFlow
  BY DEF Init, StatusMatchesFlow, NewSession
<1>2. TypeOK /\ StatusMatchesFlow /\ [Next]_vars => StatusMatchesFlow'
  <2> SUFFICES ASSUME TypeOK, StatusMatchesFlow, [Next]_vars, ~UNCHANGED session
               PROVE  StatusMatchesFlow'
    BY DEF StatusMatchesFlow
  <2>1. CASE \E h \in Handlers : EnqueueAnswer(h) \/ Finalize(h)
    BY <2>1 DEF EnqueueAnswer, Finalize, StatusMatchesFlow, TypeOK, Session
  <2>2. CASE \E w \in Workers : PersistResult(w)
    <3>1. PICK w \in Workers : session' = NextSession(worker[w].snap, worker[w].outcome)
      BY <2>2 DEF PersistResult
    <3>2. worker[w].snap \in Session
      BY DEF TypeOK, Worker
    <3>3. QED
      BY <3>1, <3>2 DEF NextSession, FollowUp, Advance, StatusMatchesFlow, Session
  <2>3. CASE \E w \in Workers : FailSession(w)
    BY <2>3 DEF FailSession, StatusMatchesFlow, TypeOK, Session
  <2>4. QED
    BY <2>1, <2>2, <2>3
       DEF Next, HandlerStep, WorkerStep, LoadForSubmit, RefuseAnswer, LoadForFinalize,
           TryLock, claimTurn, EnterFlight, Evaluate, EvaluateFails, PollFlight, RequeueTurn,
           LoadForFailure, FailTurn, Return, Deliver, Crash, StatementFails, LockExpires,
           FlightExpires, ReclaimStaleTurn, ReclaimMessage, ReclaimerCrash, DeadLetter, vars
<1>3. QED
  BY <1>1, <1>2, TypeCorrect, PTL DEF Spec

-----------------------------------------------------------------------------
(* Ownership.  As long as no worker outlasts a time limit, one that holds  *)
(* the lock of a turn is the one Redis names, and the owner of a turn      *)
(* holds its lock and finds it running.                                    *)
NoStalls == MaxStalls = 0

OwnerOk(w) ==
  /\ worker[w].locked => worker[w].turn \in Turns /\ lock[worker[w].turn] = w
  /\ worker[w].pc = "locked" => worker[w].locked
  /\ worker[w].pc = "failTurn" => worker[w].seen = "running"
  /\ \A t \in Turns : Owns(w, t) => worker[w].locked /\ turns[t].status = "running"

OwnerInv == \A w \in Workers : OwnerOk(w)

(* What a worker that moves on leaves alone.                               *)
LEMMA GotoFrame ==
  ASSUME WorkersTyped, NEW w \in Workers, NEW pc, Goto(w, pc)
  PROVE  /\ \A v \in Workers \ {w} : worker'[v] = worker[v]
         /\ worker'[w].pc = pc /\ worker'[w].turn = worker[w].turn
         /\ worker'[w].locked = worker[w].locked /\ worker'[w].seen = worker[w].seen
         /\ worker'[w].snap = worker[w].snap
BY DEF WorkersTyped, Worker, Goto

(* What a finished evaluation leaves alone.                                *)
LEMMA GotResultFrame ==
  ASSUME WorkersTyped, NEW w \in Workers, NEW outcome, GotResult(w, outcome)
  PROVE  /\ \A v \in Workers \ {w} : worker'[v] = worker[v]
         /\ worker'[w].pc = "evaluated" /\ worker'[w].turn = worker[w].turn
         /\ worker'[w].locked = worker[w].locked /\ worker'[w].snap = worker[w].snap
BY DEF WorkersTyped, Worker, GotResult

(* A turn has one owner because its lock has one value.                    *)
LEMMA OwnerIsUnique ==
  ASSUME OwnerInv, NEW t \in Turns, NEW v \in Workers, NEW w \in Workers,
         worker[v].locked, worker[w].locked, worker[v].turn = t, worker[w].turn = t
  PROVE  v = w
BY DEF OwnerInv, OwnerOk

(* A step of one worker leaves the others their locks and running turns.   *)
LEMMA OthersKeep ==
  ASSUME OwnerInv, NEW w \in Workers, OwnerOk(w)',
         \A v \in Workers \ {w} :
           /\ worker'[v] = worker[v]
           /\ worker[v].locked => lock'[worker[v].turn] = lock[worker[v].turn]
           /\ \A t \in Turns : Owns(v, t) => turns'[t].status = turns[t].status
  PROVE  OwnerInv'
<1> SUFFICES ASSUME NEW v \in Workers \ {w} PROVE OwnerOk(v)'
  BY DEF OwnerInv
<1>1. OwnerOk(v) /\ worker'[v] = worker[v]
  BY DEF OwnerInv
<1>2. QED
  BY <1>1 DEF OwnerOk, Owns

(* Every step keeps ownership, one case for each action.                   *)
LEMMA OwnershipStep ==
  ASSUME NoStalls, TypeOK, OwnerInv, [Next]_vars
  PROVE  OwnerInv'
<1>0. WorkersTyped
  BY DEF TypeOK, WorkersTyped
<1>1. CASE \E h \in Handlers : HandlerStep(h)
  <2>1. UNCHANGED <<worker, lock>>
    BY <1>1 DEF HandlerStep, LoadForSubmit, EnqueueAnswer, RefuseAnswer, LoadForFinalize, Finalize
  <2>2. \A t \in Turns : turns[t].status = "running" => turns'[t].status = "running"
    BY <1>1
       DEF HandlerStep, LoadForSubmit, EnqueueAnswer, RefuseAnswer, LoadForFinalize, Finalize,
           TypeOK
  <2>3. QED
    BY <2>1, <2>2 DEF OwnerInv, OwnerOk, Owns
<1>2. ASSUME NEW w \in Workers, NEW e \in Entries, Deliver(w, e) PROVE OwnerInv'
  <2>1. OwnerOk(w)'
    BY <1>2, <1>0 DEF Deliver, OwnerOk, Owns, WorkersTyped
  <2>2. QED
    BY <1>2, <1>0, <2>1, OthersKeep DEF Deliver, WorkersTyped
<1>3. ASSUME NEW w \in Workers, TryLock(w) PROVE OwnerInv'
  <2>1. CASE lock[worker[w].turn] = None
    <3>1. /\ \A v \in Workers \ {w} : worker'[v] = worker[v]
          /\ worker'[w].pc = "locked" /\ worker'[w].turn = worker[w].turn
          /\ worker'[w].locked
      BY <1>3, <2>1, <1>0 DEF TryLock, WorkersTyped, Worker
    <3>2. lock' = [lock EXCEPT ![worker[w].turn] = w] /\ UNCHANGED turns
      BY <1>3, <2>1 DEF TryLock
    <3>3. worker[w].turn \in Turns
      BY <1>3, <1>0 DEF TryLock, WorkersTyped
    <3>4. OwnerOk(w)'
      BY <3>1, <3>2, <3>3 DEF OwnerOk, Owns, TypeOK
    <3>5. \A v \in Workers \ {w} : worker[v].locked => worker[v].turn # worker[w].turn
      BY <2>1, PipelineAssumption DEF OwnerInv, OwnerOk, None, PipelineAssumption
    <3>6. QED
      BY <3>1, <3>2, <3>4, <3>5, OthersKeep DEF TypeOK
  <2>2. CASE lock[worker[w].turn] # None
    <3>1. Returning(w, TRUE) /\ UNCHANGED <<lock, turns>>
      BY <1>3, <2>2 DEF TryLock, ReturnNil
    <3>2. OwnerOk(w)'
      BY <3>1, <1>0, ReturningFrame DEF OwnerInv, OwnerOk, Owns
    <3>3. QED
      BY <3>1, <3>2, <1>0, ReturningFrame, OthersKeep
  <2>3. QED
    BY <2>1, <2>2
<1>4. ASSUME NEW w \in Workers,
             \/ claimTurn(w) \/ RequeueTurn(w) \/ PersistResult(w) \/ FailTurn(w)
      PROVE  OwnerInv'
  <2>1. worker[w].locked /\ worker[w].turn \in Turns /\ UNCHANGED lock
    BY <1>4, <1>0
       DEF claimTurn, RequeueTurn, PersistResult, FailTurn, WorkersTyped, OwnerInv, OwnerOk, Owns
  <2>2. \A t \in Turns : t # worker[w].turn => turns'[t] = turns[t]
    BY <1>4, <1>0, <2>1 DEF claimTurn, RequeueTurn, PersistResult, FailTurn, TypeOK
  <2>3. \A v \in Workers \ {w}, t \in Turns : Owns(v, t) => t # worker[w].turn
    BY <2>1, OwnerIsUnique DEF OwnerInv, OwnerOk, Owns
  <2>4. /\ \A v \in Workers \ {w} : worker'[v] = worker[v]
        /\ worker'[w].turn = worker[w].turn /\ worker'[w].locked
        /\ \/ worker'[w].pc \in {"return", "failSession"}
           \/ claimTurn(w) /\ worker'[w].pc = "claimed" /\ ~ReturnNil(w)
    <3>1. CASE \E ack \in BOOLEAN : Returning(w, ack)
      BY <3>1, <1>0, <2>1, ReturningFrame
    <3>2. CASE claimTurn(w) /\ ~ReturnNil(w)
      BY <3>2, <1>0, <2>1, GotoFrame DEF claimTurn
    <3>3. CASE FailTurn(w) /\ ~ReturnNil(w)
      BY <3>3, <1>0, <2>1, GotoFrame DEF FailTurn
    <3>4. QED
      BY <1>4, <3>1, <3>2, <3>3 DEF RequeueTurn, PersistResult, ReturnNil, ReturnError
  <2>5. OwnerOk(w)'
    <3>1. CASE worker'[w].pc \in {"return", "failSession"}
      BY <3>1, <2>1, <2>4 DEF OwnerInv, OwnerOk, Owns
    <3>2. CASE claimTurn(w) /\ worker'[w].pc = "claimed" /\ ~ReturnNil(w)
      <4>1. turns' = [turns EXCEPT ![worker[w].turn].status = "running"]
        BY <3>2 DEF claimTurn
      <4>2. turns'[worker[w].turn].status = "running"
        BY <4>1, <2>1 DEF TypeOK, Turn
      <4>3. QED
        BY <3>2, <2>1, <2>4, <4>2 DEF OwnerInv, OwnerOk, Owns
    <3>3. QED
      BY <2>4, <3>1, <3>2
  <2>6. QED
    BY <2>1, <2>2, <2>3, <2>4, <2>5, OthersKeep
<1>5. ASSUME NEW w \in Workers,
             \/ EnterFlight(w) \/ Evaluate(w) \/ EvaluateFails(w) \/ PollFlight(w)
             \/ LoadForFailure(w) \/ FailSession(w) \/ StatementFails(w)
      PROVE  OwnerInv'
  <2>1. UNCHANGED <<lock, turns>>
    BY <1>5
       DEF EnterFlight, Evaluate, EvaluateFails, PollFlight, LoadForFailure, FailSession,
           StatementFails
  <2>2. CASE \E ack \in BOOLEAN : Returning(w, ack)
    <3>1. OwnerOk(w)'
      BY <2>1, <2>2, <1>0, ReturningFrame DEF OwnerInv, OwnerOk, Owns
    <3>2. QED
      BY <2>1, <2>2, <3>1, <1>0, ReturningFrame, OthersKeep
  <2>3. CASE \/ \E outcome \in Outcomes : GotResult(w, outcome) /\ worker[w].pc \in
                  {"evaluating", "evaluatingAlone", "waiting"}
             \/ \E pc \in {"waiting", "evaluating", "evaluatingAlone", "requeue", "failing"} :
                  Goto(w, pc) /\ worker[w].pc \in
                    {"claimed", "evaluating", "evaluatingAlone", "waiting"}
    <3>1. /\ \A v \in Workers \ {w} : worker'[v] = worker[v]
          /\ worker'[w].turn = worker[w].turn /\ worker'[w].locked = worker[w].locked
          /\ worker'[w].pc \notin {"locked", "failTurn"}
          /\ \A t \in Turns : Owns(w, t)' => Owns(w, t)
      BY <2>3, <1>0, GotResultFrame, GotoFrame DEF Owns
    <3>2. OwnerOk(w)'
      BY <2>1, <3>1 DEF OwnerInv, OwnerOk
    <3>3. QED
      BY <2>1, <3>1, <3>2, OthersKeep
  <2>4. CASE LoadForFailure(w) /\ ~ReturnNil(w)
    <3>1. worker' = [worker EXCEPT ![w].pc = "failTurn",
                                   ![w].seen = turns[worker[w].turn].status]
      BY <2>4 DEF LoadForFailure
    <3>2. /\ \A v \in Workers \ {w} : worker'[v] = worker[v]
          /\ worker'[w].turn = worker[w].turn /\ worker'[w].locked = worker[w].locked
          /\ worker'[w].pc = "failTurn"
          /\ worker'[w].seen = turns[worker[w].turn].status
      BY <3>1, <1>0 DEF WorkersTyped, Worker
    <3>3. Owns(w, worker[w].turn) /\ worker[w].turn \in Turns
      BY <2>4, <1>0 DEF LoadForFailure, Owns, WorkersTyped
    <3>4. OwnerOk(w)'
      BY <2>1, <3>2, <3>3 DEF OwnerInv, OwnerOk, Owns
    <3>5. QED
      BY <2>1, <3>2, <3>4, OthersKeep
  <2>5. CASE worker[w].pc = "return" /\ worker' = [worker EXCEPT ![w].locked = FALSE]
    <3>1. /\ \A v \in Workers \ {w} : worker'[v] = worker[v]
          /\ worker'[w].turn = worker[w].turn /\ ~worker'[w].locked
          /\ worker'[w].pc = "return"
      BY <2>5, <1>0 DEF WorkersTyped, Worker
    <3>2. OwnerOk(w)'
      BY <2>1, <3>1 DEF OwnerInv, OwnerOk, Owns
    <3>3. QED
      BY <2>1, <3>1, <3>2, OthersKeep
  <2>6. QED
    BY <1>5, <2>2, <2>3, <2>4, <2>5
       DEF EnterFlight, Evaluate, EvaluateFails, PollFlight, FailSession, StatementFails,
           LoadForFailure, ReturnNil, ReturnError
<1>6. ASSUME NEW w \in Workers, Return(w) \/ Crash(w) PROVE OwnerInv'
  <2>1. worker' = [worker EXCEPT ![w] = IdleWorker] /\ UNCHANGED turns
    BY <1>6 DEF Return, Crash
  <2>2. OwnerOk(w)'
    BY <2>1, <1>0, IdleFrame DEF OwnerOk, Owns
  <2>3. \A v \in Workers \ {w} :
          worker[v].locked => lock'[worker[v].turn] = lock[worker[v].turn]
    BY <1>6, <1>0 DEF Return, Crash, OwnerInv, OwnerOk, TypeOK
  <2>4. QED
    BY <2>1, <2>2, <2>3, <1>0, IdleFrame, OthersKeep
<1>7. ASSUME NEW t \in Turns, LockExpires(t) PROVE OwnerInv'
  <2>1. ~HoldsLock(lock[t], t) /\ lock' = [lock EXCEPT ![t] = None] /\ UNCHANGED <<worker, turns>>
    BY <1>7 DEF LockExpires, InTime, Stall, NoStalls, TypeOK
  <2>2. \A v \in Workers : worker[v].locked => worker[v].turn # t
    BY <2>1 DEF OwnerInv, OwnerOk, HoldsLock
  <2>3. QED
    BY <2>1, <2>2 DEF OwnerInv, OwnerOk, Owns, TypeOK
<1>8. ASSUME NEW t \in Turns, ReclaimStaleTurn(t) PROVE OwnerInv'
  <2>1. lock[t] = None /\ UNCHANGED <<worker, lock>>
    BY <1>8 DEF ReclaimStaleTurn, InTime, Stall, NoStalls, TypeOK, Abandoned
  <2>2. \A v \in Workers : ~Owns(v, t)
    BY <2>1, PipelineAssumption DEF OwnerInv, OwnerOk, Owns, None, PipelineAssumption
  <2>3. \A u \in Turns : u # t => turns'[u] = turns[u]
    BY <1>8 DEF ReclaimStaleTurn, TypeOK
  <2>4. QED
    BY <2>1, <2>2, <2>3 DEF OwnerInv, OwnerOk, Owns
<1>9. CASE \/ \E t \in Turns : FlightExpires(t) \/ ReclaimMessage(t) \/ ReclaimerCrash(t)
           \/ \E e \in Entries : DeadLetter(e)
           \/ UNCHANGED vars
  BY <1>9
     DEF FlightExpires, ReclaimMessage, ReclaimerCrash, DeadLetter, vars, OwnerInv, OwnerOk, Owns
<1>10. QED
  BY <1>1, <1>2, <1>3, <1>4, <1>5, <1>6, <1>7, <1>8, <1>9 DEF Next, WorkerStep

(* Hence ownership holds in every reachable state.                         *)
LEMMA Ownership == ASSUME NoStalls PROVE Spec => []OwnerInv
<1>1. Init => OwnerInv
  BY DEF Init, OwnerInv, OwnerOk, Owns, IdleWorker
<1>2. QED
  BY <1>1, OwnershipStep, TypeCorrect, PTL DEF Spec

(* Without stalls two workers never process the same turn.                 *)
THEOREM TurnsHaveOneOwner == ASSUME NoStalls PROVE Spec => []OneOwner
<1>1. OwnerInv => OneOwner
  BY DEF OwnerInv, OwnerOk, OneOwner, Owns
<1>2. QED
  BY <1>1, Ownership, PTL

-----------------------------------------------------------------------------
(* Refinement: every step is a step of AnswerLedger, or invisible to it.   *)
LEMMA BookUpdate ==
  ASSUME turns \in [Turns -> Turn], NEW t \in Turns, NEW row,
         turns' = [turns EXCEPT ![t] = row]
  PROVE  book' = [book EXCEPT ![t] = Booked(row.status)]
BY DEF book

(* The same for a change of status alone.                                  *)
LEMMA BookStatus ==
  ASSUME turns \in [Turns -> Turn], NEW t \in Turns, NEW status,
         turns' = [turns EXCEPT ![t].status = status]
  PROVE  book' = [book EXCEPT ![t] = Booked(status)]
BY DEF book, Turn

(* Every step maps to a step of the ledger or to a stutter.                *)
LEMMA LedgerStep ==
  ASSUME NoStalls, TypeOK, OwnerInv, [Next]_vars
  PROVE  [Ledger!Next]_(Ledger!ledger)
<1> USE DEF Ledger!Next, Ledger!ledger
<1>0. turns \in [Turns -> Turn] /\ credits \in [Turns -> Nat] /\ WorkersTyped
  BY DEF TypeOK, WorkersTyped
<1>1. ASSUME NEW h \in Handlers, EnqueueAnswer(h) PROVE Ledger!Next
  <2>1. PICK t \in Turns :
          /\ turns[t].status = "absent" /\ UNCHANGED credits
          /\ \E row : row.status = "queued" /\ turns' = [turns EXCEPT ![t] = row]
    BY <1>1 DEF EnqueueAnswer
  <2>2. book[t] = "unknown" /\ book' = [book EXCEPT ![t] = "accepted"]
    BY <2>1, <1>0, BookUpdate DEF book, Booked
  <2>3. QED
    BY <2>1, <2>2 DEF Ledger!Accept
<1>2. ASSUME NEW w \in Workers, PersistResult(w), ~UNCHANGED turns PROVE Ledger!Next
  <2> DEFINE t == worker[w].turn
  <2>1. t \in Turns /\ turns[t].status = "running"
    BY <1>0, <1>2 DEF PersistResult, WorkersTyped, OwnerInv, OwnerOk, Owns
  <2>2. /\ turns' = [turns EXCEPT ![t].status = "completed"]
        /\ credits' = [credits EXCEPT ![t] = @ + 1]
    BY <1>2 DEF PersistResult
  <2> HIDE DEF t
  <2>3. book[t] = "accepted" /\ book' = [book EXCEPT ![t] = "scored"]
    BY <2>1, <2>2, <1>0, BookStatus DEF book, Booked
  <2>4. QED
    BY <2>1, <2>2, <2>3 DEF Ledger!Score
<1>3. ASSUME NEW w \in Workers, FailTurn(w), ~UNCHANGED turns PROVE Ledger!Next
  <2> DEFINE t == worker[w].turn
  <2>1. t \in Turns /\ turns[t].status = "running"
    BY <1>0, <1>3 DEF FailTurn, WorkersTyped, OwnerInv, OwnerOk, Owns
  <2>2. turns' = [turns EXCEPT ![t].status = "failed"] /\ UNCHANGED credits
    BY <1>3 DEF FailTurn
  <2> HIDE DEF t
  <2>3. book[t] = "accepted" /\ book' = [book EXCEPT ![t] = "failed"]
    BY <2>1, <2>2, <1>0, BookStatus DEF book, Booked
  <2>4. QED
    BY <2>1, <2>2, <2>3 DEF Ledger!Fail
<1>4. ASSUME NEW w \in Workers, claimTurn(w) \/ RequeueTurn(w), ~UNCHANGED turns
      PROVE  UNCHANGED <<book, credits>>
  <2> DEFINE t == worker[w].turn
  <2>1. t \in Turns /\ turns[t].status \in {"queued", "running"}
    BY <1>0, <1>4 DEF claimTurn, RequeueTurn, WorkersTyped, OwnerInv, OwnerOk, Owns
  <2>2. PICK status \in {"queued", "running"} : turns' = [turns EXCEPT ![t].status = status]
    BY <1>4 DEF claimTurn, RequeueTurn
  <2>3. UNCHANGED credits
    BY <1>4 DEF claimTurn, RequeueTurn
  <2> HIDE DEF t
  <2>4. book[t] = "accepted" /\ book' = [book EXCEPT ![t] = "accepted"]
    BY <2>1, <2>2, <1>0, BookStatus DEF book, Booked
  <2>5. QED
    BY <2>3, <2>4 DEF book
<1>5. ASSUME NEW t \in Turns, ReclaimStaleTurn(t) PROVE UNCHANGED <<book, credits>>
  <2>1. turns[t].status = "running" /\ turns' = [turns EXCEPT ![t].status = "queued"]
    BY <1>5 DEF ReclaimStaleTurn
  <2>2. book[t] = "accepted" /\ book' = [book EXCEPT ![t] = "accepted"]
    BY <2>1, <1>0, BookStatus DEF book, Booked
  <2>3. QED
    BY <1>5, <2>2 DEF ReclaimStaleTurn, book
<1>6. ASSUME UNCHANGED turns PROVE UNCHANGED <<book, credits>>
  <2>1. UNCHANGED book
    BY <1>6 DEF book
  <2>2. ASSUME NEW w \in Workers, PersistResult(w) PROVE UNCHANGED credits
    <3>1. worker[w].turn \in Turns /\ turns[worker[w].turn].status = "running"
      BY <1>0, <2>2 DEF PersistResult, WorkersTyped, OwnerInv, OwnerOk, Owns
    <3>2. [turns EXCEPT ![worker[w].turn].status = "completed"] # turns
      BY <3>1, <1>0 DEF Turn
    <3>3. QED
      BY <1>6, <2>2, <3>1, <3>2 DEF PersistResult
  <2>3. QED
    BY <2>1, <2>2
       DEF Next, HandlerStep, WorkerStep, LoadForSubmit, EnqueueAnswer, RefuseAnswer,
           LoadForFinalize, Finalize, TryLock, claimTurn, EnterFlight, Evaluate, EvaluateFails,
           PollFlight, RequeueTurn, LoadForFailure, FailTurn, FailSession, Return, Deliver,
           Crash, StatementFails, LockExpires, FlightExpires, ReclaimStaleTurn,
           ReclaimMessage, ReclaimerCrash, DeadLetter, vars
<1>7. QED
  BY <1>1, <1>2, <1>3, <1>4, <1>5, <1>6
     DEF Next, HandlerStep, WorkerStep, LoadForSubmit, RefuseAnswer, LoadForFinalize, Finalize,
         TryLock, EnterFlight, Evaluate, EvaluateFails, PollFlight, LoadForFailure,
         FailSession, Return, Deliver, Crash, StatementFails, LockExpires, FlightExpires,
         ReclaimMessage, ReclaimerCrash, DeadLetter, vars

(* Without stalls the pipeline implements the ledger of its answers.       *)
THEOREM PipelineImplementsLedger == ASSUME NoStalls PROVE Spec => ImplementsLedger
<1>1. Init => Ledger!Init
  BY DEF Init, Ledger!Init, book, Booked, AbsentTurn
<1>2. QED
  BY <1>1, LedgerStep, Ownership, TypeCorrect, PTL DEF Spec, Ledger!Spec, ImplementsLedger

(* ... so the score of a turn is counted exactly once, when it completes.  *)
THEOREM ScoresCountOnce == ASSUME NoStalls PROVE Spec => []ScoredOnce
<1> DEFINE Counted == \A t \in Turns : credits[t] = IF book[t] = "scored" THEN 1 ELSE 0
           CreditsType == credits \in [Turns -> Nat] /\ DOMAIN book = Turns
<1>1. Ledger!Init => Counted
  BY DEF Ledger!Init
<1>2. CreditsType /\ Counted /\ [Ledger!Next]_(Ledger!ledger) => Counted'
  BY DEF Ledger!Next, Ledger!ledger, Ledger!Accept, Ledger!Score, Ledger!Fail
<1>3. TypeOK => CreditsType
  BY DEF TypeOK, book
<1>4. TypeOK /\ Counted => ScoredOnce
  BY DEF TypeOK, Turn, TurnStatus, ScoredOnce, book, Booked
<1> HIDE DEF Counted, CreditsType
<1>5. QED
  BY <1>1, <1>2, <1>3, <1>4, PipelineImplementsLedger, TypeCorrect, PTL
     DEF Ledger!Spec, ImplementsLedger

-----------------------------------------------------------------------------
(* The patient candidate.  While an answer is outstanding nothing moves    *)
(* the session but the worker that owns the answer's turn, so the turn is  *)
(* at the session's position, and so is every copy that may be written.    *)
Here(t) == turns[t].question = session.question /\ turns[t].round = session.round

Passed(t) ==
  \/ turns[t].question < session.question
  \/ turns[t].question = session.question /\ turns[t].round < session.round

(* A worker that owns turn t, or still may come to own it.                 *)
Carries(w, t) ==
  worker[w].turn = t /\ (worker[w].pc \in {"loaded", "locked"} \/ Owns(w, t))

OneThingAtATime ==
  /\ \A g, h \in Handlers : handler[g].pc # "idle" /\ handler[h].pc # "idle" => g = h
  /\ \A h \in Handlers : handler[h].pc # "idle" => Outstanding = {}
  /\ \A t, u \in Outstanding : t = u

RequestsAreFresh ==
  \A h \in Handlers : handler[h].pc = "submit" =>
    /\ handler[h].question = session.question /\ handler[h].round = session.round
    /\ session.flow # "COMPLETED"

CopiesAreFresh ==
  \A t \in Outstanding :
    /\ Here(t) /\ session.flow # "COMPLETED"
    /\ \A w \in Workers : Carries(w, t) =>
         /\ worker[w].snap.question = session.question
         /\ worker[w].snap.round = session.round

(* Entries, reclaims and workers are of turns that were accepted: nobody   *)
(* can hold a copy of the session for a turn before there is one.          *)
Accepted(t) == turns[t].status # "absent"

OnlyAccepted ==
  /\ \A e \in entries : Accepted(e[1])
  /\ \A t \in reclaimed : Accepted(t)
  /\ \A w \in Workers : worker[w].pc # "idle" => Accepted(worker[w].turn)

CompletedPassed == \A t \in Turns : turns[t].status = "completed" => Passed(t)

PatientInv ==
  /\ OneThingAtATime /\ RequestsAreFresh /\ CopiesAreFresh
  /\ OnlyAccepted /\ CompletedPassed /\ EachPositionOnce

(* A worker takes on neither a turn nor a copy: every step but Deliver.    *)
TakesOnNothing(w) ==
  worker'[w].pc # "idle" =>
    /\ worker[w].pc # "idle" /\ worker'[w].turn = worker[w].turn
    /\ \A t \in Turns : Carries(w, t)' =>
         Carries(w, t) /\ worker'[w].snap = worker[w].snap

LEMMA OnlyDeliverTakesOn ==
  ASSUME WorkersTyped, [Next]_vars, ~\E w \in Workers, e \in Entries : Deliver(w, e)
  PROVE  \A w \in Workers : TakesOnNothing(w)
<1>1. ASSUME UNCHANGED worker PROVE \A w \in Workers : TakesOnNothing(w)
  BY <1>1 DEF TakesOnNothing, Carries, Owns
<1>2. ASSUME NEW w \in Workers, WorkerStep(w) \/ Crash(w) \/ StatementFails(w)
      PROVE  \A v \in Workers : TakesOnNothing(v)
  <2>1. worker[w].pc # "idle"
    BY <1>2
       DEF WorkerStep, TryLock, claimTurn, EnterFlight, Evaluate, EvaluateFails, PollFlight,
           RequeueTurn, PersistResult, LoadForFailure, FailTurn, FailSession, Return, Crash,
           StatementFails
  <2> SUFFICES TakesOnNothing(w) /\ \A v \in Workers \ {w} : worker'[v] = worker[v]
    BY DEF TakesOnNothing, Carries, Owns
  <2>2. CASE \E ack \in BOOLEAN : Returning(w, ack)
    BY <2>1, <2>2, ReturningFrame DEF TakesOnNothing, Carries, Owns
  <2>3. CASE worker' = [worker EXCEPT ![w] = IdleWorker]
    BY <2>3, IdleFrame DEF TakesOnNothing
  <2>4. CASE \E outcome \in Outcomes : GotResult(w, outcome) /\ worker[w].pc \in
               {"evaluating", "evaluatingAlone", "waiting"}
    BY <2>1, <2>4, GotResultFrame DEF TakesOnNothing, Carries, Owns
  <2>5. CASE \/ \E pc \in {"waiting", "evaluating", "evaluatingAlone", "requeue", "failing"} :
                  Goto(w, pc) /\ worker[w].pc \in
                    {"claimed", "evaluating", "evaluatingAlone", "waiting"}
             \/ Goto(w, "claimed") /\ worker[w].pc = "locked"
             \/ Goto(w, "failSession") /\ worker[w].pc = "failTurn"
    BY <2>1, <2>5, GotoFrame DEF TakesOnNothing, Carries, Owns
  <2>6. CASE TryLock(w) /\ ~ReturnNil(w)
    <3>1. /\ \A v \in Workers \ {w} : worker'[v] = worker[v]
          /\ worker'[w].pc = "locked" /\ worker'[w].turn = worker[w].turn
          /\ worker'[w].snap = worker[w].snap /\ worker[w].pc = "loaded"
      BY <2>6 DEF TryLock, WorkersTyped, Worker
    <3>2. QED
      BY <3>1 DEF TakesOnNothing, Carries, Owns
  <2>7. CASE LoadForFailure(w) /\ ~ReturnNil(w)
    <3>1. /\ \A v \in Workers \ {w} : worker'[v] = worker[v]
          /\ worker'[w].pc = "failTurn" /\ worker'[w].turn = worker[w].turn
          /\ worker'[w].snap = worker[w].snap /\ worker[w].pc = "failing"
      BY <2>7 DEF LoadForFailure, WorkersTyped, Worker
    <3>2. QED
      BY <3>1 DEF TakesOnNothing, Carries, Owns
  <2>8. CASE worker[w].pc = "return" /\ worker' = [worker EXCEPT ![w].locked = FALSE]
    <3>1. /\ \A v \in Workers \ {w} : worker'[v] = worker[v]
          /\ worker'[w].pc = "return" /\ worker'[w].turn = worker[w].turn
      BY <2>8 DEF WorkersTyped, Worker
    <3>2. QED
      BY <2>1, <3>1 DEF TakesOnNothing, Carries, Owns
  <2>9. QED
    BY <1>2, <2>2, <2>3, <2>4, <2>5, <2>6, <2>7, <2>8
       DEF WorkerStep, TryLock, claimTurn, EnterFlight, Evaluate, EvaluateFails, PollFlight,
           RequeueTurn, PersistResult, LoadForFailure, FailTurn, FailSession, Return, Crash,
           StatementFails, ReturnNil, ReturnError
<1>3. QED
  BY <1>1, <1>2
     DEF Next, HandlerStep, LoadForSubmit, EnqueueAnswer, RefuseAnswer, LoadForFinalize, Finalize,
         LockExpires, FlightExpires, ReclaimStaleTurn, ReclaimMessage, ReclaimerCrash,
         DeadLetter, vars

(* Steps that neither take, accept nor score an answer: a turn may only    *)
(* fail, or move between queued and running, and the session stays where   *)
(* it is.                                                                  *)
Quiet ==
  /\ UNCHANGED handler
  /\ session'.question = session.question /\ session'.round = session.round
  /\ session'.flow = session.flow
  /\ \A t \in Turns :
       /\ turns'[t].question = turns[t].question /\ turns'[t].round = turns[t].round
       /\ \/ turns'[t].status = turns[t].status
          \/ t \in Outstanding /\ turns'[t].status \in {"queued", "running", "failed"}
  /\ \A e \in entries' : e \in entries \/ e[1] \in reclaimed
  /\ \A t \in reclaimed' : t \in reclaimed \/ t \in Outstanding

LEMMA QuietKeepsPatience ==
  ASSUME TypeOK, PatientInv, Quiet, \A w \in Workers : TakesOnNothing(w)
  PROVE  PatientInv'
<1>1. Outstanding' \subseteq Outstanding
  BY DEF Quiet, Outstanding
<1>2. OneThingAtATime' /\ RequestsAreFresh'
  BY <1>1 DEF PatientInv, OneThingAtATime, RequestsAreFresh, Quiet
<1>3. CopiesAreFresh'
  <2> SUFFICES ASSUME NEW t \in Outstanding'
               PROVE  /\ Here(t)' /\ session'.flow # "COMPLETED"
                      /\ \A w \in Workers : Carries(w, t)' =>
                           /\ worker'[w].snap.question = session'.question
                           /\ worker'[w].snap.round = session'.round
    BY DEF CopiesAreFresh
  <2>1. t \in Turns /\ t \in Outstanding
    BY <1>1 DEF Outstanding
  <2>2. Here(t)' /\ session'.flow # "COMPLETED"
    BY <2>1 DEF PatientInv, CopiesAreFresh, Here, Quiet
  <2>3. ASSUME NEW w \in Workers, Carries(w, t)'
        PROVE  Carries(w, t) /\ worker'[w].snap = worker[w].snap
    BY <2>1, <2>3 DEF TakesOnNothing, Carries, Owns
  <2>4. QED
    BY <2>1, <2>2, <2>3 DEF PatientInv, CopiesAreFresh, Quiet
<1>4. OnlyAccepted'
  <2>1. \A t \in Turns : Accepted(t) => Accepted(t)'
    BY DEF Accepted, Quiet
  <2>2. \A t \in Outstanding : t \in Turns /\ Accepted(t)
    BY DEF Outstanding, Accepted
  <2>3. \A e \in entries : e[1] \in Turns
    BY DEF TypeOK, Entries
  <2>4. \A w \in Workers : worker[w].pc # "idle" => worker[w].turn \in Turns
    BY DEF TypeOK
  <2>5. \A t \in reclaimed : t \in Turns
    BY DEF TypeOK
  <2>6. /\ \A e \in entries' : Accepted(e[1])'
        /\ \A t \in reclaimed' : Accepted(t)'
    BY <2>1, <2>2, <2>3, <2>5 DEF PatientInv, OnlyAccepted, Quiet
  <2>7. \A w \in Workers : worker'[w].pc # "idle" => Accepted(worker[w].turn)'
    BY <2>1, <2>4 DEF PatientInv, OnlyAccepted, TakesOnNothing, Accepted
  <2>8. QED
    BY <2>6, <2>7 DEF OnlyAccepted
<1>5. \A t \in Turns : turns'[t].status = "completed" <=> turns[t].status = "completed"
  BY DEF Quiet, Outstanding
<1>6. CompletedPassed'
  BY <1>5 DEF PatientInv, CompletedPassed, Passed, Quiet
<1>7. EachPositionOnce'
  BY <1>5 DEF PatientInv, EachPositionOnce, Quiet
<1>8. QED
  BY <1>2, <1>3, <1>4, <1>6, <1>7 DEF PatientInv

(* What scores an answer: the transaction of persistAnswerResult, unless   *)
(* its validation refuses.                                                 *)
Scores(w) ==
  /\ PersistResult(w)
  /\ Persistable(worker[w].snap, NextSession(worker[w].snap, worker[w].outcome))

(* A change of one turn's status is quiet when the turn is outstanding.    *)
LEMMA QuietStatus ==
  ASSUME TypeOK, NEW t \in Outstanding, NEW status \in {"queued", "running", "failed"},
         turns' = [turns EXCEPT ![t].status = status]
  PROVE  \A u \in Turns :
           /\ turns'[u].question = turns[u].question /\ turns'[u].round = turns[u].round
           /\ \/ turns'[u].status = turns[u].status
              \/ u \in Outstanding /\ turns'[u].status \in {"queued", "running", "failed"}
BY DEF TypeOK, Turn, Outstanding

LEMMA OthersAreQuiet ==
  ASSUME TypeOK, OwnerInv, [Next]_vars,
         ~\E h \in Handlers : HandlerStep(h), ~\E w \in Workers : Scores(w)
  PROVE  Quiet
<1>1. ASSUME NEW w \in Workers, WorkerStep(w), ~Scores(w) PROVE Quiet
  <2>1. CASE claimTurn(w) \/ RequeueTurn(w) \/ FailTurn(w)
    <3>1. worker[w].pc # "idle" /\ worker[w].turn \in Turns
      BY <2>1 DEF claimTurn, RequeueTurn, FailTurn, TypeOK
    <3>2. CASE UNCHANGED turns
      BY <2>1, <3>2 DEF Quiet, claimTurn, RequeueTurn, FailTurn
    <3>3. CASE ~UNCHANGED turns
      <4>1. worker[w].turn \in Outstanding
        BY <2>1, <3>1, <3>3
           DEF claimTurn, RequeueTurn, FailTurn, Outstanding, OwnerInv, OwnerOk, Owns
      <4>2. PICK status \in {"queued", "running", "failed"} :
              turns' = [turns EXCEPT ![worker[w].turn].status = status]
        BY <2>1, <3>3 DEF claimTurn, RequeueTurn, FailTurn
      <4>3. QED
        BY <2>1, <4>1, <4>2, QuietStatus DEF Quiet, claimTurn, RequeueTurn, FailTurn
    <3>4. QED
      BY <3>2, <3>3
  <2>2. CASE Return(w)
    BY <2>2 DEF Return, Quiet
  <2>3. CASE FailSession(w)
    BY <2>3 DEF FailSession, Quiet, TypeOK, Session
  <2>4. CASE \/ TryLock(w) \/ EnterFlight(w) \/ Evaluate(w) \/ EvaluateFails(w)
             \/ PollFlight(w) \/ LoadForFailure(w) \/ PersistResult(w)
    BY <1>1, <2>4
       DEF Quiet, TryLock, EnterFlight, Evaluate, EvaluateFails, PollFlight, LoadForFailure,
           PersistResult, Scores
  <2>5. QED
    BY <1>1, <2>1, <2>2, <2>3, <2>4 DEF WorkerStep
<1>2. ASSUME NEW t \in Turns, ReclaimStaleTurn(t) PROVE Quiet
  <2>1. t \in Outstanding /\ turns' = [turns EXCEPT ![t].status = "queued"]
    BY <1>2 DEF ReclaimStaleTurn, Outstanding
  <2>2. QED
    BY <1>2, <2>1, QuietStatus DEF ReclaimStaleTurn, Quiet
<1>3. ASSUME NEW t \in Turns, ReclaimMessage(t) PROVE Quiet
  BY <1>3 DEF ReclaimMessage, Quiet
<1>4. CASE \/ \E w \in Workers : Crash(w) \/ StatementFails(w)
           \/ \E w \in Workers, e \in Entries : Deliver(w, e)
           \/ \E t \in Turns : LockExpires(t) \/ FlightExpires(t) \/ ReclaimerCrash(t)
           \/ \E e \in Entries : DeadLetter(e)
           \/ UNCHANGED vars
  BY <1>4
     DEF Crash, StatementFails, Deliver, LockExpires, FlightExpires, ReclaimerCrash, DeadLetter,
         vars, Quiet
<1>5. QED
  BY <1>1, <1>2, <1>3, <1>4 DEF Next

(* A delivery: the worker takes a copy of the session as it stands.        *)
LEMMA DeliverKeepsPatience ==
  ASSUME TypeOK, OwnerInv, PatientInv, NEW w \in Workers, NEW e \in Entries, Deliver(w, e)
  PROVE  PatientInv'
<1>1. UNCHANGED <<session, turns, handler, entries, reclaimed>> /\ e[1] \in Turns /\ e \in entries
  BY DEF Deliver, Entries
<1>2. /\ \A v \in Workers \ {w} : worker'[v] = worker[v]
      /\ worker'[w].turn = e[1] /\ worker'[w].snap = session
  BY DEF Deliver, TypeOK
<1>3. Outstanding' = Outstanding
  BY <1>1 DEF Outstanding
<1>4. OneThingAtATime' /\ RequestsAreFresh' /\ CompletedPassed' /\ EachPositionOnce'
  BY <1>1, <1>3
     DEF PatientInv, OneThingAtATime, RequestsAreFresh, CompletedPassed, Passed, EachPositionOnce
<1>5. CopiesAreFresh'
  <2>1. \A t \in Outstanding : Here(t)' /\ session'.flow # "COMPLETED"
    BY <1>1 DEF PatientInv, CopiesAreFresh, Here
  <2>2. \A v \in Workers \ {w}, t \in Outstanding : Carries(v, t)' => Carries(v, t)
    BY <1>2 DEF Carries, Owns
  <2>3. QED
    BY <1>1, <1>2, <1>3, <2>1, <2>2 DEF PatientInv, CopiesAreFresh
<1>6. OnlyAccepted'
  BY <1>1, <1>2 DEF PatientInv, OnlyAccepted, Accepted
<1>7. QED
  BY <1>4, <1>5, <1>6 DEF PatientInv

(* Where a scored session stands: past the position of the answer, on its  *)
(* question or the next.                                                   *)
LEMMA NextSessionAdvances ==
  ASSUME NEW s \in Session, NEW outcome
  PROVE  LET next == NextSession(s, outcome) IN
         \/ next.question = s.question /\ next.round = s.round + 1
         \/ next.question = s.question + 1
BY DEF NextSession, FollowUp, Advance, Session

(* The step that scores an answer.                                         *)
LEMMA ScoringKeepsPatience ==
  ASSUME TypeOK, OwnerInv, PatientInv, NEW w \in Workers, Scores(w),
         \A v \in Workers : TakesOnNothing(v)
  PROVE  PatientInv' /\ session.flow # "COMPLETED"
<1> DEFINE a == worker[w].turn
           s == worker[w].snap
           next == NextSession(s, worker[w].outcome)
<1>1. a \in Outstanding /\ a \in Turns /\ turns[a].status = "running" /\ Carries(w, a)
  BY DEF Scores, PersistResult, OwnerInv, OwnerOk, Owns, TypeOK, Outstanding, Carries
<1>2. /\ turns' = [turns EXCEPT ![a].status = "completed"]
      /\ session' = next /\ UNCHANGED <<handler, entries, reclaimed>>
  BY <1>1 DEF Scores, PersistResult
<1>3. /\ Here(a) /\ session.flow # "COMPLETED"
      /\ s.question = session.question /\ s.round = session.round
  BY <1>1 DEF PatientInv, CopiesAreFresh
<1>4. s \in Session /\ session \in Session /\ session' \in Session
  BY <1>2, NextSessionType DEF TypeOK, Worker
<1>5. \/ session'.question = session.question /\ session'.round = session.round + 1
      \/ session'.question = session.question + 1
  BY <1>2, <1>3, <1>4, NextSessionAdvances
<1> HIDE DEF a, s, next
<1>6. \A t \in Turns :
        /\ turns'[t].question = turns[t].question /\ turns'[t].round = turns[t].round
        /\ t # a => turns'[t].status = turns[t].status
        /\ t = a => turns'[t].status = "completed"
  BY <1>1, <1>2 DEF TypeOK, Turn
<1>7. Outstanding' = {}
  BY <1>1, <1>6 DEF Outstanding, PatientInv, OneThingAtATime
<1>8. OneThingAtATime' /\ RequestsAreFresh' /\ CopiesAreFresh'
  BY <1>1, <1>2, <1>7
     DEF PatientInv, OneThingAtATime, RequestsAreFresh, CopiesAreFresh
<1>9. OnlyAccepted'
  <2>1. \A t \in Turns : Accepted(t) => Accepted(t)'
    BY <1>6 DEF Accepted
  <2>2. /\ \A e \in entries : e[1] \in Turns
        /\ \A t \in reclaimed : t \in Turns
        /\ \A v \in Workers : worker[v].pc # "idle" => worker[v].turn \in Turns
    BY DEF TypeOK, Entries
  <2>3. \A v \in Workers : worker'[v].pc # "idle" => Accepted(worker[v].turn)'
    BY <2>1, <2>2 DEF PatientInv, OnlyAccepted, TakesOnNothing, Accepted
  <2>4. QED
    BY <1>2, <2>1, <2>2, <2>3 DEF PatientInv, OnlyAccepted
<1>10. \A t \in Turns : turns[t].question \in Nat /\ turns[t].round \in Nat
  BY DEF TypeOK, Turn
<1>11. /\ session.question \in Nat /\ session.round \in Nat
       /\ session'.question \in Nat /\ session'.round \in Nat
  BY <1>4 DEF Session
<1>12. \A t \in Turns : Passed(t) \/ Here(t) => Passed(t)'
  BY <1>5, <1>6, <1>10, <1>11 DEF Passed, Here
<1>13. CompletedPassed'
  BY <1>3, <1>6, <1>12 DEF PatientInv, CompletedPassed
<1>14. EachPositionOnce'
  <2>1. ASSUME NEW t \in Turns, NEW u \in Turns,
               turns'[t].status = "completed", turns'[u].status = "completed",
               turns'[t].question = turns'[u].question, turns'[t].round = turns'[u].round
        PROVE  t = u
    <3>1. CASE t # a /\ u # a
      BY <1>6, <2>1, <3>1 DEF PatientInv, EachPositionOnce
    <3>2. CASE t = a \/ u = a
      <4>1. \A v \in Turns : v # a /\ turns'[v].status = "completed" => Passed(v)
        BY <1>6 DEF PatientInv, CompletedPassed
      <4>2. \A v \in Turns : turns[v].question = turns[a].question /\ turns[v].round = turns[a].round
              => ~Passed(v)
        BY <1>3, <1>10, <1>11 DEF Passed, Here
      <4>3. QED
        BY <1>6, <2>1, <3>2, <4>1, <4>2
    <3>3. QED
      BY <3>1, <3>2
  <2>2. ASSUME NEW q \in 1 .. session'.question - 1
        PROVE  \E t \in Turns : turns'[t].status = "completed" /\ turns'[t].question = q
    <3>1. q \in 1 .. session.question - 1 \/ q = session.question
      BY <1>5, <1>11
    <3>2. CASE q \in 1 .. session.question - 1
      <4>1. PICK t \in Turns : turns[t].status = "completed" /\ turns[t].question = q
        BY <3>2 DEF PatientInv, EachPositionOnce
      <4>2. QED
        BY <1>6, <4>1
    <3>3. CASE q = session.question
      BY <1>1, <1>3, <1>6, <3>3 DEF Here
    <3>4. QED
      BY <3>1, <3>2, <3>3
  <2>3. QED
    BY <2>1, <2>2 DEF EachPositionOnce
<1>15. QED
  BY <1>3, <1>8, <1>9, <1>13, <1>14 DEF PatientInv

(* A request that starts does so alone, from the session as it stands.     *)
LEMMA LoadingKeepsPatience ==
  ASSUME TypeOK, PatientInv, Patient, NEW h \in Handlers,
         LoadForSubmit(h) \/ LoadForFinalize(h)
  PROVE  PatientInv'
<1>1. UNCHANGED <<session, turns, worker, entries, reclaimed>>
  BY DEF LoadForSubmit, LoadForFinalize
<1>2. /\ \A g \in Handlers \ {h} : handler'[g] = handler[g]
      /\ handler'[h].question = session.question /\ handler'[h].round = session.round
      /\ handler'[h].pc = "submit" => session.flow # "COMPLETED"
      /\ handler[h].pc = "idle" /\ handler'[h].pc # "idle"
  BY DEF LoadForSubmit, LoadForFinalize, Load, TypeOK
<1>3. Outstanding = {} /\ \A g \in Handlers : handler[g].pc = "idle"
  BY <1>2 DEF Patient
<1>4. Outstanding' = {}
  BY <1>1, <1>3 DEF Outstanding
<1>5. OneThingAtATime' /\ RequestsAreFresh'
  BY <1>1, <1>2, <1>3, <1>4 DEF OneThingAtATime, RequestsAreFresh
<1>6. CopiesAreFresh' /\ OnlyAccepted' /\ CompletedPassed' /\ EachPositionOnce'
  BY <1>1, <1>4
     DEF PatientInv, CopiesAreFresh, OnlyAccepted, Accepted, CompletedPassed, Passed,
         EachPositionOnce
<1>7. QED
  BY <1>5, <1>6 DEF PatientInv

(* A request that ends leaves none behind.                                 *)
LEMMA RespondingLeavesNone ==
  ASSUME TypeOK, PatientInv, NEW h \in Handlers, handler[h].pc # "idle", Respond(h)
  PROVE  \A g \in Handlers : handler'[g].pc = "idle"
BY DEF TypeOK, PatientInv, OneThingAtATime, Respond, IdleHandler

LEMMA RespondingKeepsPatience ==
  ASSUME TypeOK, PatientInv, NEW h \in Handlers, RefuseAnswer(h) \/ Finalize(h)
  PROVE  PatientInv'
<1>1. UNCHANGED <<turns, worker, entries, reclaimed>> /\ handler[h].pc # "idle" /\ Respond(h)
  BY DEF RefuseAnswer, Finalize
<1>2. session'.question = session.question /\ session'.round = session.round
  BY DEF RefuseAnswer, Finalize, TypeOK, Session
<1>3. Outstanding = {} /\ Outstanding' = {}
  BY <1>1 DEF PatientInv, OneThingAtATime, Outstanding
<1>4. \A g \in Handlers : handler'[g].pc = "idle"
  BY <1>1, RespondingLeavesNone
<1>5. OneThingAtATime' /\ RequestsAreFresh' /\ CopiesAreFresh'
  BY <1>3, <1>4 DEF OneThingAtATime, RequestsAreFresh, CopiesAreFresh
<1>6. OnlyAccepted' /\ CompletedPassed' /\ EachPositionOnce'
  BY <1>1, <1>2
     DEF PatientInv, OnlyAccepted, Accepted, CompletedPassed, Passed, EachPositionOnce
<1>7. QED
  BY <1>5, <1>6 DEF PatientInv

(* The answer accepted is at the session's position, and no worker holds   *)
(* an older copy for it.                                                   *)
LEMMA AcceptingKeepsPatience ==
  ASSUME TypeOK, PatientInv, NEW h \in Handlers, EnqueueAnswer(h)
  PROVE  PatientInv'
<1>1. handler[h].pc = "submit" /\ Respond(h) /\ UNCHANGED <<worker, reclaimed>>
  BY DEF EnqueueAnswer
<1>2. PICK t \in Turns :
        /\ turns[t].status = "absent"
        /\ \E answer \in Answers : \E request \in Requests \cup {answer} :
             turns' = [turns EXCEPT ![t] =
               [status |-> "queued", question |-> handler[h].question,
                round |-> handler[h].round, answer |-> answer, request |-> request]]
        /\ entries' = entries \cup {<<t, 1>>}
  BY DEF EnqueueAnswer
<1>3. /\ \A u \in Turns \ {t} : turns'[u] = turns[u]
      /\ turns'[t].status = "queued" /\ turns'[t].question = handler[h].question
      /\ turns'[t].round = handler[h].round
  BY <1>2 DEF TypeOK
<1>4. /\ handler[h].question = session.question /\ handler[h].round = session.round
      /\ session.flow # "COMPLETED"
  BY <1>1 DEF PatientInv, RequestsAreFresh
<1>5. /\ session'.question = session.question /\ session'.round = session.round
      /\ session'.flow # "COMPLETED"
  BY <1>4 DEF EnqueueAnswer, TypeOK, Session
<1>6. Outstanding = {}
  BY <1>1 DEF PatientInv, OneThingAtATime
<1>7. Outstanding' = {t}
  BY <1>3, <1>6 DEF Outstanding
<1>8. \A g \in Handlers : handler'[g].pc = "idle"
  BY <1>1, RespondingLeavesNone
<1>9. OneThingAtATime' /\ RequestsAreFresh'
  BY <1>7, <1>8 DEF OneThingAtATime, RequestsAreFresh
<1>10. CopiesAreFresh'
  <2>1. \A w \in Workers : ~Carries(w, t)'
    BY <1>1, <1>2 DEF PatientInv, OnlyAccepted, Accepted, Carries, Owns
  <2>2. Here(t)'
    BY <1>3, <1>4, <1>5 DEF Here
  <2>3. QED
    BY <1>5, <1>7, <2>1, <2>2 DEF CopiesAreFresh
<1>11. OnlyAccepted'
  <2>1. \A u \in Turns : Accepted(u) => Accepted(u)'
    BY <1>3 DEF Accepted
  <2>2. Accepted(t)'
    BY <1>3 DEF Accepted
  <2>3. /\ \A e \in entries : e[1] \in Turns
        /\ \A u \in reclaimed : u \in Turns
        /\ \A v \in Workers : worker[v].pc # "idle" => worker[v].turn \in Turns
    BY DEF TypeOK, Entries
  <2>4. \A e \in entries' : Accepted(e[1])'
    BY <1>2, <2>1, <2>2, <2>3 DEF PatientInv, OnlyAccepted
  <2>5. \A v \in Workers : worker'[v].pc # "idle" => Accepted(worker[v].turn)'
    BY <1>1, <2>1, <2>3 DEF PatientInv, OnlyAccepted, Accepted
  <2>6. QED
    BY <1>1, <2>1, <2>3, <2>4, <2>5 DEF PatientInv, OnlyAccepted, Accepted
<1>12. \A u \in Turns : /\ turns'[u].status = "completed" <=> turns[u].status = "completed"
                        /\ turns[u].status = "completed" => turns'[u] = turns[u]
  BY <1>2, <1>3
<1>13. CompletedPassed' /\ EachPositionOnce'
  BY <1>5, <1>12 DEF PatientInv, CompletedPassed, Passed, EachPositionOnce
<1>14. QED
  BY <1>9, <1>10, <1>11, <1>13 DEF PatientInv

(* Every step of the patient candidate's system keeps the invariant, and   *)
(* none takes a finished session back.                                     *)
LEMMA PatientStep ==
  ASSUME TypeOK, OwnerInv, PatientInv, [Next /\ Patient]_vars
  PROVE  /\ PatientInv'
         /\ session.flow = "COMPLETED" =>
              session'.flow = "COMPLETED" /\ session'.question = session.question
<1>0. WorkersTyped /\ [Next]_vars
  BY DEF TypeOK, WorkersTyped
<1>1. CASE \E h \in Handlers : HandlerStep(h)
  <2>1. PICK h \in Handlers : HandlerStep(h)
    BY <1>1
  <2>2. CASE LoadForSubmit(h) \/ LoadForFinalize(h)
    <3>1. Patient
      BY <2>2 DEF LoadForSubmit, LoadForFinalize, Load, TypeOK, vars
    <3>2. QED
      BY <2>2, <3>1, LoadingKeepsPatience DEF LoadForSubmit, LoadForFinalize
  <2>3. CASE RefuseAnswer(h) \/ Finalize(h)
    BY <2>3, RespondingKeepsPatience DEF RefuseAnswer, Finalize, TypeOK, Session
  <2>4. CASE EnqueueAnswer(h)
    BY <2>4, AcceptingKeepsPatience DEF EnqueueAnswer
  <2>5. QED
    BY <2>1, <2>2, <2>3, <2>4 DEF HandlerStep
<1>2. CASE \E w \in Workers, e \in Entries : Deliver(w, e)
  BY <1>2, DeliverKeepsPatience DEF Deliver
<1>3. CASE \E w \in Workers : Scores(w)
  <2>1. PICK w \in Workers : Scores(w)
    BY <1>3
  <2>2. worker[w].pc = "evaluated" /\ worker'[w].pc = "return"
    BY <1>0, <2>1, ReturningFrame DEF Scores, PersistResult, ReturnNil, ReturnError
  <2>3. ~\E v \in Workers, e \in Entries : Deliver(v, e)
    BY <1>0, <2>2 DEF Deliver, WorkersTyped
  <2>4. QED
    BY <1>0, <2>1, <2>3, OnlyDeliverTakesOn, ScoringKeepsPatience
<1>4. CASE /\ ~\E h \in Handlers : HandlerStep(h)
           /\ ~\E w \in Workers, e \in Entries : Deliver(w, e)
           /\ ~\E w \in Workers : Scores(w)
  BY <1>0, <1>4, OthersAreQuiet, OnlyDeliverTakesOn, QuietKeepsPatience DEF Quiet
<1>5. QED
  BY <1>1, <1>2, <1>3, <1>4

(* The patient candidate's system is the pipeline, and starts in order.    *)
LEMMA Patience == ASSUME NoStalls PROVE PatientSpec => [](TypeOK /\ OwnerInv /\ PatientInv)
<1>1. Init => PatientInv
  <2> SUFFICES ASSUME Init PROVE PatientInv
    OBVIOUS
  <2>1. Outstanding = {}
    BY DEF Init, Outstanding, AbsentTurn
  <2>2. \A h \in Handlers : handler[h].pc = "idle"
    BY DEF Init, IdleHandler
  <2>3. OneThingAtATime /\ RequestsAreFresh /\ CopiesAreFresh
    BY <2>1, <2>2 DEF OneThingAtATime, RequestsAreFresh, CopiesAreFresh
  <2>4. OnlyAccepted
    BY DEF Init, OnlyAccepted, IdleWorker
  <2>5. CompletedPassed /\ EachPositionOnce
    BY DEF Init, CompletedPassed, EachPositionOnce, AbsentTurn, NewSession
  <2>6. QED
    BY <2>3, <2>4, <2>5 DEF PatientInv
<1>2. PatientSpec => Spec
  <2>1. [Next /\ Patient]_vars => [Next]_vars
    OBVIOUS
  <2>2. QED
    BY <2>1, PTL DEF PatientSpec, Spec
<1>3. QED
  BY <1>1, <1>2, PatientStep, TypeCorrect, Ownership, PTL DEF PatientSpec

(* An answer is evaluated for the question and the round it was given to.  *)
(* (service.go:1020, ProcessTurn evaluates against the session it loads)   *)
THEOREM AnswersAreGradedOnTheirQuestion ==
  ASSUME NoStalls PROVE PatientSpec => []GradedOnItsQuestion
<1>1. TypeOK /\ OwnerInv /\ PatientInv => GradedOnItsQuestion
  <2> SUFFICES ASSUME TypeOK, OwnerInv, PatientInv, NEW w \in Workers, NEW t \in Turns, Owns(w, t)
               PROVE  /\ worker[w].snap.question = turns[t].question
                      /\ worker[w].snap.round = turns[t].round
    BY DEF GradedOnItsQuestion
  <2>1. t \in Outstanding /\ Carries(w, t)
    BY DEF OwnerInv, OwnerOk, Outstanding, Carries, Owns
  <2>2. QED
    BY <2>1 DEF PatientInv, CopiesAreFresh, Here
<1>2. QED
  BY <1>1, Patience, PTL

(* No position of the interview is scored twice, and none is skipped.      *)
THEOREM PositionsAreScoredOnce ==
  ASSUME NoStalls PROVE PatientSpec => []EachPositionOnce
<1>1. PatientInv => EachPositionOnce
  BY DEF PatientInv
<1>2. QED
  BY <1>1, Patience, PTL

(* A finished interview stays finished, on the question it ended with.     *)
THEOREM FinishedStaysFinished ==
  ASSUME NoStalls PROVE PatientSpec => NeverReopened
<1>1. TypeOK /\ OwnerInv /\ PatientInv /\ [Next /\ Patient]_vars =>
        [session.flow = "COMPLETED" =>
           /\ session'.flow = "COMPLETED"
           /\ session'.question = session.question]_vars
  BY PatientStep
<1>2. QED
  BY <1>1, Patience, PTL DEF PatientSpec, NeverReopened
=============================================================================
