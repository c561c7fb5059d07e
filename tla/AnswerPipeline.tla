--------------------------- MODULE AnswerPipeline ---------------------------
(***************************************************************************)
(* The life of the answers of one interview session, from the API call     *)
(* that accepts an answer to the worker that writes its evaluation back    *)
(* (internal/interview/service.go).  Three kinds of processes share the    *)
(* PostgreSQL rows of the session and of its turns, and a few Redis keys:  *)
(*                                                                         *)
(*   Handlers  API requests: SubmitAnswer and Finalize.  Each loads the    *)
(*             session first and writes later, from what it loaded.        *)
(*   Workers   goroutines that run ProcessTurn on the messages the stream  *)
(*             delivers to them.                                           *)
(*   reclaimer the loop that puts stale running turns back in the queue.   *)
(*                                                                         *)
(* A step of the model is one SQL statement, one transaction or one Redis  *)
(* command, with the local decisions around it.                            *)
(*                                                                         *)
(* What is abstracted.  The transport (outbox row, stream entry, consumer  *)
(* group) is a set of unacknowledged entries, any of which may be          *)
(* delivered again at any time; modules Outbox and StreamGroup detail it.  *)
(* total_score is kept as credits[t], the number of times the score of     *)
(* turn t was added to it.  An evaluation is whether it asks for a         *)
(* follow-up.  Best-effort writes nobody reads back here (runtime          *)
(* snapshot, agent trace, the outbox rows of events no consumer handles)   *)
(* are left out.                                                           *)
(***************************************************************************)
EXTENDS InterviewStates, Integers

CONSTANTS
  Turns,          \* ids store.NewID can draw for turns
  Handlers,       \* concurrent API requests on this session
  Workers,        \* goroutines calling ProcessTurn
  Answers,        \* answer texts, identified with their hashes
  Requests,       \* request ids a client may choose; without one, auto_<hash>
  NumQuestions,   \* published questions of the session's type
  MaxFollowUps,   \* max_follow_ups of the session
  MaxEntries,     \* stream entries a turn may have at a time
  MaxFaults,      \* bound on faults: crashes, failed statements, stalls
  MaxStalls       \* bound on faults at which a live worker may outlast a time limit

ASSUME PipelineAssumption ==
  /\ NumQuestions \in Nat \ {0}
  /\ MaxFollowUps \in Nat \ {0}
  /\ MaxFaults \in Nat
  /\ MaxEntries \in Nat \ {0}
  /\ MaxStalls \in Nat
  /\ "none" \notin Turns \cup Workers \cup Answers \cup Requests

None == "none"
EntryNos == 1 .. MaxEntries
Entries == Turns \X EntryNos

VARIABLES
  session,      \* the interview_sessions row, without its score
  credits,      \* how often the score of each turn is in total_score
  turns,        \* the interview_turns rows; status "absent": no such row
  handler,      \* each API request: what it does and what it loaded
  worker,       \* each worker: where in ProcessTurn, and its local variables
  lock,         \* lock:turn:<id>, the worker that set it or None
  flight,       \* single-flight locks of the turns' evaluations: set or not
  entries,      \* entries of the stream not yet acknowledged
  reclaimed,    \* turns reclaimed whose outbox row is still to be reset
  faults        \* crashes, failed statements and stalls so far

vars == <<session, credits, turns, handler, worker, lock, flight, entries, reclaimed, faults>>

-----------------------------------------------------------------------------
(* Rows and local variables.                                               *)

Session == [status: SessionStatus, flow: FlowStatus,
            question: Nat, round: Nat, followUps: Nat]

NewSession == [status |-> "READY", flow |-> "ASKING",
               question |-> 1, round |-> 0, followUps |-> 0]

(* Does the evaluation ask for a follow-up, with a question to ask?        *)
Outcomes == {"follow_up", "advance"}

Turn == [status: TurnStatus \cup {"absent"}, question: Nat, round: Nat,
         answer: Answers \cup {None}, request: Requests \cup Answers \cup {None}]

AbsentTurn == [status |-> "absent", question |-> 0, round |-> 0,
               answer |-> None, request |-> None]

Handler == [pc: {"idle", "submit", "finalize"}, question: Nat, round: Nat]

IdleHandler == [pc |-> "idle", question |-> 0, round |-> 0]

WorkerPc == {"idle", "loaded", "locked", "claimed", "evaluating", "evaluatingAlone",
             "waiting", "evaluated", "requeue", "failing", "failTurn", "failSession",
             "return"}

Worker == [pc: WorkerPc, turn: Turns \cup {None}, no: Nat, snap: Session,
           seen: TurnStatus \cup {"absent"}, outcome: Outcomes \cup {None},
           locked: BOOLEAN, ack: BOOLEAN]

IdleWorker == [pc |-> "idle", turn |-> None, no |-> 0, snap |-> NewSession,
               seen |-> "absent", outcome |-> None, locked |-> FALSE, ack |-> FALSE]

(* Between claimTurn and the end of its turn's processing a worker owns a  *)
(* running turn.                                                           *)
Owns(w, t) ==
  /\ worker[w].turn = t
  /\ worker[w].pc \in {"claimed", "evaluating", "evaluatingAlone", "waiting",
                       "evaluated", "requeue", "failing", "failTurn"}

HoldsLock(w, t) == worker[w].turn = t /\ worker[w].locked

Finished(t) == turns[t].status \in {"completed", "failed"}

Init ==
  /\ session = NewSession
  /\ credits = [t \in Turns |-> 0]
  /\ turns = [t \in Turns |-> AbsentTurn]
  /\ handler = [h \in Handlers |-> IdleHandler]
  /\ worker = [w \in Workers |-> IdleWorker]
  /\ lock = [t \in Turns |-> None]
  /\ flight = [t \in Turns |-> FALSE]
  /\ entries = {}
  /\ reclaimed = {}
  /\ faults = 0

-----------------------------------------------------------------------------
(* API requests.                                                           *)

Load(h, pc) ==
  handler' = [handler EXCEPT ![h] = [pc |-> pc, question |-> session.question,
                                     round |-> session.round]]

Respond(h) == handler' = [handler EXCEPT ![h] = IdleHandler]

(* SubmitAnswer up to its state checks, all of them on the loaded session. *)
LoadForSubmit(h) ==
  /\ handler[h].pc = "idle"
  /\ session.status # "FINISHED" /\ session.flow # "COMPLETED"
  /\ validateSessionTransition(session.status, "IN_PROGRESS")
  /\ validateFlowTransition(session.flow, "EVALUATING")
  /\ Load(h, "submit")
  /\ UNCHANGED <<session, credits, turns, worker, lock, flight, entries, reclaimed, faults>>

(* The rows that make findReplay answer, and the INSERT fail: the UNIQUE   *)
(* constraints on (request_id) and (question_number, answer_round, hash).  *)
Replays(h, request, answer) ==
  {t \in Turns : /\ turns[t].status # "absent"
                 /\ \/ turns[t].request = request
                    \/ /\ turns[t].question = handler[h].question
                       /\ turns[t].round = handler[h].round
                       /\ turns[t].answer = answer}

(* The transaction of enqueueAnswer: the turn and its message are inserted *)
(* whatever has become of the session, which is moved unless COMPLETED.    *)
EnqueueAnswer(h) ==
  \E t \in Turns, answer \in Answers :
    \E request \in Requests \cup {answer} :
      /\ handler[h].pc = "submit"
      /\ turns[t].status = "absent"
      /\ Replays(h, request, answer) = {}
      /\ turns' = [turns EXCEPT ![t] =
           [status |-> "queued", question |-> handler[h].question,
            round |-> handler[h].round, answer |-> answer, request |-> request]]
      /\ session' = IF session.flow = "COMPLETED" THEN session
                    ELSE [session EXCEPT !.status = "IN_PROGRESS", !.flow = "EVALUATING"]
      /\ entries' = entries \cup {<<t, 1>>}
      /\ Respond(h)
      /\ UNCHANGED <<credits, worker, lock, flight, reclaimed, faults>>

(* A duplicate, a stale answer or a failed transaction: nothing changes.   *)
RefuseAnswer(h) ==
  /\ handler[h].pc = "submit"
  /\ Respond(h)
  /\ UNCHANGED <<session, credits, turns, worker, lock, flight, entries, reclaimed, faults>>

LoadForFinalize(h) ==
  /\ handler[h].pc = "idle"
  /\ validateSessionTransition(session.status, "FINISHED")
  /\ validateFlowTransition(session.flow, "COMPLETED")
  /\ Load(h, "finalize")
  /\ UNCHANGED <<session, credits, turns, worker, lock, flight, entries, reclaimed, faults>>

(* The UPDATE of Finalize has no condition on the state it overwrites.     *)
Finalize(h) ==
  /\ handler[h].pc = "finalize"
  /\ session' = [session EXCEPT !.status = "FINISHED", !.flow = "COMPLETED"]
  /\ Respond(h)
  /\ UNCHANGED <<credits, turns, worker, lock, flight, entries, reclaimed, faults>>

-----------------------------------------------------------------------------
(* ProcessTurn.                                                            *)

Goto(w, pc) == worker' = [worker EXCEPT ![w].pc = pc]

(* The error ProcessTurn returns decides whether the entry is acknowledged. *)
Returning(w, ack) ==
  worker' = [worker EXCEPT ![w] =
    [IdleWorker EXCEPT !.pc = "return", !.turn = worker[w].turn, !.no = worker[w].no,
                       !.locked = worker[w].locked, !.ack = ack]]
ReturnNil(w)   == Returning(w, TRUE)
ReturnError(w) == Returning(w, FALSE)

(* An entry is delivered, first by ReadGroup or again by ClaimPending, and *)
(* the turn and the session are loaded.                                    *)
Deliver(w, e) ==
  LET t == e[1] IN
  /\ worker[w].pc = "idle"
  /\ e \in entries
  /\ worker' = [worker EXCEPT ![w] =
       [pc |-> IF Finished(t) THEN "return" ELSE "loaded", turn |-> t, no |-> e[2],
        snap |-> session, seen |-> "absent", outcome |-> None,
        locked |-> FALSE, ack |-> Finished(t)]]
  /\ UNCHANGED <<session, credits, turns, handler, lock, flight, entries, reclaimed, faults>>

(* Variant: SET instead of SETNX.                                          *)
TryLockOverwrites(w) ==
  /\ worker[w].pc = "loaded"
  /\ lock' = [lock EXCEPT ![worker[w].turn] = w]
  /\ worker' = [worker EXCEPT ![w].pc = "locked", ![w].locked = TRUE]
  /\ UNCHANGED <<session, credits, turns, handler, flight, entries, reclaimed, faults>>

(* TryLock.  A lock that is held makes ProcessTurn return nil.             *)
TryLock(w) ==
  LET t == worker[w].turn IN
  /\ worker[w].pc = "loaded"
  /\ IF lock[t] = None
     THEN /\ lock' = [lock EXCEPT ![t] = w]
          /\ worker' = [worker EXCEPT ![w].pc = "locked", ![w].locked = TRUE]
     ELSE /\ ReturnNil(w)
          /\ UNCHANGED lock
  /\ UNCHANGED <<session, credits, turns, handler, flight, entries, reclaimed, faults>>

(* Variant: the UPDATE does not ask for a queued turn.                     *)
claimTurnUnchecked(w) ==
  /\ worker[w].pc = "locked"
  /\ turns' = [turns EXCEPT ![worker[w].turn].status = "running"]
  /\ Goto(w, "claimed")
  /\ UNCHANGED <<session, credits, handler, lock, flight, entries, reclaimed, faults>>

claimTurn(w) ==
  LET t == worker[w].turn IN
  /\ worker[w].pc = "locked"
  /\ IF turns[t].status = "queued"
     THEN /\ turns' = [turns EXCEPT ![t].status = "running"]
          /\ Goto(w, "claimed")
     ELSE /\ ReturnNil(w)
          /\ UNCHANGED turns
  /\ UNCHANGED <<session, credits, handler, lock, flight, entries, reclaimed, faults>>

(* flights.Execute: the flight lock, or a wait for its holder's result.  A *)
(* replayed result is an evaluation with the same outcome.                 *)
EnterFlight(w) ==
  LET t == worker[w].turn IN
  /\ worker[w].pc = "claimed"
  /\ flight' = [flight EXCEPT ![t] = TRUE]
  /\ Goto(w, IF flight[t] THEN "waiting" ELSE "evaluating")
  /\ UNCHANGED <<session, credits, turns, handler, lock, entries, reclaimed, faults>>

GotResult(w, outcome) ==
  worker' = [worker EXCEPT ![w].pc = "evaluated", ![w].outcome = outcome]

(* evaluateAnswer returns; a flight lock that was set is deleted, whoever  *)
(* holds it by now.                                                        *)
LeaveFlight(w) ==
  flight' = IF worker[w].pc = "evaluating"
            THEN [flight EXCEPT ![worker[w].turn] = FALSE] ELSE flight

Evaluate(w) ==
  /\ worker[w].pc \in {"evaluating", "evaluatingAlone"}
  /\ \E outcome \in Outcomes : GotResult(w, outcome)
  /\ LeaveFlight(w)
  /\ UNCHANGED <<session, credits, turns, handler, lock, entries, reclaimed, faults>>

(* Variant: the failure is returned, the turn not marked.                  *)
EvaluateFailsUnmarked(w) ==
  /\ worker[w].pc \in {"evaluating", "evaluatingAlone"}
  /\ ReturnNil(w)
  /\ LeaveFlight(w)
  /\ UNCHANGED <<session, credits, turns, handler, lock, entries, reclaimed, faults>>

EvaluateFails(w) ==
  /\ worker[w].pc \in {"evaluating", "evaluatingAlone"}
  /\ Goto(w, "failing")
  /\ LeaveFlight(w)
  /\ UNCHANGED <<session, credits, turns, handler, lock, entries, reclaimed, faults>>

(* The holder's result appears, or 20 seconds pass: ErrInFlight.           *)
PollFlight(w) ==
  /\ worker[w].pc = "waiting"
  /\ \/ \E outcome \in Outcomes : GotResult(w, outcome)
     \/ Goto(w, "requeue")
  /\ UNCHANGED <<session, credits, turns, handler, lock, flight, entries, reclaimed, faults>>

(* After ErrInFlight the turn is put back without a look at its status.    *)
RequeueTurn(w) ==
  /\ worker[w].pc = "requeue"
  /\ turns' = [turns EXCEPT ![worker[w].turn].status = "queued"]
  /\ ReturnError(w)
  /\ UNCHANGED <<session, credits, handler, lock, flight, entries, reclaimed, faults>>

(* A follow-up on the question of session s; its next question.            *)
FollowUp(s) == [status |-> "IN_PROGRESS", flow |-> "FOLLOW_UP", question |-> s.question,
                round |-> s.round + 1, followUps |-> s.followUps + 1]

Advance(s, question) == [status |-> "IN_PROGRESS", flow |-> "ASKING", question |-> question,
                         round |-> 0, followUps |-> 0]

(* Variants: one follow-up too many; a finished session keeps its status;  *)
(* the next question is counted with the follow-ups.                       *)
NextSessionOneMore(s, outcome) ==
  IF outcome = "follow_up" /\ s.followUps <= MaxFollowUps THEN FollowUp(s)
  ELSE IF s.question < NumQuestions THEN Advance(s, s.question + 1)
  ELSE [s EXCEPT !.status = "FINISHED", !.flow = "COMPLETED", !.round = @ + 1]

NextSessionKeepsStatus(s, outcome) ==
  IF outcome = "follow_up" /\ s.followUps < MaxFollowUps THEN FollowUp(s)
  ELSE IF s.question < NumQuestions THEN Advance(s, s.question + 1)
  ELSE [s EXCEPT !.flow = "COMPLETED", !.round = @ + 1]

NextSessionSkips(s, outcome) ==
  IF outcome = "follow_up" /\ s.followUps < MaxFollowUps THEN FollowUp(s)
  ELSE IF s.question < NumQuestions THEN Advance(s, s.question + 1 + s.followUps)
  ELSE [s EXCEPT !.status = "FINISHED", !.flow = "COMPLETED", !.round = @ + 1]

(* Where persistAnswerResult takes a session, from the copy loaded before  *)
(* the claim and the evaluation.                                           *)
NextSession(s, outcome) ==
  IF outcome = "follow_up" /\ s.followUps < MaxFollowUps THEN FollowUp(s)
  ELSE IF s.question < NumQuestions THEN Advance(s, s.question + 1)
  ELSE [s EXCEPT !.status = "FINISHED", !.flow = "COMPLETED", !.round = @ + 1]

Persistable(s, next) ==
  /\ validateTurnTransition("running", "completed")
  /\ validateSessionTransition(s.status, next.status)
  /\ validateFlowTransition(s.flow, next.flow)

(* persistAnswerResult: the turn is written if it still is running, the    *)
(* session in any case, in one transaction.                                *)
PersistResult(w) ==
  LET t    == worker[w].turn
      next == NextSession(worker[w].snap, worker[w].outcome)
  IN
  /\ worker[w].pc = "evaluated"
  /\ IF Persistable(worker[w].snap, next)
     THEN /\ turns' = IF turns[t].status = "running"
                      THEN [turns EXCEPT ![t].status = "completed"] ELSE turns
          /\ session' = next
          /\ credits' = [credits EXCEPT ![t] = @ + 1]
          /\ ReturnNil(w)
     ELSE /\ ReturnError(w)
          /\ UNCHANGED <<turns, session, credits>>
  /\ UNCHANGED <<handler, lock, flight, entries, reclaimed, faults>>

(* markTurnFailed: load and validate, then the turn, then the session.     *)
LoadForFailure(w) ==
  LET t == worker[w].turn IN
  /\ worker[w].pc = "failing"
  /\ IF /\ validateTurnTransition(turns[t].status, "failed")
        /\ validateSessionTransition(session.status, "FAILED")
     THEN worker' = [worker EXCEPT ![w].pc = "failTurn", ![w].seen = turns[t].status]
     ELSE ReturnNil(w)
  /\ UNCHANGED <<session, credits, turns, handler, lock, flight, entries, reclaimed, faults>>

FailTurn(w) ==
  LET t == worker[w].turn IN
  /\ worker[w].pc = "failTurn"
  /\ IF turns[t].status = worker[w].seen
     THEN /\ turns' = [turns EXCEPT ![t].status = "failed"]
          /\ Goto(w, "failSession")
     ELSE /\ ReturnNil(w)
          /\ UNCHANGED turns
  /\ UNCHANGED <<session, credits, handler, lock, flight, entries, reclaimed, faults>>

(* Variant: the status of the turn is written to the session.              *)
FailSessionLikeTurn(w) ==
  /\ worker[w].pc = "failSession"
  /\ session' = [session EXCEPT !.status = "failed"]
  /\ ReturnNil(w)
  /\ UNCHANGED <<credits, turns, handler, lock, flight, entries, reclaimed, faults>>

FailSession(w) ==
  /\ worker[w].pc = "failSession"
  /\ session' = [session EXCEPT !.status = "FAILED"]
  /\ ReturnNil(w)
  /\ UNCHANGED <<credits, turns, handler, lock, flight, entries, reclaimed, faults>>

(* The deferred Unlock compares the token; handleMessages acknowledges.    *)
Return(w) ==
  LET t == worker[w].turn
      e == <<worker[w].turn, worker[w].no>>
  IN
  /\ worker[w].pc = "return"
  /\ lock' = IF worker[w].locked /\ lock[t] = w THEN [lock EXCEPT ![t] = None] ELSE lock
  /\ entries' = IF worker[w].ack THEN entries \ {e} ELSE entries
  /\ worker' = [worker EXCEPT ![w] = IdleWorker]
  /\ UNCHANGED <<session, credits, turns, handler, flight, reclaimed, faults>>

-----------------------------------------------------------------------------
(* The passing of time: TTLs and the periodic loops.                       *)

(* A time limit passes under the eyes of a worker, paused for minutes.     *)
Stall == faults < MaxStalls /\ faults' = faults + 1

(* What passes without a fault, and what takes a stall.                    *)
InTime(unobserved) == IF unobserved THEN UNCHANGED faults ELSE Stall

(* The turn lock lives 2 minutes.                                          *)
LockExpires(t) ==
  /\ lock[t] # None
  /\ InTime(~HoldsLock(lock[t], t))
  /\ lock' = [lock EXCEPT ![t] = None]
  /\ UNCHANGED <<session, credits, turns, handler, worker, flight, entries, reclaimed>>

(* The flight lock lives 65 seconds.                                       *)
FlightExpires(t) ==
  /\ flight[t]
  /\ InTime(~\E w \in Workers : worker[w].turn = t /\ worker[w].pc = "evaluating")
  /\ flight' = [flight EXCEPT ![t] = FALSE]
  /\ UNCHANGED <<session, credits, turns, handler, worker, lock, entries, reclaimed>>

(* Without stalls a turn found stale was left by a worker that died or     *)
(* failed over 2 minutes ago.  The locks it set before or right after its  *)
(* claim have expired, and so has the redelivery of its entry, after 30    *)
(* seconds idle, come and gone.                                            *)
Abandoned(t) == lock[t] = None /\ ~flight[t]

(* Variants: old turns of any status are put back; the outbox row is not.  *)
ReclaimAnyTurn(t) ==
  /\ turns[t].status \notin {"absent", "queued"}
  /\ InTime(Abandoned(t))
  /\ turns' = [turns EXCEPT ![t].status = "queued"]
  /\ reclaimed' = reclaimed \cup {t}
  /\ UNCHANGED <<session, credits, handler, worker, lock, flight, entries>>

ReclaimWithoutMessage(t) ==
  /\ turns[t].status = "running"
  /\ InTime(Abandoned(t))
  /\ turns' = [turns EXCEPT ![t].status = "queued"]
  /\ UNCHANGED <<session, credits, handler, worker, lock, flight, entries, reclaimed>>

(* reclaimStaleTurns: a turn 2 minutes in running goes back to queued ...  *)
ReclaimStaleTurn(t) ==
  /\ turns[t].status = "running"
  /\ InTime(Abandoned(t))
  /\ turns' = [turns EXCEPT ![t].status = "queued"]
  /\ reclaimed' = reclaimed \cup {t}
  /\ UNCHANGED <<session, credits, handler, worker, lock, flight, entries>>

(* ... and its outbox row back to pending: it is published once more.      *)
ReclaimMessage(t) ==
  /\ t \in reclaimed
  /\ \E n \in EntryNos :
       /\ <<t, n>> \notin entries
       /\ \A w \in Workers : ~(worker[w].turn = t /\ worker[w].no = n)
       /\ entries' = entries \cup {<<t, n>>}
  /\ reclaimed' = reclaimed \ {t}
  /\ UNCHANGED <<session, credits, turns, handler, worker, lock, flight, faults>>

-----------------------------------------------------------------------------
(* Faults.                                                                 *)

Fault == faults < MaxFaults /\ faults' = faults + 1

(* A worker process dies: what it wrote stays, its locks until they expire. *)
Crash(w) ==
  /\ worker[w].pc # "idle"
  /\ Fault
  /\ worker' = [worker EXCEPT ![w] = IdleWorker]
  /\ UNCHANGED <<session, credits, turns, handler, lock, flight, entries, reclaimed>>

(* A statement or a Redis command fails.  ProcessTurn returns the error of *)
(* its own statements and ignores those of markTurnFailed; without Redis   *)
(* the evaluation runs outside the flight; handleMessages only logs a      *)
(* failed acknowledgement, and a failed Unlock leaves the lock to its TTL. *)
StatementFails(w) ==
  /\ Fault
  /\ \/ /\ worker[w].pc \in {"loaded", "locked", "evaluated", "requeue", "return"}
        /\ ReturnError(w)
     \/ /\ worker[w].pc \in {"failing", "failTurn", "failSession"}
        /\ ReturnNil(w)
     \/ /\ worker[w].pc = "claimed"
        /\ Goto(w, "evaluatingAlone")
     \/ /\ worker[w].pc = "return"
        /\ worker' = [worker EXCEPT ![w].locked = FALSE]
  /\ UNCHANGED <<session, credits, turns, handler, lock, flight, entries, reclaimed>>

(* deadLetterPoisonMessages moves an entry out after three deliveries that *)
(* were not acknowledged; without faults the second is (TryLock fails).    *)
DeadLetter(e) ==
  /\ e \in entries
  /\ Fault
  /\ entries' = entries \ {e}
  /\ UNCHANGED <<session, credits, turns, handler, worker, lock, flight, reclaimed>>

(* The reclaimer dies, or fails, between its two statements.               *)
ReclaimerCrash(t) ==
  /\ t \in reclaimed
  /\ Fault
  /\ reclaimed' = reclaimed \ {t}
  /\ UNCHANGED <<session, credits, turns, handler, worker, lock, flight, entries>>

-----------------------------------------------------------------------------

HandlerStep(h) ==
  \/ LoadForSubmit(h) \/ EnqueueAnswer(h) \/ RefuseAnswer(h)
  \/ LoadForFinalize(h) \/ Finalize(h)

WorkerStep(w) ==
  \/ TryLock(w) \/ claimTurn(w) \/ EnterFlight(w) \/ Evaluate(w)
  \/ EvaluateFails(w) \/ PollFlight(w) \/ RequeueTurn(w) \/ PersistResult(w)
  \/ LoadForFailure(w) \/ FailTurn(w) \/ FailSession(w) \/ Return(w)

Next ==
  \/ \E h \in Handlers : HandlerStep(h)
  \/ \E w \in Workers : WorkerStep(w) \/ Crash(w) \/ StatementFails(w)
  \/ \E w \in Workers, e \in Entries : Deliver(w, e)
  \/ \E t \in Turns : \/ LockExpires(t) \/ FlightExpires(t)
                      \/ ReclaimStaleTurn(t) \/ ReclaimMessage(t) \/ ReclaimerCrash(t)
  \/ \E e \in Entries : DeadLetter(e)

Spec == Init /\ [][Next]_vars

(* Goroutines run on, timers fire, and the stream, read from its oldest    *)
(* entry, passes none over for ever.  Clients owe the system nothing.      *)
Fairness ==
  /\ \A w \in Workers : WF_vars(WorkerStep(w))
  /\ \A e \in Entries : SF_vars(\E w \in Workers : Deliver(w, e))
  /\ \A t \in Turns : /\ WF_vars(LockExpires(t)) /\ WF_vars(FlightExpires(t))
                      /\ WF_vars(ReclaimStaleTurn(t)) /\ WF_vars(ReclaimMessage(t))

FairSpec == Spec /\ Fairness

-----------------------------------------------------------------------------
(* Properties.                                                             *)

TypeOK ==
  /\ session \in Session
  /\ credits \in [Turns -> Nat]
  /\ turns \in [Turns -> Turn]
  /\ handler \in [Handlers -> Handler]
  /\ worker \in [Workers -> Worker]
  /\ \A w \in Workers : worker[w].pc # "idle" => worker[w].turn \in Turns
  /\ lock \in [Turns -> Workers \cup {None}]
  /\ flight \in [Turns -> BOOLEAN]
  /\ entries \subseteq Entries
  /\ reclaimed \subseteq Turns
  /\ faults \in Nat

(* However requests and workers interleave, and even when they stall: no   *)
(* turn is ever asked beyond max_follow_ups on its question, and while the *)
(* session is open its round counts its follow-ups.  Workers write back    *)
(* positions computed from old copies, so this speaks of those copies too. *)
InBounds(s) ==
  s.flow # "COMPLETED" => s.round = s.followUps /\ s.followUps <= MaxFollowUps

RoundsBounded ==
  /\ InBounds(session)
  /\ \A t \in Turns : turns[t].round <= MaxFollowUps

(* Status and flow are written together or the flow is kept: a session     *)
(* reads FINISHED only with its flow COMPLETED, and a COMPLETED flow       *)
(* belongs to a session that is over.  GenerateReport relies on it.        *)
StatusMatchesFlow ==
  /\ session.status = "FINISHED" => session.flow = "COMPLETED"
  /\ session.flow = "COMPLETED" => session.status \in {"FINISHED", "FAILED"}

(* No two workers process the same turn at once (as long as none outlasts  *)
(* the lock): redelivery, duplicate entries, crashes and reclaims included. *)
OneOwner ==
  \A t \in Turns, v, w \in Workers : Owns(v, t) /\ Owns(w, t) => v = w

(* total_score holds the score of each completed turn exactly once, and no *)
(* other: a crash, a redelivery or a reclaim never adds one twice.  It is  *)
(* violated once a worker outlasts its lock, as MaxStalls lets one.        *)
ScoredOnce ==
  \A t \in Turns : credits[t] = IF turns[t].status = "completed" THEN 1 ELSE 0

(* The pipeline without stalls implements AnswerLedger: queued and running *)
(* are the same to a candidate, and requeueing is invisible.               *)
Booked(status) ==
  CASE status = "absent"               -> "unknown"
    [] status \in {"queued", "running"} -> "accepted"
    [] status = "completed"            -> "scored"
    [] status = "failed"               -> "failed"

book == [t \in Turns |-> Booked(turns[t].status)]

Ledger == INSTANCE AnswerLedger WITH Turns <- Turns, book <- book, credits <- credits

ImplementsLedger == Ledger!Spec

(* The tables of state_machine.go hold of every step of the session row,   *)
(* as the README says of legal transitions.  They do not: see the runs.    *)
SessionTransitionsLegal ==
  [][/\ validateSessionTransition(session.status, session'.status)
     /\ validateFlowTransition(session.flow, session'.flow)]_vars
=============================================================================
