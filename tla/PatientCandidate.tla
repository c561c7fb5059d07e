-------------------------- MODULE PatientCandidate --------------------------
(***************************************************************************)
(* AnswerPipeline under the client it is written for: a candidate who      *)
(* sends one request at a time, and none while an answer is outstanding.   *)
(* Nothing in the API enforces this (SubmitAnswer accepts answers in       *)
(* EVALUATING, Finalize accepts any open session); the browser client only *)
(* disables its button while the HTTP request runs.  The properties here   *)
(* are those the pipeline owes such a candidate and cannot give others.    *)
(***************************************************************************)
EXTENDS AnswerPipeline

Outstanding == {t \in Turns : turns[t].status \in {"queued", "running"}}

(* A request starts only when nothing else is going on.                    *)
Patient ==
  \A h \in Handlers :
    handler[h].pc = "idle" /\ handler'[h].pc # "idle" =>
      /\ Outstanding = {}
      /\ \A g \in Handlers : handler[g].pc = "idle"

PatientSpec == Init /\ [][Next /\ Patient]_vars /\ Fairness

(* The same when the only fault is the death of a worker process.          *)
OnlyCrashes == faults' # faults => \E w \in Workers : Crash(w)

CrashSpec == Init /\ [][Next /\ Patient /\ OnlyCrashes]_vars /\ Fairness

-----------------------------------------------------------------------------
(* An answer is evaluated for the question and the round it was given to:  *)
(* ProcessTurn evaluates against the session it loaded, not against the    *)
(* turn, so this rests on the session standing still until the turn ends.  *)
GradedOnItsQuestion ==
  \A w \in Workers, t \in Turns :
    Owns(w, t) => /\ worker[w].snap.question = turns[t].question
                  /\ worker[w].snap.round = turns[t].round

(* No position of the interview is scored twice, and none is skipped: a    *)
(* completed turn for each earlier question once a later one is reached.   *)
EachPositionOnce ==
  LET Answered == {t \in Turns : turns[t].status = "completed"} IN
  /\ \A t, u \in Answered :
       turns[t].question = turns[u].question /\ turns[t].round = turns[u].round => t = u
  /\ \A q \in 1 .. session.question - 1 :
       \E t \in Answered : turns[t].question = q

(* A finished interview stays finished: no worker's late write and no late *)
(* failure takes its flow out of COMPLETED or moves its position.          *)
NeverReopened ==
  [][session.flow = "COMPLETED" =>
       /\ session'.flow = "COMPLETED"
       /\ session'.question = session.question]_vars

(* As long as nothing fails every accepted answer is eventually scored or  *)
(* marked failed: a candidate who polls the turn is told.                  *)
EveryAnswerSettles ==
  [](faults = 0) => \A t \in Turns : turns[t].status = "queued" ~> Finished(t)

(* A turn that a worker claimed survives one fault of any kind (the death  *)
(* of the worker, a failed statement, a dead-lettered entry): the reclaim  *)
(* of stale turns brings it back until it is finished.                     *)
ClaimedTurnSettles ==
  \A t \in Turns : turns[t].status = "running" ~> Finished(t)

(* The same of an accepted answer, claimed or not: the pipeline recovers   *)
(* and retries, says the README.  It does not when a worker dies between   *)
(* TryLock and claimTurn: see the run crash_stuck.                         *)
AcceptedAnswerSettles ==
  \A t \in Turns : turns[t].status = "queued" ~> Finished(t)
=============================================================================
