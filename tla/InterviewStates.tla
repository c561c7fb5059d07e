-------------------------- MODULE InterviewStates --------------------------
(***************************************************************************)
(* The three transition tables of internal/interview/state_machine.go and  *)
(* the functions that validate a step against them.  A table is the set of *)
(* its <<from, to>> pairs; a step to the same state is always accepted.    *)
(***************************************************************************)

SessionStatus == {"READY", "IN_PROGRESS", "FINISHED", "FAILED"}
FlowStatus    == {"INIT", "ASKING", "EVALUATING", "FOLLOW_UP", "COMPLETED"}
TurnStatus    == {"queued", "running", "completed", "failed"}

sessionTransitions ==
  ({"READY"} \X {"IN_PROGRESS", "FINISHED", "FAILED"})
    \cup ({"IN_PROGRESS"} \X {"FINISHED", "FAILED"})

flowTransitions ==
  ({"INIT"} \X {"ASKING", "COMPLETED"})
    \cup ({"ASKING"} \X {"EVALUATING", "FOLLOW_UP", "COMPLETED"})
    \cup ({"EVALUATING"} \X {"ASKING", "FOLLOW_UP", "COMPLETED"})
    \cup ({"FOLLOW_UP"} \X {"EVALUATING", "ASKING", "COMPLETED"})

turnTransitions ==
  ({"queued"} \X {"running", "completed", "failed"})
    \cup ({"running"} \X {"queued", "completed", "failed"})

validateSessionTransition(from, to) == from = to \/ <<from, to>> \in sessionTransitions
validateFlowTransition(from, to)    == from = to \/ <<from, to>> \in flowTransitions
validateTurnTransition(from, to)    == from = to \/ <<from, to>> \in turnTransitions
=============================================================================
