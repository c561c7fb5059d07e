------------------------------ MODULE Evaluation ------------------------------
(***************************************************************************)
(* The evaluation harness (internal/evalharness): a case says what a task  *)
(* is given and what its output is expected to hold, and RunCase sends the *)
(* task to the runtime and judges the answer.  A run reads its case once,  *)
(* at its start, and writes a trace and then its record, in statements of  *)
(* their own; the case may be saved again while the runtime is at work.    *)
(*                                                                         *)
(* A case is the checks it expects.  An output gives each field a value, a *)
(* set of words, or leaves it out.  Left out: suites, tags and archiving,  *)
(* which only lists look at, what a run is given (ContextEngine and        *)
(* ProviderConfigs have its context and its key), and its duration.        *)
(***************************************************************************)
EXTENDS Integers, Sequences, FiniteSets

CONSTANTS
  Fields,       \* paths of an output
  Words,        \* words a value is made of
  Expectations, \* sets of checks a case may be saved with
  EvalRuns,     \* RunCase requests, each made at most once
  MaxVersions   \* bound on how often a case is saved

ASSUME EvaluationAssumption ==
  /\ MaxVersions \in Nat
  /\ \A expected \in Expectations : IsFiniteSet(expected)

VARIABLES
  versions, \* the checks of the case, each time it was saved; the last are the row's
  trace,    \* the agent_traces row of each run
  evalRun,  \* each run: where it is and what it has read
  recorded  \* its evaluation_runs row

evaluationVars == <<versions, trace, evalRun, recorded>>

Missing == {"missing"}
Values == SUBSET Words
Outputs == [Fields -> Values \cup {Missing}]
NoOutput == [f \in Fields |-> Missing]

Checks == [field: Fields, op: {"required", "contains", "equals"}, value: Values]

TraceRow == [there: BOOLEAN, version: 0 .. MaxVersions, output: Outputs]
EvalRun == [pc: {"idle", "preview", "provider", "runtime", "trace", "judge", "error", "ended"},
            version: 0 .. MaxVersions, output: Outputs, traced: BOOLEAN, hungUp: BOOLEAN]
RunRow == [status: {"none", "passed", "failed", "error"}, version: 0 .. MaxVersions,
           output: Outputs, passed: Nat, traced: BOOLEAN]

EvaluationTypeOK ==
  /\ versions \in Seq(Expectations) /\ Len(versions) <= MaxVersions
  /\ trace \in [EvalRuns -> TraceRow]
  /\ evalRun \in [EvalRuns -> EvalRun]
  /\ recorded \in [EvalRuns -> RunRow]

InitEvaluation ==
  /\ versions = <<>>
  /\ trace = [q \in EvalRuns |-> [there |-> FALSE, version |-> 0, output |-> NoOutput]]
  /\ evalRun = [q \in EvalRuns |-> [pc |-> "idle", version |-> 0, output |-> NoOutput,
                                    traced |-> FALSE, hungUp |-> FALSE]]
  /\ recorded = [q \in EvalRuns |-> [status |-> "none", version |-> 0, output |-> NoOutput,
                                     passed |-> 0, traced |-> FALSE]]

-----------------------------------------------------------------------------
Holds(check, output) ==
  LET actual == output[check.field]
  IN /\ actual # Missing
     /\ CASE check.op = "required" -> actual # {}
          [] check.op = "contains" -> check.value \subseteq actual
          [] check.op = "equals"   -> actual = check.value

(* The outcome of each check; a case with none expects only an answer.     *)
EvaluateAssertions(output, expected) ==
  IF expected = {} THEN {[check |-> "runtime_ok", passed |-> TRUE]}
  ELSE {[check |-> c, passed |-> Holds(c, output)] : c \in expected}

StatusAndScore(assertions) ==
  LET passed == Cardinality({a \in assertions : a.passed})
  IN [status |-> IF passed = Cardinality(assertions) THEN "passed" ELSE "failed", passed |-> passed]

-----------------------------------------------------------------------------
SaveCase(expected) ==
  /\ Len(versions) < MaxVersions
  /\ versions' = Append(versions, expected)
  /\ UNCHANGED <<trace, evalRun, recorded>>

RunTo(q, pc) == evalRun' = [evalRun EXCEPT ![q].pc = pc]

GetCase(q) ==
  /\ evalRun[q].pc = "idle"
  /\ versions # <<>>
  /\ evalRun' = [evalRun EXCEPT ![q].pc = "preview", ![q].version = Len(versions)]
  /\ UNCHANGED <<versions, trace, recorded>>

(* The context and the provider; the run goes on only with both.           *)
PrepareRun(q) ==
  /\ \/ evalRun[q].pc = "preview" /\ RunTo(q, "provider")
     \/ evalRun[q].pc = "provider" /\ ~evalRun[q].hungUp /\ RunTo(q, "runtime")
     \/ evalRun[q].pc \in {"preview", "provider"} /\ RunTo(q, "error")
  /\ UNCHANGED <<versions, trace, recorded>>

RuntimeAnswers(q) ==
  /\ evalRun[q].pc = "runtime"
  /\ \/ /\ ~evalRun[q].hungUp
        /\ \E output \in Outputs :
             evalRun' = [evalRun EXCEPT ![q].pc = "trace", ![q].output = output]
     \/ RunTo(q, "error")
  /\ UNCHANGED <<versions, trace, recorded>>

(* Without its trace a run is recorded all the same.                       *)
InsertAgentTrace(q) ==
  /\ evalRun[q].pc = "trace"
  /\ \/ /\ ~evalRun[q].hungUp
        /\ trace' = [trace EXCEPT ![q] = [there |-> TRUE, version |-> evalRun[q].version,
                                          output |-> evalRun[q].output]]
        /\ evalRun' = [evalRun EXCEPT ![q].pc = "judge", ![q].traced = TRUE]
     \/ /\ UNCHANGED trace
        /\ RunTo(q, "judge")
  /\ UNCHANGED <<versions, recorded>>

(* Variant: the case is read again when the answer is there.               *)
ExpectedNow(run) == versions[Len(versions)]

(* The checks a run is judged by are those it read with its case.          *)
ExpectedOf(run) == versions[run.version]

RecordRun(q) ==
  LET run == evalRun[q]
      verdict == StatusAndScore(EvaluateAssertions(run.output, ExpectedOf(run)))
  IN /\ run.pc = "judge"
     /\ ~run.hungUp
     /\ recorded' = [recorded EXCEPT ![q] =
          [status |-> verdict.status, version |-> run.version, output |-> run.output,
           passed |-> verdict.passed, traced |-> run.traced]]
     /\ RunTo(q, "ended")
     /\ UNCHANGED <<versions, trace>>

recordError(q) ==
  /\ evalRun[q].pc = "error"
  /\ ~evalRun[q].hungUp
  /\ recorded' = [recorded EXCEPT ![q].status = "error", ![q].version = evalRun[q].version]
  /\ RunTo(q, "ended")
  /\ UNCHANGED <<versions, trace>>

(* The record cannot be written, or the process dies: a trace stays.       *)
RunLost(q) ==
  /\ evalRun[q].pc \notin {"idle", "ended"}
  /\ RunTo(q, "ended")
  /\ UNCHANGED <<versions, trace, recorded>>

(* The client hangs up, and the request's context ends with it.            *)
RunHangsUp(q) ==
  /\ evalRun[q].pc \notin {"idle", "ended"}
  /\ ~evalRun[q].hungUp
  /\ evalRun' = [evalRun EXCEPT ![q].hungUp = TRUE]
  /\ UNCHANGED <<versions, trace, recorded>>

NextEvaluation ==
  \/ \E expected \in Expectations : SaveCase(expected)
  \/ \E q \in EvalRuns :
       \/ GetCase(q)
       \/ PrepareRun(q)
       \/ RuntimeAnswers(q)
       \/ InsertAgentTrace(q)
       \/ RecordRun(q)
       \/ recordError(q)
       \/ RunLost(q)
       \/ RunHangsUp(q)

EvaluationSpec == InitEvaluation /\ [][NextEvaluation]_evaluationVars

-----------------------------------------------------------------------------
(* A run recorded as passed met every check of one version of its case,    *)
(* one recorded as failed missed at least one, and the trace it names has  *)
(* the same version and the same output, however often the case was saved  *)
(* again meanwhile.  (service.go:58 RunCase, assertions.go:18              *)
(* EvaluateAssertions, store.go:170 RecordRun)                             *)
VerdictMatchesTrace ==
  \A q \in EvalRuns :
    LET run == recorded[q]
        output == IF run.traced THEN trace[q].output ELSE run.output
        version == IF run.traced THEN trace[q].version ELSE run.version
    IN run.status \in {"passed", "failed"} =>
         /\ run.status = "passed" <=> \A c \in versions[version] : Holds(c, output)
         /\ run.traced => trace[q].there /\ run.version = version
=============================================================================
