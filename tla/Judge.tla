-------------------------------- MODULE Judge --------------------------------
(***************************************************************************)
(* The code judge (internal/coding): submissions are queued in             *)
(* code_submissions, the judge loops of the worker processes claim them in *)
(* batches, evaluate one after the other in a container or on the host,    *)
(* and write the verdict with a trace.                                     *)
(*                                                                         *)
(* A step is one SQL statement, one transaction, one docker command or one *)
(* run of the submitted program.  A program is what it does on each test   *)
(* case of its question; submissions are numbered as they are created.     *)
(* All are in one language: containers are named after the language, so    *)
(* languages do not meet.  A question cannot be deleted while it has       *)
(* submissions (foreign key), so that branch of the worker is left out.    *)
(***************************************************************************)
EXTENDS Naturals, Sequences, FiniteSets, FiniteSetsExt

CONSTANTS
  Judges,          \* judge loops, one per worker process
  Hosts,           \* docker daemons
  Host,            \* the daemon each judge uses
  Modes,           \* values of CODING_JUDGE_MODE in use
  Tasks,           \* programs with the weights of their test cases
  MaxSubmissions,  \* bound on submissions
  BatchSize,       \* CODING_JUDGE_BATCH_SIZE
  PreCreated,      \* whether the warm containers exist at the start
  MaxFaults        \* bound on crashes and failed commands

(* What a program does on a test case: the right output, a wrong one, a    *)
(* non-zero exit, one whose stderr reads like the compiler's, no exit in   *)
(* time, or none even of its children once it has been killed.             *)
Outcomes == {"right", "wrong", "crash", "reject", "slow", "lingers"}

ASSUME JudgeAssumption ==
  /\ Host \in [Judges -> Hosts]
  /\ Modes \subseteq {"docker", "docker_warm", "native_trusted", "disabled"}
  /\ \A t \in Tasks : /\ t.does \in Seq(Outcomes)
                      /\ t.weights \in Seq(Nat \ {0})
                      /\ Len(t.does) = Len(t.weights)
  /\ {MaxSubmissions, BatchSize, MaxFaults} \subseteq Nat
  /\ PreCreated \in BOOLEAN

VARIABLES
  row,         \* code_submissions: status, program, score as passed of total weight
  traces,      \* rows of code_evaluation_traces of each submission
  judge,       \* each judge: its mode, step, batch, submission and running totals
  container,   \* the warm container of each host: the submission whose source it has
  faults,      \* crashes and failed commands so far
  disturbed    \* history: submissions in whose evaluation docker failed

vars == <<row, traces, judge, container, faults, disturbed>>

Submissions == 1 .. MaxSubmissions
None == 0

Verdicts == {"accepted", "wrong_answer", "runtime_error",
             "time_limit_exceeded", "compile_error", "system_error"}

Row == [status: {"absent", "queued", "running"} \cup Verdicts,
        task: Tasks \cup {<<>>}, passed: Nat, total: Nat]

Evaluating == {"start", "copy", "run", "stop", "report"}

Judge == [mode: Modes, pc: {"idle", "claiming", "claimed", "next"} \cup Evaluating,
          batch: SUBSET Submissions, at: Submissions \cup {None}, case: Nat,
          verdict: Verdicts \cup {"none"}, passed: Nat, total: Nat]

IdleJudge(mode) == [mode |-> mode, pc |-> "idle", batch |-> {}, at |-> None, case |-> 0,
                    verdict |-> "none", passed |-> 0, total |-> 0]

Container == [exists: BOOLEAN, running: BOOLEAN, source: Submissions \cup {None}]

TypeOK ==
  /\ row \in [Submissions -> Row]
  /\ traces \in [Submissions -> Nat]
  /\ judge \in [Judges -> Judge]
  /\ container \in [Hosts -> Container]
  /\ faults \in 0 .. MaxFaults
  /\ disturbed \subseteq Submissions

Init ==
  /\ row = [s \in Submissions |->
              [status |-> "absent", task |-> <<>>, passed |-> 0, total |-> 0]]
  /\ traces = [s \in Submissions |-> 0]
  /\ judge \in [Judges -> {IdleJudge(m) : m \in Modes}]
  /\ container = [h \in Hosts |->
                    [exists |-> PreCreated, running |-> FALSE, source |-> None]]
  /\ faults = 0
  /\ disturbed = {}

Fault == faults < MaxFaults /\ faults' = faults + 1

Terminal(s) == row[s].status \in Verdicts

-----------------------------------------------------------------------------
(* The API.                                                                *)

CreateSubmission(s, t) ==
  /\ row[s].status = "absent"
  /\ \A r \in 1 .. s - 1 : row[r].status # "absent"
  /\ row' = [row EXCEPT ![s].status = "queued", ![s].task = t]
  /\ UNCHANGED <<traces, judge, container, faults, disturbed>>

-----------------------------------------------------------------------------
(* ClaimQueuedSubmissions.                                                 *)

(* Rows another judge's transaction has locked; SKIP LOCKED passes them.   *)
Locked == UNION {judge[i].batch : i \in {i \in Judges : judge[i].pc = "claiming"}}

Oldest(S) == {s \in S : Cardinality({r \in S : r < s}) < BatchSize}

(* Variant: without FOR UPDATE SKIP LOCKED.                                *)
SelectUnlocked(j) ==
  /\ judge[j].pc = "idle"
  /\ LET queued == {s \in Submissions : row[s].status = "queued"} IN
       /\ queued # {}
       /\ judge' = [judge EXCEPT ![j].pc = "claiming", ![j].batch = Oldest(queued)]
  /\ UNCHANGED <<row, traces, container, faults, disturbed>>

SelectQueued(j) ==
  /\ judge[j].pc = "idle"
  /\ LET queued == {s \in Submissions : row[s].status = "queued"} \ Locked IN
       /\ queued # {}
       /\ judge' = [judge EXCEPT ![j].pc = "claiming", ![j].batch = Oldest(queued)]
  /\ UNCHANGED <<row, traces, container, faults, disturbed>>

(* The rows selected are claimed in the transaction that selected them.    *)
CommitClaim(j) ==
  /\ judge[j].pc = "claiming"
  /\ row' = [s \in Submissions |->
               IF s \in judge[j].batch /\ row[s].status = "queued"
               THEN [row[s] EXCEPT !.status = "running"] ELSE row[s]]
  /\ judge' = [judge EXCEPT ![j].pc = "claimed"]
  /\ UNCHANGED <<traces, container, faults, disturbed>>

(* Variant: only the first row of the batch is read back.                  *)
ReadFirst(j) ==
  /\ judge[j].pc = "claimed"
  /\ judge' = [judge EXCEPT ![j].pc = "next", ![j].batch = {Min(@)}]
  /\ UNCHANGED <<row, traces, container, faults, disturbed>>

(* The claim reads its rows back; an error here, or in the transaction,    *)
(* ends the batch, committed or not.                                       *)
ReadBatch(j) ==
  /\ judge[j].pc = "claimed"
  /\ judge' = [judge EXCEPT ![j].pc = "next"]
  /\ UNCHANGED <<row, traces, container, faults, disturbed>>

ClaimFails(j) ==
  /\ judge[j].pc \in {"claiming", "claimed"}
  /\ Fault
  /\ judge' = [judge EXCEPT ![j] = IdleJudge(judge[j].mode)]
  /\ UNCHANGED <<row, traces, container, disturbed>>

-----------------------------------------------------------------------------
(* ProcessBatch and processSubmission.                                     *)

EndBatch(j) ==
  /\ judge[j].pc = "next"
  /\ judge[j].batch = {}
  /\ judge' = [judge EXCEPT ![j] = IdleJudge(judge[j].mode)]
  /\ UNCHANGED <<row, traces, container, faults, disturbed>>

(* The judge at its next submission s, at step pc with this verdict.       *)
Take(j, s, pc, verdict) ==
  [judge[j] EXCEPT !.pc = pc, !.batch = @ \ {s}, !.at = s, !.case = 1,
                   !.verdict = verdict, !.passed = 0, !.total = 0]

(* Variant: the disabled evaluator returns nothing.                        *)
TakeNextEnabled(j) ==
  /\ judge[j].pc = "next"
  /\ judge[j].batch # {}
  /\ LET s == Min(judge[j].batch) IN
       judge' = [judge EXCEPT ![j] = IF row[s].task.does = <<>>
                                     THEN Take(j, s, "report", "system_error")
                                     ELSE Take(j, s, "start", "none")]
  /\ UNCHANGED <<row, traces, container, faults, disturbed>>

(* Question and test cases are loaded; no sandbox or no test cases make it *)
(* a system error before anything runs.                                    *)
TakeNext(j) ==
  /\ judge[j].pc = "next"
  /\ judge[j].batch # {}
  /\ LET s == Min(judge[j].batch)
         unjudged == judge[j].mode = "disabled" \/ row[s].task.does = <<>> IN
       judge' = [judge EXCEPT ![j] = IF unjudged THEN Take(j, s, "report", "system_error")
                                                 ELSE Take(j, s, "start", "none")]
  /\ UNCHANGED <<row, traces, container, faults, disturbed>>

(* Loading fails: the loop goes on with the next submission, this one      *)
(* stays running.                                                          *)
LoadFails(j) ==
  /\ judge[j].pc = "next"
  /\ judge[j].batch # {}
  /\ Fault
  /\ judge' = [judge EXCEPT ![j].batch = @ \ {Min(judge[j].batch)}]
  /\ UNCHANGED <<row, traces, container, disturbed>>

(* After an evaluation the warm evaluator stops its container.             *)
AfterRun(j) == IF judge[j].mode = "docker_warm" THEN "stop" ELSE "report"

(* Variant: the error does not replace the result.                         *)
EvaluatorFailsSilently(j) ==
  /\ judge[j].pc \in {"start", "copy", "run"}
  /\ Fault
  /\ judge' = [judge EXCEPT ![j].pc = "report"]
  /\ UNCHANGED <<row, traces, container, disturbed>>

(* The evaluator returns an error: no file could be written, or the        *)
(* command could not be started.                                           *)
EvaluatorFails(j) ==
  /\ judge[j].pc \in {"start", "copy", "run"}
  /\ Fault
  /\ judge' = [judge EXCEPT
       ![j].pc = IF judge[j].pc = "start" THEN "report" ELSE AfterRun(j),
       ![j].verdict = "system_error", ![j].passed = 0, ![j].total = 0]
  /\ UNCHANGED <<row, traces, container, disturbed>>

(* Verdict and trace in one transaction.  Evaluators return terminal       *)
(* statuses only, so the check of that is left out.                        *)
CompleteSubmission(j) ==
  /\ judge[j].pc = "report"
  /\ judge' = [judge EXCEPT ![j].pc = "next", ![j].at = None]
  /\ IF row[judge[j].at].status = "running"
     THEN /\ row' = [row EXCEPT ![judge[j].at].status = judge[j].verdict,
                                ![judge[j].at].passed = judge[j].passed,
                                ![judge[j].at].total = judge[j].total]
          /\ traces' = [traces EXCEPT ![judge[j].at] = @ + 1]
     ELSE UNCHANGED <<row, traces>>
  /\ UNCHANGED <<container, faults, disturbed>>

(* Variant: the verdict is committed before the trace is inserted.         *)
CompleteFailsHalfway(j) ==
  /\ judge[j].pc = "report"
  /\ Fault
  /\ row' = [row EXCEPT ![judge[j].at].status = judge[j].verdict]
  /\ judge' = [judge EXCEPT ![j].pc = "next", ![j].at = None]
  /\ UNCHANGED <<traces, container, disturbed>>

(* An error rolls verdict and trace back; the submission stays running.    *)
CompleteFails(j) ==
  /\ judge[j].pc = "report"
  /\ Fault
  /\ judge' = [judge EXCEPT ![j].pc = "next", ![j].at = None]
  /\ UNCHANGED <<row, traces, container, disturbed>>

(* The process ends, at once or by a signal: nothing is given back.        *)
Crash(j) ==
  /\ judge[j].pc # "idle"
  /\ Fault
  /\ judge' = [judge EXCEPT ![j] = IdleJudge(judge[j].mode)]
  /\ UNCHANGED <<row, traces, container, disturbed>>

-----------------------------------------------------------------------------
(* The evaluators.                                                         *)

(* The warm container of j's host.                                         *)
Warm(j) == container[Host[j]]

(* The directory of a docker run or a native run is written.               *)
Prepare(j) ==
  /\ judge[j].pc = "start"
  /\ judge[j].mode \in {"docker", "native_trusted"}
  /\ judge' = [judge EXCEPT ![j].pc = "run"]
  /\ UNCHANGED <<row, traces, container, faults, disturbed>>

(* ensureContainer and start.  The command runner reports no error when a  *)
(* command exits with one, so a container docker inspect does not find is  *)
(* taken to exist, and a failed start goes unnoticed.                      *)
StartContainer(j) ==
  /\ judge[j].pc = "start"
  /\ judge[j].mode = "docker_warm"
  /\ container' = [container EXCEPT ![Host[j]].running = Warm(j).exists]
  /\ judge' = [judge EXCEPT ![j].pc = "copy"]
  /\ UNCHANGED <<row, traces, faults, disturbed>>

(* The work directory is emptied, then the source copied in.               *)
CopySource(j) ==
  /\ judge[j].pc = "copy"
  /\ container' = [container EXCEPT ![Host[j]].source =
                     IF Warm(j).running THEN judge[j].at ELSE @]
  /\ judge' = [judge EXCEPT ![j].pc = "run"]
  /\ UNCHANGED <<row, traces, faults, disturbed>>

(* What running the present test case may show.  A warm container that is  *)
(* gone or empty gives an exit code; another submission's program in it    *)
(* may do anything.                                                        *)
Seen(j) ==
  LET own == {row[judge[j].at].task.does[judge[j].case]} IN
  CASE judge[j].mode # "docker_warm" -> own
    [] judge[j].mode = "docker_warm" /\ ~Warm(j).running -> {"crash", "reject"}
    [] judge[j].mode = "docker_warm" /\ Warm(j).running ->
         CASE Warm(j).source = judge[j].at -> own
           [] Warm(j).source = None -> {"crash", "reject"}
           [] OTHER -> Outcomes

(* Outcomes that end the evaluation, with their verdicts.                  *)
Stops == [crash |-> "runtime_error", reject |-> "compile_error",
          slow |-> "time_limit_exceeded", lingers |-> "time_limit_exceeded"]

(* Variant: a test case that stops the program does not count.             *)
ChargedIfEnded(o, weight) == IF o \in DOMAIN Stops THEN 0 ELSE weight

(* What a test case that shows o adds to the total weight.                 *)
Charged(o, weight) == weight

(* The judge after a test case has shown o.                                *)
Count(j, o) ==
  LET t == row[judge[j].at].task
      weight == t.weights[judge[j].case]
      passed == judge[j].passed + IF o = "right" THEN weight ELSE 0
      total == judge[j].total + Charged(o, weight)
      ended == o \in DOMAIN Stops \/ judge[j].case = Len(t.does) IN
  [judge[j] EXCEPT
     !.passed = passed, !.total = total, !.case = @ + 1,
     !.pc = IF ended THEN AfterRun(j) ELSE "run",
     !.verdict = CASE o \in DOMAIN Stops -> Stops[o]
                   [] ended /\ o \notin DOMAIN Stops ->
                        IF passed < total THEN "wrong_answer" ELSE "accepted"
                   [] OTHER -> "none"]

(* The native runner waits for the output pipes its children keep open.    *)
Hangs(j, o) == judge[j].mode = "native_trusted" /\ o = "lingers"

RunCase(j) ==
  /\ judge[j].pc = "run"
  /\ \E o \in Seen(j) :
       /\ ~Hangs(j, o)
       /\ judge' = [judge EXCEPT ![j] = Count(j, o)]
  /\ UNCHANGED <<row, traces, container, faults, disturbed>>

(* Docker refuses a command: it exits with an error the runner passes on   *)
(* as the exit code of the program.                                        *)
DockerFails(j) ==
  /\ judge[j].mode \in {"docker", "docker_warm"}
  /\ Fault
  /\ disturbed' = disturbed \cup {judge[j].at}
  /\ \/ /\ judge[j].pc = "start" /\ judge[j].mode = "docker_warm"
        /\ judge' = [judge EXCEPT ![j].pc = "copy"]
     \/ /\ judge[j].pc = "copy"
        /\ judge' = [judge EXCEPT ![j].pc = "run"]
     \/ /\ judge[j].pc = "run"
        /\ judge' = [judge EXCEPT ![j] = Count(j, "crash")]
  /\ UNCHANGED <<row, traces, container>>

(* The deferred stop; it empties the tmpfs the source was in.              *)
StopContainer(j) ==
  /\ judge[j].pc = "stop"
  /\ container' = [container EXCEPT ![Host[j]].running = FALSE, ![Host[j]].source = None]
  /\ judge' = [judge EXCEPT ![j].pc = "report"]
  /\ UNCHANGED <<row, traces, faults, disturbed>>

(* Its error is ignored, and the container stays as it is.                 *)
StopFails(j) ==
  /\ judge[j].pc = "stop"
  /\ Fault
  /\ judge' = [judge EXCEPT ![j].pc = "report"]
  /\ UNCHANGED <<row, traces, container, disturbed>>

-----------------------------------------------------------------------------

Step(j) ==
  \/ SelectQueued(j) \/ CommitClaim(j) \/ ReadBatch(j) \/ EndBatch(j) \/ TakeNext(j)
  \/ Prepare(j) \/ StartContainer(j) \/ CopySource(j) \/ RunCase(j) \/ StopContainer(j)
  \/ CompleteSubmission(j)

Failure(j) ==
  \/ ClaimFails(j) \/ LoadFails(j) \/ EvaluatorFails(j) \/ DockerFails(j)
  \/ StopFails(j) \/ CompleteFails(j) \/ Crash(j)

Next ==
  \/ \E s \in Submissions, t \in Tasks : CreateSubmission(s, t)
  \/ \E j \in Judges : Step(j) \/ Failure(j)

Spec == Init /\ [][Next]_vars

(* Each judge loop runs on, one ticker per process; nothing else is fair.  *)
FairSpec == Spec /\ \A j \in Judges : WF_vars(Step(j))

-----------------------------------------------------------------------------
(* What submissions can rely on.                                           *)

Holds(j, s) == s \in judge[j].batch \/ s = judge[j].at

(* No submission is in the hands of two judges, though all read the same   *)
(* queue: the locks last until the claim is committed, and what was given  *)
(* up is never claimed again.                                              *)
ClaimedOnce == \A i, j \in Judges : \A s \in Submissions :
                 Holds(i, s) /\ Holds(j, s) => i = j

(* A submission has its one trace as soon as it has its verdict, and no    *)
(* trace before, wherever judges fail or stop.                             *)
TracedWhenJudged == \A s \in Submissions : traces[s] = IF Terminal(s) THEN 1 ELSE 0

(* Without a fault every running submission is in some judge's hands.      *)
RunningIsHeld ==
  faults = 0 => \A s \in Submissions :
                  row[s].status = "running" => \E j \in Judges : Holds(j, s)

(* What the test cases ks weigh together.                                  *)
Weight(t, ks) ==
  LET upTo[n \in 0 .. Len(t.weights)] ==
        IF n = 0 THEN 0 ELSE upTo[n - 1] + (IF n \in ks THEN t.weights[n] ELSE 0) IN
  upTo[Len(t.weights)]

(* The verdict a program deserves: that of the first test case that stops  *)
(* it, with the weights up to that one; else by whether all are right.     *)
Deserved(t) ==
  LET cases == DOMAIN t.does
      stops == {k \in cases : t.does[k] \in DOMAIN Stops}
      seen == IF stops = {} THEN cases ELSE 1 .. Min(stops) IN
  [status |-> IF stops # {} THEN Stops[t.does[Min(stops)]]
              ELSE IF \A k \in cases : t.does[k] = "right" THEN "accepted"
              ELSE "wrong_answer",
   task |-> t,
   passed |-> Weight(t, {k \in seen : t.does[k] = "right"}),
   total |-> Weight(t, seen)]

(* A program is judged by what it does itself: whatever ran on the host    *)
(* before, a verdict other than a system error is the one it deserves,     *)
(* unless docker failed under it.                                          *)
VerdictDeserved ==
  \A s \in Submissions :
    Terminal(s) /\ row[s].status # "system_error" /\ s \notin disturbed =>
      row[s] = Deserved(row[s].task)

(* The test of the warm evaluator (docker_warm_evaluator_test.go:31) says  *)
(* that it creates a container that is missing, starts it and executes in  *)
(* it: unless docker failed, a program runs in a started container.        *)
CreatesMissingContainer ==
  \A j \in Judges :
    judge[j].mode = "docker_warm" /\ judge[j].pc = "run" /\ judge[j].at \notin disturbed =>
      Warm(j).running

Stranded(s) == row[s].status = "running" /\ ~\E j \in Judges : Holds(j, s)

Hung(j) == judge[j].pc = "run" /\ \A o \in Seen(j) : Hangs(j, o)

(* A queued submission gets its verdict, unless it was dropped by a fault  *)
(* after the claim or a native run never ends.                             *)
EverySubmissionSettles ==
  \A s \in Submissions :
    row[s].status = "queued" ~>
      Terminal(s) \/ Stranded(s) \/ \E j \in Judges : Hung(j)
=============================================================================
