# A verification project for the AI interview platform

TLA+ modules of the asynchronous core of this repository and of the services
around it, TLC runs that model-check them on small instances, and theorems about
them that TLAPS checks for every value of the constants. Paths are relative to the repository; line
numbers of each definition are in `PROJECT.json` under `map`.

    tlc -workers 2 -config outbox.cfg Outbox     # one run
    tlapm OutboxProofs.tla                       # the proofs of one module

## 1. The system

An interview session asks questions; the candidate's answers are accepted by
the API with `202 Accepted`, travel through a PostgreSQL outbox and a Redis
stream to worker processes, are evaluated by a language model behind a Python
runtime, and the evaluation moves the session on. Beside it stand a code judge,
a memory service, retrieval for prompts, an evaluation harness, and the usual
administration.

| Component | State it keeps | Operations | Interacts with |
|---|---|---|---|
| Interview service (`internal/interview/service.go`, `state_machine.go`) | rows of `interview_sessions`, `interview_turns`; lock keys in Redis | `CreateSession`, `SubmitAnswer`, `Finalize`, `ProcessTurn`, `persistAnswerResult`, `markTurnFailed`, `reclaimStaleTurns` | outbox (same transaction), single-flight, runtime client |
| Outbox (`service.go`) | rows of `async_messages`, dispatch lock in Redis | enqueue, claim, publish, mark, release, bury | stream, `dead_letter_events` |
| Stream (`internal/workqueue/stream.go`, loops in `service.go`) | Redis stream, consumer groups, dead-letter stream | publish, read, ack, claim pending, sweep poison entries, record dead letters | `ProcessTurn`, `store/deadletter.go` |
| Single-flight (`internal/singleflight/redis.go`) | lock and result keys | `Execute` | `evaluateAnswer` |
| Report (`service.go` 826-902, 1453-1472) | row of `interview_reports` | `GenerateReport`, `beginReportGeneration`, `markReportFailed` | sessions, turns, runtime client, outbox |
| Code judge (`internal/coding`) | rows of `code_submissions`, `code_evaluation_traces`, warm containers | create, claim, evaluate, complete | docker |
| Code completion (`internal/coding/completion.go`, `completion_catalog.go`) | none (pure), an embedded catalogue | `SuggestCompletions` | questions |
| Memory (`python-runtime/app/memory.py`, `internal/httpapi/memory.go`) | candidates, review tasks, profiles | create, approve, reject, edit, rebuild profile, search | context engine |
| Context engine (`internal/contextengine`) | none (pure), reads skills, turns and memories | preview, pack, admit, retrieve, select | evaluation, runtime |
| Evaluation harness (`internal/evalharness`) | cases, runs, traces | `SaveCase`, `RunCase`, `EvaluateAssertions` | runtime, context engine |
| Providers (`internal/provider`, `internal/store/store.go`) | provider rows, encrypted keys, routes | `SaveProvider`, `DeleteProvider`, `SaveProviderRoute`, seed, resolve a key | runtime client |
| Authentication (`internal/auth`, `internal/store/auth.go`) | users, refresh tokens | register, login, refresh, logout, root account at start | HTTP API |
| Skill registry (`internal/skill`, `SyncSkills` in `internal/store`) | pack directories, loaded packs, `skill_packs`, `skill_references` | create, load, reload, sync | context engine |
| HTTP API, runtime client, process wiring, frontend | none of their own | decode, call, encode | all of the above |

### What is hard

* **Stale copies.** Every API request and every worker loads the session, works
  for up to 45 seconds and writes back a position computed from what it loaded.
  The `UPDATE`s of `Finalize` and `persistAnswerResult` have no condition on
  what they overwrite.
* **Redelivery.** An entry idle for 30 seconds is handed to another worker, a
  turn running for two minutes is put back in the queue and published again, an
  `XADD` may fail after taking effect. Three guards remain: a Redis lock with a
  TTL (`TryLock`), an `UPDATE ... WHERE status = 'queued'` (`claimTurn`), and
  `... WHERE status = 'running'` in the final write.
* **Crashes between two steps**: between lock and claim, claim and publication,
  publication and mark, copy to the dead letters and acknowledgement, requeueing
  a turn and requeueing its message, failing a turn and failing its session.
* **TTLs** that may pass under their holder: the dispatch lock (10 s, a batch
  may take longer), the flight lock (65 s, deleted without a token), the turn
  lock (2 min).
* **Bounds**: `max_follow_ups`, the dead-letter thresholds, the stream's length,
  the token budgets of a prompt.
* **Several statements without a transaction**: a refresh (check, revoke, issue),
  the save of a provider (read the key, write the row), a report (read, mark,
  complete), a memory review (candidate, profile, task), an evaluation run (trace,
  record). Two requests interleave between them, and a client that hangs up ends
  the request's context: from then on every statement fails, the one that would
  record the failure too.
* **Shared rows**: every start and every reload upserts all skill packs in one
  transaction, next to others that do the same.
* **Go maps**: what depends on the order of one changes from call to call.

`PROJECT.json` lists each hazard at its line with the properties that cover it,
or why none does yet.

### What makes each component correct

* *Interview*: one worker at a time per turn; each score in the total exactly
  once; never more follow-ups than allowed; status and flow agree; an answer is
  graded against its question; a finished session stays finished; accepted
  answers settle.
* *Outbox*: a row has one dispatcher; what is marked dispatched was published;
  no copies without a reason; every row settles.
* *Stream*: no entry is lost between group, handlers and dead letters; each one
  settles.
* *Report*: a completed report is only lost to a request that overlapped its
  completion; what says `running` is being written or was cut off; what was
  announced has content.
* *Judge*: a submission is judged once, its verdict follows from its cases, it
  does not stay `running`.
* *Completion*: the best suggestions, in order, nothing twice.
* *Memory*: a prompt takes only what stands approved; the profile follows the
  candidates unless a review was cut off.
* *Context engine*: memories and references displace no rules; the budget is kept
  and nothing that fits is left out. *Harness*: a verdict is that of one version
  of the case on the output its trace holds.
* *Providers*: a task gets the key last asked for; a key shown as configured
  resolves. *Authentication*: a refresh spends its token. *Skills*: a scan forgets
  no pack that was whole, and that nobody was writing, when it began; synchronisations neither wait in a circle
  nor mix their packs.

## 2. The modules

| Module | Models | Extends |
|---|---|---|
| `InterviewStates` | the three transition tables and their validators | |
| `AnswerPipeline` | one session, its turns, API requests, workers, locks, entries, reclaim, faults and stalls | `InterviewStates` |
| `AnswerLedger` | abstract: an accepted answer is scored once or failed once | |
| `PatientCandidate` | `AnswerPipeline` under a client that waits for each result | `AnswerPipeline` |
| `MCAnswerPipeline` | symmetry for TLC | `AnswerPipeline` |
| `Outbox` | `async_messages` and the dispatch loops of several processes | |
| `StreamGroup` | stream, consumer group, redelivery, poison sweep, dead letters | |
| `Judge` | submissions, judge loops of several processes, the evaluators, warm containers | |
| `MCJudge` | programs and hosts for TLC | `Judge` |
| `Accounts` | users and refresh tokens, statement by statement | |
| `ReportGeneration` | one report row and the requests that share it | |
| `MemoryReview` | candidates, profile, review tasks, prompts of one user | |
| `ProviderConfigs` | provider rows, keys, routes | |
| `SkillSync` | pack directories, a registry, the synchronising transactions | |
| `ContextEngine` | `Preview` and `Retrieve` as functions | |
| `Completion`, `MCCompletion` | `SuggestCompletions` as a function; a catalogue for TLC | |
| `Evaluation` | a case, its runs, traces and records | |
| `MCServices` | the eight above in one run | those |
| `ListLemmas` | lemmas about recursion on lists, kept elements and sorting | |
| `AnswerPipelineProofs` | theorems about sessions, turns and the patient candidate | `PatientCandidate` |
| `OutboxProofs`, `StreamGroupProofs` | theorems and their proofs | the module of that name |
| `CodingProofs` | theorems about judges, verdicts and completions | `Judge`, `Completion`, `ListLemmas` |
| `ContextProofs` | theorems about skill packs, prompts and retrieval | `SkillSync`, `ContextEngine`, `ListLemmas` |
| `UserDataProofs` | theorems about refresh tokens, provider keys and memories | `Accounts`, `ProviderConfigs`, `MemoryReview` |
| `TaskOutcomeProofs` | theorems about reports and verdicts, what a task's answer becomes | `ReportGeneration`, `Evaluation` |

The abstract specification is `AnswerLedger`; `AnswerPipeline` instantiates it
(`Ledger == INSTANCE AnswerLedger WITH ...`) with the refinement mapping that
reads `queued` and `running` as `accepted`, and `ImplementsLedger`, its safety
specification, is a PROPERTY of `pipeline_safety` and a theorem.

### How the models correspond to the code

A step is one SQL statement, one transaction or one Redis command together with
the local decisions around it; this is the grain at which processes interleave
and at which a crash can separate two effects. Actions carry the names of the
functions they translate (`claimTurn`, `enqueueOutboxTx`, `ReclaimStaleTurn`).

**AnswerPipeline.** `session` and `turns` are the columns of the two tables that
the control flow reads. `handler[h]` holds what a request loaded: `SubmitAnswer`
and `Finalize` are a load with all checks, then a write. `worker[w]` is a
goroutine in `ProcessTurn`: its step, the entry it was given, the session copy
(`snap`), the outcome of the evaluation, whether it set the lock, and whether the
handler returns nil. `lock` and `flight` are the Redis keys. `credits[t]` counts
how often the score of turn `t` went into `total_score`: the sum itself would
hide a score added twice. `entries` is the transport, abstracted to the set of
entries not yet acknowledged, any of which may be delivered at any time, to
anyone, again. `reclaimed` holds turns between the two statements of
`reclaimStaleTurns`. An evaluation is only whether it asks for a follow-up. A
result replayed by single-flight is an evaluation with the same outcome, so the
result key is folded into the choice of the outcome.

Two kinds of trouble are budgeted apart. *Faults* (`MaxFaults`) are crashes,
failed statements and commands, dead-lettered entries. *Stalls* (`MaxStalls`)
are a time limit passing under a live process: a worker outlasting the 2-minute
lock, an evaluation outlasting the 65-second flight, a turn reclaimed although
its worker still works. The HTTP client times out after 45 seconds, so a stall
takes a paused process; without stalls, a limit passes only when whoever it
watches is gone.

**PatientCandidate** adds a constraint on clients, which nothing in the API
enforces: no request while another runs or an answer is outstanding. The browser
client disables its button only while the HTTP request runs
(`frontend/src/main.ts` 2472-2499).

**Outbox.** `row[m]` is the status and attempts of a row; `dispatcher[d]` the
batch of a dispatch loop, the row it is at and the attempts it read before the
claim incremented them. A row in backoff is a claimable row that is not claimed
yet. `attempts` counts claims and no reclaim takes one back, so a row may be
`pending` with its attempts used up (`Exhausted`): no claim selects it any more.
`ReclaimMessage` comes only for a message that was published and that no
dispatcher holds: a timing assumption, since a turn must have been running for two
minutes by then. The code looks at the age of the turn only. The same goes for
`Abandoned` in `AnswerPipeline`.
`markOutboxFailed` is left out: payloads are JSON objects that the same service
encoded.

**StreamGroup.** An entry is its position in the stream. A process runs two
loops that handle entries; each has a batch. `deliveries` is the pending list of
the group. A handler returns nil or an error by choice; what it does is
AnswerPipeline's subject. Not modelled: trimming of the dead-letter stream,
which takes 10000 copies that nobody recorded.

**Judge.** `row[s]` is a submission with its program, and its score as the weight
passed of the weight seen. A program is what it shows on each test case. Rows are
locked while their judge is `claiming`, which stands for `FOR UPDATE SKIP
LOCKED`. The docker, native and disabled evaluators and the warm one differ in
how they prepare and clean up (`Prepare`, `StartContainer`, `CopySource`,
`StopContainer`, `TakeNext`); the loop over the test cases is the same text in
all three (`RunCase`, `Count`). Docker is external: a command that docker refuses
gives an exit code, which the runner hands on like the program's own
(`DockerFails`, and `Seen` for a container that is not there). A source left in a
container by a judge that died stays until the next one clears it. A program
whose children keep the output open holds up a native judge for ever (`Hangs`).
`Host` says which judges share a docker daemon.

**Accounts.** A call is a sequence of SQL statements with nothing around them.
`call[c]` is where it is, the token presented, and the pair it returned; the ghost
`dead` remembers whether the token was revoked or expired on arrival. Rows are
keyed by random ids, so `token[n]` is the n-th pair issued.

**ReportGeneration.** `report` is the row, `writer[w]` a request: the read of the
row, of the session, the mark, the runtime, the outcome, the event. `HangUp` ends
a request's context. A report's content is the request that wrote it. `settled`
is all that a request reads of the session.

**MemoryReview.** The Python handlers do not yield, so one runs at a time
(`handler`), but each write is committed by itself and a handler may be cut
between two (`HandlerCut`). The gateway's check and the review are two calls, and
anything may happen between them. `at` is `updated_at`, which decides what a
bounded list still shows. The ghost `stands` holds the text whose approval is the
last review.

**ProviderConfigs.** `SaveProvider` is a read of the stored key and a write of
the row; the rest is one statement each. `NextKeyState` translates what becomes
of a key (kept, cleared, an environment variable, a ciphertext),
`RuntimeProviderForTask` and `resolveAPIKey` what a task gets. The ghost `asked`
is the key an administrator last asked for, `lost` says that a save put an older
one back.

**SkillSync.** `Create` writes directory, meta file and references one by one and
any write may fail; a scan reads the directory's names, then pack by pack; `Load`
replaces the registry under its mutex, the scan runs outside it. Two requests may
create one id at once; the slower one then replaces the meta file of a pack that
was whole already. So a pack is `Settled` only when all it names is there *and*
nobody is still writing it. A scan reads a directory in one step. The transaction
of `SyncSkills` holds the lock of each row it has upserted until it ends
(`held`); `deleted` and `stored` are its changes, invisible until `CommitSync`.
PostgreSQL is external in that sense: row locks, and statements that see what is
committed when they begin.

**ContextEngine, Completion.** Pure functions, with a state machine around them
that asks each small request once (twice for completions, since an answer may
depend on the order of a Go map and is then a set of outcomes). A text is its
tokens, whether it is blank and how many query terms it has; a source is what the
scans of it find; a label is its place in the order of strings, in which capitals
come first, and `ToLower` a constant operator on labels: duplicates are found up
to case (`SameKey`), the sort is by case (`Precedes`).

**Evaluation.** `versions` are the checks of a case each time it was saved;
`evalRun[q]` what a run has read and where it is; `trace` and `recorded` the rows
it leaves, written in statements of their own.

**MCServices.** The eight modules share no variable: their components meet
only through calls whose outcome each model chooses freely. A behaviour of
`MCServices` belongs to one of them (`active`) while the others stand still, so
the run is the eight runs in one, and a counterexample to any property is a
behaviour of that component alone.

## 3. The runs

| Run | Question | Bounds |
|---|---|---|
| `pipeline_safety` | do ownership, scoring and the ledger survive faults? | 2 turns, 2 workers, 1 request at a time, 1 fault, 2 entries per turn |
| `pipeline_stalls` | do bounds and status survive workers that outlast every limit? | 2 turns, 2 workers, 2 stalls |
| `patient` | what does a patient candidate get? | 2 questions, 1 follow-up, 2 turns, 2 workers, 1 fault, fairness |
| `outbox` | is a message lost, doubled or held twice? | 2 rows, 2 dispatchers, threshold 2, 2 attempts, 1 reclaim, 2 faults, fairness |
| `stream_group` | is an entry lost, or redelivered for ever? | 2 processes, 2 entries, stream trimmed to 1, batches of 2, threshold 2, 1 fault, fairness |
| `judge` | is a submission judged once, rightly and in the end? | 2 judges in any of 4 modes, each on its own host, 2 submissions of 5 programs, batches of 2, 2 faults, fairness |
| `services` | do the services keep their promises when requests overlap, are cut off and fail? | 3 requests per component, 2 evaluation runs; see below |
| `completion_repeats` | finding 5 | 1 declaration, the catalogue of `MCCompletion` |
| `session_transitions` | finding 1 | 1 turn, 2 requests, no fault |
| `crash_stuck` | finding 2 | 1 turn, 2 workers, 1 crash |
| `outbox_drains` | finding 3 | 1 row, 2 dispatchers, 1 crash |
| `judge_warm` | finding 4 | 1 warm judge, 1 submission, no container yet, no fault |

**Why these bounds show something.** The hazards need two actors: two workers on
one turn, a request against a worker, a dispatcher against its successor. Two
turns let a second answer be accepted while the first is evaluated. One fault
separates any two steps; a second would have to hit the recovery from the first.
Two entries of a turn are the original and the one published by a reclaim. A
follow-up bound of one and at most two questions reach every branch of
`persistAnswerResult`. In `StreamGroup` a stream trimmed to one entry, with two
published, loses pending and unread entries; a threshold of two instead of three
saves one round of redeliveries that is like the one before it. In `Judge` a batch holds both submissions or one each; with
two faults a judge can die leaving its program in a container and the next use
of that container can fail; the weights of the two test cases differ, and the
programs pass, fail, crash, time out, or have nothing to pass. In `outbox` the
attempts of a row are as many as the threshold, the least that lets failures end
in the dead letters first, as 20 and 3 do in the code; one reclaim then uses
them up. What the proofs cover does not depend on any bound.

In `services` two requests race and a third comes after or between them: a login
and two refreshes of its token at once, a report overwritten by a slower
request and generated anew, a save of a key between the read and the write of
another, a reload whose scan is older than a pack. Two packs are what a circle of
locks needs; one pack is edited by hand. `ListLimit` and `PromptLimit` are one
with two memories, so that lists leave something out; two texts tell an edit
from what was approved; five writes allow two candidates and three reviews. Tokens
{10, 70} and budgets {0, 100, 170} make the rules fit barely, partly or not at
all; limits of 0 (the default), 1 and 2 meet as many candidates. An evaluation
case is saved twice, with no check, one that every present value may fail, or two
that exclude each other. The labels of completions include two that differ in case only,
both of which a source may declare and a library offer; references may be blank, and
their summary has fewer of the query's terms than the text. The model values of requests are shared by the
components, so one group of permutations is sound for all.

`CHECK_DEADLOCK FALSE` stands in every configuration because counters are capped
and clients owe the system nothing: when all turns are used and all entries
acknowledged, or all requests made, nothing is left to do.

**Symmetry** is used for safety only (invariants and action properties).

**Fairness.** Weak fairness of the steps of workers, dispatchers and loops:
goroutines are scheduled, tickers tick, TTLs run out. Strong fairness where an
element must not be passed over for ever although others may be taken first: the
delivery of an entry (`XREADGROUP` and `XAUTOCLAIM` start at the oldest), the
claim of a row (`ORDER BY created_at`), the sweep of a pending entry. A judge needs weak fairness
only: it claims whatever is oldest. None for
clients, crashes, failures or handlers returning nil.

### What the runs show

* `OneOwner`, `ScoredOnce`, `ImplementsLedger`: with any single fault and any
  redelivery, no two workers own a turn, and each completed turn is in the total
  once. This is the refinement of `AnswerLedger` (requeueing is a stutter). It needs
  the absence of stalls (section *What the properties leave out*).
* `RoundsBounded`, `StatusMatchesFlow`: hold even with stalls, in spite of
  writes from old copies.
* `GradedOnItsQuestion`, `EachPositionOnce`, `NeverReopened`: hold for a patient
  candidate only. `EVALUATING -> EVALUATING` is a legal flow step, so others may
  have a second answer accepted, which is graded against whatever the session
  stands at when its worker loads it.
* `EveryAnswerSettles` without faults; `ClaimedTurnSettles` with one fault of any
  kind, thanks to the reclaim of stale turns. Both are of a patient candidate;
  finding 2 and the limits below are what they leave out.
* `RowsClaimedOnce`, `DispatchedIsPublished`, `NoSpuriousCopies`,
  `EveryRowSettles`: the lock of the dispatch loops is an optimisation, the claim
  is what keeps two dispatchers apart. A row settles, is orphaned (finding 3), or
  has used up its attempts although it was published. Failures alone
  never use them up (`ExhaustedWasPublished`): the dead letters take the row first.
* `NothingLost`, `EveryEntrySettles`: copy-then-acknowledge duplicates a dead
  letter rather than losing it, and no entry is redelivered for ever. Not lost
  does not mean tried.
* `ClaimedOnce`, `TracedWhenJudged`, `RunningIsHeld`: the row locks keep judges
  apart and the transaction of `CompleteSubmission` keeps verdict and trace
  together. A submission is stranded in `running` only by a fault, but then for
  ever: `EverySubmissionSettles` has to except it.
* `VerdictDeserved`: unless docker itself failed, the verdict is that of the
  first test case that stops the program, and the score counts the weights up to
  there. With each host used by one judge. On a shared one it fails at once: the
  container is named after the language, and nothing keeps two judges from
  copying into it.

* `RefreshSpendsItsToken`: two pairs come from one token only if their requests
  overlapped; what logout or a refresh has revoked yields nothing afterwards.
* `CompletedOnlyLostToOverlap`, `RunningHasAWriter`, `AnnouncedHasContent`: the
  row is not locked, and a slower request's failure does overwrite a completed
  report; the properties say that nothing else does, and that a report is left
  `running` only by a request that hung up or died.
* `PromptsTakeWhatStandsApproved`, `ProfileMatchesUnlessCut`: prompts read the
  candidates, not the profile, which is why a cut review cannot leave a rejected
  memory in them; the profile lags until the next review of any candidate.
* `TaskGetsTheKeyAskedFor`: the read-then-write of
  `SaveProvider` can put back an older key (`lost`), and nothing else can.
* `SyncsNeverDeadlock`, `PackAndReferencesAgree`, `OnlyOlderScanForgets`: the sort
  in `All` is what keeps transactions from a circle, the row lock of the upsert
  what keeps references from mixing; a pack disappears from a registry, or is seen
  half written again, only by a scan that began when it was not whole or a
  `Create` of its id was still to write, until the next reload.
* `MemoryNeverDisplacesRules`, `SelectionIsMaximal`, `ShownAreBest`: over all
  small inputs. Rules come first in the items, so packing can drop them for the
  budget only, never for a memory. A completion that repeats an earlier one of its
  source up to case is left out whatever its rank; `ShownAreBest` says so.
* `VerdictMatchesTrace`: a run keeps the version of the case it read.

### Findings

1. **`session_transitions`.** The README says legal transitions are validated in
   Go, and the tests call FINISHED terminal. The validation looks at a loaded
   copy: a worker that still evaluates when `Finalize` runs writes the session
   back to `IN_PROGRESS`.
2. **`crash_stuck`.** A worker dies between `TryLock` and `claimTurn`. The entry
   is redelivered after 30 seconds, finds the 2-minute lock, returns nil and is
   acknowledged. The turn stays `queued`; `reclaimStaleTurns` only looks at
   `running` ones.
3. **`outbox_drains`.** A dispatcher dies between the claim of a row and its
   publication. The row stays `dispatching`; only `pending` and `failed` rows are
   ever claimed.
4. **`judge_warm`.** The command runner reports a non-zero exit as a result, not
   as an error. `ensureContainer` asks only for the error, so a container that
   `docker inspect` does not find is never created; `start`, `cp` and `exec` then
   fail the same way, and the exit code of `docker exec` is reported as the
   program's `runtime_error`. The test passes because its runner returns an
   error for `inspect`.

5. **`completion_repeats`.** The README calls completions deterministic.
   `inferLiteralType` ranges over a Go map of patterns and returns the type of the
   first that matches anywhere in the source; a receiver assigned a list and a
   dict is completed with the members of one or the other.
### What the properties leave out

Behaviours of the code that are steps of the models and that a property excepts, or
that its bounds or its client exclude. They have no run of their own.

* **A finished interview with an answer outstanding.** `Finalize` is accepted then.
  From there on the worker can neither persist a result nor record a failure: both
  validate a step out of `COMPLETED` (service.go:1240). The turn stays `running`, is
  reclaimed every two minutes, and the report is refused because a turn is
  unfinished. A `PatientCandidate` waits, so `EveryAnswerSettles` does not see it.
* **Attempts used up.** A claim counts as an attempt also when it succeeds (:291),
  and a reclaim of the turn puts the row back to `pending` without resetting them
  (:482). After 20 claims no query selects the row again (:266): no dispatch, no
  dead letter. The turn of the previous point gets there in about forty minutes.
  `EveryRowSettles` has a disjunct for it and is false without it, with the 3 and
  20 of the code too. For the same reason a row that was dispatched before is dead
  after fewer failures than the three of `docs/dead-letter-analysis.md`.
* **A crash in the middle of a reclaim.** `reclaimStaleTurns` requeues the turns in one
  statement and resets their outbox rows in others. A process that dies in between
  leaves a queued turn without a message. It takes two faults; `ClaimedTurnSettles`
  is of one.
* **A worker that outlasts its two minutes.** Its late `UPDATE` of the turn finds no
  row, which nobody looks at; the `UPDATE` of the session adds the score and moves on
  all the same (:1281). `ScoredOnce` is false with one stall.
* **Deliveries are not failures.** The poison sweep counts deliveries, and an entry
  that waits in a batch of 8 is delivered again after 30 seconds: with three loops and
  slow evaluations the last of a batch is dead-lettered although no handler began
  with it. `NothingLost` counts it as not lost.
* **Names up to case.** Of a Go type `Node` and a variable `node` only the one found
  first is offered.

Every property of a passing run has a variant of the code (`...Unchecked`,
`...Unmarked` and so on, kept next to the definition it varies) under which TLC
finds it violated.

## 4. The proofs

All of them are about safety, for arbitrary sets of processes, arbitrary data and
arbitrary bounds; fairness is nowhere used. The assumptions are the `ASSUME`s of the
modules: numbers are natural, `None` is not an id, test cases have weights,
catalogue entries have the type of their struct. Two theorems name a further
hypothesis, `NoStalls` and `HostsAreReady`, because without it what they say is
false.

**AnswerPipelineProofs.**
`TypeCorrect` and `StatusFollowsFlow` are inductive nearly as they stand.
`RoundsAreBounded` is not: a worker writes a position computed from the session
it loaded perhaps long ago, so the invariant (`RoundsInv`) extends the bound to
every copy in flight: the session a worker loaded, and the round a request
loaded, which becomes the round of its turn. It holds
with any number of stalls.
`TurnsHaveOneOwner`, `ScoresCountOnce` and `PipelineImplementsLedger` assume
`NoStalls`. Their invariant `OwnerInv` ties an owner to the status of its turn
and to the lock: whoever owns a turn has set its lock, the lock's value is that
worker, and the turn is `running`. One lock has one value, so a turn has one
owner; a turn whose lock is free, as a stale one's is without stalls, has no owner. Each action then either keeps the owner, or ends it in the step
that settles the turn; the ledger step is read off the same cases.
`AnswersAreGradedOnTheirQuestion`, `PositionsAreScoredOnce` and
`FinishedStaysFinished` are of a patient candidate, again without stalls. None of
the three is inductive: a worker writes from a copy of the session, and an answer
carries the position its request read. `PatientInv` adds to `OwnerInv` that at most
one answer is outstanding and no request runs beside it (`OneThingAtATime`), that a
request about to write, the outstanding turn and every copy of it that can still be
written are at the session's position and the session is not completed
(`RequestsAreFresh`, `CopiesAreFresh`), that completed turns are behind that
position (`CompletedPassed`), and that no entry, reclaim or worker is of a turn
never accepted (`OnlyAccepted`). The last is what the run did not suggest: without
it a worker could hold a copy of the session from before the turn it is for.
`PatientInv` was model-checked on the instance of `patient` and, with 3 turns, 2
requests at a time, 2 workers and 2 faults, in 20 million states before it was
proved. The session moves only in the step that scores (`Scores`) or fails the
outstanding turn; all other steps leave everything or take nothing on
(`TakesOnNothing`).

**OutboxProofs.** `OutboxInv` adds that a row in a dispatcher's hands is marked
`dispatching` and has been counted (so the attempts read before the claim are
not negative), that a row about to be marked was published, and that a message
that may still be published is owed one copy (`Due`, `CopiesInv`): this is what
makes the count of copies inductive. `RowsAreClaimedOnce` nowhere uses the
lock. `ExhaustedRowsWerePublished` assumes no more than that the threshold does not
exceed the attempts a row has: a row never published has fewer attempts than the
threshold while it waits (`WaitingInv`), because each of its claims ended in a
failure and the one that reaches the threshold buries it (`TriesInv`); so it is
claimable until then.

**StreamGroupProofs.** `GroupInv` adds to `NothingLost` that only entries more
than `MaxLen` back were trimmed, that only delivered entries are pending, and
that a process between burying an entry and acknowledging it has left the
entry's copy in the dead letters. Reading needs that a batch has no gaps: every
unread entry up to the last of the batch is in it, a cardinality argument.

**ListLemmas.** The theorems of the library about induction take an operator,
which the provers cannot instantiate. Here an induction is over a set instead:
the least number not in it (`WFMin` with the order of the naturals) contradicts the
step (`CountingUp`). From it: what is defined by recursion exists
(`RecursionExists`) and is the only function that takes its steps
(`SameRecursion`), what never falls from one number to the next never falls
(`NeverFalls`), elements kept one by one come from increasing places
(`KeptPlaces`), and putting each element at the place that counts those before it
sorts (`CountingOrders`, by an injection of a finite set into itself). These lemmas
carry every theorem about a function of the code.

**CodingProofs.** `JudgeInv` ties each judge to the rows it holds: `queued` while
it is claiming, `running` after, and never two judges at one row, because a row
that can be selected is neither locked nor running. So `CompleteSubmission`
always finds its row running, and writes its first verdict and its first trace.
`VerdictsAreDeserved` compares what a judge adds up in many steps, between the steps
of others, with a sum over all test cases. Its invariant `JustInv` says that a judge before a
test case has counted exactly those before it and that none of them stops the
program (`CountedSoFar`), and that the container it uses runs and has its own source
(`OwnsContainer`), whatever an earlier judge left there. The rest is about weights:
one test case more weighs its weight more (`OneCaseMore`), and less is passed than
seen exactly if an output was wrong (`WrongIsLess`), which is how the code tells
`accepted` from `wrong_answer` and needs the schema's `CHECK (weight > 0)`. The hypothesis
`HostsAreReady` is finding 4 and the shared daemon: where the warm evaluator is in
use its containers exist and no two judges share a host.
`BestAreShown` is about one function, over all requests and catalogues and any
`ToLower` that is idempotent: `Collected` gathers suggestions of the right type, of
keys equal up to case the first survives, and the sort is total (by rank and label, then by where they stood), so what is left out
stands behind everything shown, and something is left out only at the limit.

**ContextProofs.** `SkillInv` has three parts per request. `Writes`: a pack is written
in order. `Locks`: what a transaction holds
comes before what it has still to do; so a waiting transaction waits for one at a
later pack, and as packs are finitely many `SyncsGoOn`, by the greatest pack
somebody waits for. `Replaces`: what a transaction deletes is what stands there,
since nobody else can have the lock; hence `StoredPacksAgree`. On top of it,
`Scans`: every pack that was settled when a scan began is settled still, and to be
read or read whole; hence `ScansForgetNothing`. A settled pack stays settled
(`SettledStays`) because nobody begins to write a directory that is there
(`NobodyStartsAgain`), and those who had begun are done; this is false of a pack
that is merely whole.
`RulesAreNeverDisplaced` and `SelectionsAreMaximal` are about `Preview` and
`Retrieve`. What `TakeFitting` has taken of the first n items grows with n and
keeps within limit and budget (`TakenGrows`); over items that begin with the rules
it takes from them what it takes without the others (`RulesStayInFront`); a wanted
item it passed over did not fit next to those taken before it, and so not next to
all (`SelectionLeavesNoRoom`). That something of equal standing may occur several
times is why the last is stated with counts, and needs one of them to have been
left out (`SomePlaceIsLeftOut`).

**UserDataProofs.** `AccountsInv` says of every call what it knows of its token:
once past the check, the token was good on arrival; once past the revocation, it
is revoked. Tokens only ever lose (`Grows`), so what one call knows survives the
steps of all others; this is what makes the invariant inductive with any number
of calls. `KeysInv` adds to the properties that a save about to write
has read the key as it is or was overtaken, and that a stored key has exactly
what its source needs; from this `ConfiguredKeyResolves`, which compares two
computations over different columns and is proved without a run. `MemoryInv` adds that a review let through
is of a candidate that is there and that an approved candidate stands approved in
its own words; between the two writes of a handler the profile may be behind,
and the invariant says just that. What projects the profile reads approved
candidates only, so writes to others leave it (`ProjectedStays`).

**TaskOutcomeProofs.** `ReportInv` adds that, while the report is completed, every
request that may still write read the row before that completion: this is what
`CompletedReportsStay` needs, since a request that read it afterwards answers from
it and writes nothing. `EvaluationInv` ties a run to the version it read and the
trace it wrote; that a status says whether all checks hold (`VerdictOf`) is a
cardinality argument.

**Only model-checked**: the properties with `~>`, `EverySubmissionSettles` and its
like: liveness under fairness is out of the prover's reach. Every invariant and
every action property of a passing run has a theorem. The type invariants of the
services are proved and not run.

## 5. Not modelled

* **Runtime client and Python task runtime** (`internal/runtime`,
  `python-runtime/app` but for `memory.py`): stateless calls to a language model;
  their outcome, a failure or a timeout is a choice in every model that calls
  them.
* **HTTP API**: the handlers that change state are the requests of the modules;
  decoding, roles, status codes and list endpoints are left out.
* **Process wiring and configuration**: what a start writes (root account, seeded
  provider, skill packs) is in `Accounts`, `ProviderConfigs` and `SkillSync`; the
  rest is construction.
* **Frontend**: only the discipline of the answer form, in
  `PatientCandidate`.
* **Single-flight**: its result key is folded into the outcome of an evaluation.
* Logging, metrics, agent traces other than the harness's, runtime snapshots, the
  text of questions and prompts, passwords and access tokens, the regular
  expressions of the completion scans, lint of skill packs, container internals,
  queries that only read.

## 6. Plan

Done: the modules above. What would add most next:

1. The result key of single-flight with its TTL, as a module of its own that
   `evaluateAnswer` composes with, and its refinement.
2. Composition of `Outbox`, `StreamGroup` and `AnswerPipeline` on one turn, with
   `AnswerPipeline`'s set of entries as the abstract transport the other two
   implement.
3. Which of the theorems under `NoStalls` hold under less: a worker that outlasts
   its lock breaks `ScoredOnce`, but the others have not been looked at singly.
