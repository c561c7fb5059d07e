---------------------------- MODULE CodingProofs ----------------------------
(***************************************************************************)
(* Theorems about Judge, for every number of judges, hosts, submissions    *)
(* and faults, every batch size, and all programs, and about Completion,   *)
(* for all requests, catalogs and limits.                                  *)
(***************************************************************************)
EXTENDS Judge, Completion, ListLemmas

-----------------------------------------------------------------------------
(* The judge.                                                              *)

(* What the rows say of those in the hands of a judge in state n, and what *)
(* n has to go on.                                                         *)
Has(n, s) == s \in n.batch \/ s = n.at

Fits(n) ==
  /\ n \in Judge
  /\ n.pc = "idle" => n.batch = {}
  /\ n.at # None <=> n.pc \in Evaluating
  /\ n.at \notin n.batch
  /\ n.pc \in {"stop", "report"} => n.verdict \in Verdicts
  /\ n.pc \in {"start", "copy", "run"} => n.case \in DOMAIN row[n.at].task.does
  /\ \A s \in Submissions :
       Has(n, s) => row[s].status = IF n.pc = "claiming" THEN "queued" ELSE "running"

RowsInv == \A s \in Submissions : row[s].status # "absent" => row[s].task \in Tasks

JudgeInv ==
  /\ TypeOK /\ RowsInv
  /\ \A j \in Judges : Fits(judge[j])
  /\ ClaimedOnce /\ TracedWhenJudged /\ RunningIsHeld

-----------------------------------------------------------------------------
(* A non-empty set of submissions has an oldest one.                       *)

LEMMA OldestExists ==
  ASSUME NEW B, B \subseteq Submissions, B # {}
  PROVE  Min(B) \in B
<1>1. B \subseteq Nat
  BY JudgeAssumption DEF Submissions
<1>2. PICK x \in B : \A y \in B : ~(<<y, x>> \in Smaller)
  BY <1>1, SmallerIsWellFounded, WFMin
<1>3. \A y \in B : x =< y
  <2>1. SUFFICES ASSUME NEW y \in B PROVE x =< y
    OBVIOUS
  <2>2. ~(y < x)
    BY <1>1, <1>2 DEF Smaller
  <2>3. QED
    BY <1>1, <2>2
<1>4. QED
  BY <1>3 DEF Min

-----------------------------------------------------------------------------
(* The steps of a judge that write no row keep the invariant, as long as   *)
(* it takes nothing new, and lets nothing go but by a fault.               *)

LEMMA MoveKeeps ==
  ASSUME JudgeInv, NEW j \in Judges, NEW n, Fits(n),
         judge' = [judge EXCEPT ![j] = n], UNCHANGED <<row, traces>>,
         container' \in [Hosts -> Container],
         faults' \in 0 .. MaxFaults, disturbed' \subseteq Submissions,
         \A s \in Submissions : Has(n, s) => Holds(j, s),
         \/ faults' > 0
         \/ faults' = faults /\ \A s \in Submissions : Holds(j, s) => Has(n, s)
  PROVE  JudgeInv'
<1>1. /\ judge \in [Judges -> Judge]
      /\ judge'[j] = n
      /\ \A i \in Judges : i # j => judge'[i] = judge[i]
  BY DEF JudgeInv, TypeOK
<1>2. TypeOK' /\ RowsInv'
  BY <1>1 DEF JudgeInv, TypeOK, RowsInv, Fits
<1>3. \A i \in Judges : Fits(judge[i])'
  BY <1>1 DEF JudgeInv, Fits, Has
<1>4. \A i \in Judges, s \in Submissions : Holds(i, s)' => Holds(i, s)
  BY <1>1 DEF Holds, Has
<1>5. ClaimedOnce'
  BY <1>4 DEF JudgeInv, ClaimedOnce
<1>6. TracedWhenJudged'
  BY DEF JudgeInv, TracedWhenJudged, Terminal
<1>7. RunningIsHeld'
  <2>1. SUFFICES ASSUME faults' = 0, NEW s \in Submissions, row[s].status = "running"
                 PROVE  \E i \in Judges : Holds(i, s)'
    BY DEF RunningIsHeld
  <2>2. faults = 0 /\ \A r \in Submissions : Holds(j, r) => Has(n, r)
    BY <2>1
  <2>3. PICK i \in Judges : Holds(i, s)
    BY <2>1, <2>2 DEF JudgeInv, RunningIsHeld
  <2>4. Holds(i, s)'
    BY <1>1, <2>2, <2>3 DEF Holds, Has
  <2>5. QED
    BY <2>4
<1>8. QED
  BY <1>2, <1>3, <1>5, <1>6, <1>7 DEF JudgeInv

(* The state a judge comes to by a step, for those that move on alone.     *)

LEMMA Present ==
  ASSUME JudgeInv, NEW j \in Judges
  PROVE  /\ judge \in [Judges -> Judge] /\ judge[j] \in Judge
         /\ Fits(judge[j])
         /\ \A s \in Submissions : Has(judge[j], s) <=> Holds(j, s)
         /\ container \in [Hosts -> Container] /\ disturbed \subseteq Submissions
         /\ faults \in 0 .. MaxFaults /\ MaxFaults \in Nat
         /\ Host[j] \in Hosts
         /\ None \notin Submissions
BY JudgeAssumption DEF JudgeInv, TypeOK, Has, Holds, None, Submissions

LEMMA FaultCounts ==
  ASSUME JudgeInv, Fault
  PROVE  faults' \in 0 .. MaxFaults /\ faults' > 0
BY JudgeAssumption DEF JudgeInv, TypeOK, Fault

LEMMA IdleFits ==
  ASSUME JudgeInv, NEW j \in Judges
  PROVE  /\ Fits(IdleJudge(judge[j].mode))
         /\ \A s \in Submissions : ~Has(IdleJudge(judge[j].mode), s)
<1>1. judge[j].mode \in Modes /\ None \notin Submissions
  BY Present DEF Judge
<1>2. IdleJudge(judge[j].mode) \in Judge
  BY <1>1 DEF IdleJudge, Judge
<1>3. \A s \in Submissions : ~Has(IdleJudge(judge[j].mode), s)
  BY <1>1 DEF IdleJudge, Has
<1>4. QED
  BY <1>2, <1>3 DEF IdleJudge, Fits, Evaluating

(* The submission under judgement, and its program.                        *)
LEMMA Task ==
  ASSUME JudgeInv, NEW j \in Judges, judge[j].pc \in Evaluating
  PROVE  /\ judge[j].at \in Submissions /\ row[judge[j].at].status = "running"
         /\ row[judge[j].at].task \in Tasks
         /\ row[judge[j].at].task.does \in Seq(Outcomes)
         /\ row[judge[j].at].task.weights \in Seq(Nat \ {0})
         /\ Len(row[judge[j].at].task.does) = Len(row[judge[j].at].task.weights)
<1>1. judge[j].at \in Submissions
  BY Present DEF Judge, Fits
<1>2. row[judge[j].at].status = "running"
  BY <1>1, Present DEF Fits, Evaluating, Has
<1>3. row[judge[j].at].task \in Tasks
  BY <1>1, <1>2 DEF JudgeInv, RowsInv
<1>4. QED
  BY <1>1, <1>2, <1>3, JudgeAssumption

LEMMA SeqDomain ==
  ASSUME NEW S, NEW q \in Seq(S)
  PROVE  DOMAIN q = 1 .. Len(q) /\ Len(q) \in Nat
OBVIOUS

(* A judge that goes on with its evaluation is a judge.                    *)
LEMMA JudgeUpdated ==
  ASSUME NEW r \in Judge, NEW n,
         n.passed \in Nat, n.total \in Nat, n.case \in Nat,
         n.pc \in {"next"} \cup Evaluating, n.verdict \in Verdicts \cup {"none"},
         n = [r EXCEPT !.passed = n.passed, !.total = n.total, !.case = n.case,
                       !.pc = n.pc, !.verdict = n.verdict]
  PROVE  n \in Judge /\ n.mode = r.mode /\ n.at = r.at /\ n.batch = r.batch
BY DEF Judge

LEMMA CountFits ==
  ASSUME JudgeInv, NEW j \in Judges, judge[j].pc = "run", NEW o \in Outcomes
  PROVE  /\ Fits(Count(j, o))
         /\ \A s \in Submissions : Has(Count(j, o), s) <=> Holds(j, s)
<1> DEFINE n == Count(j, o)
           t == row[judge[j].at].task
<1>1. /\ t.does \in Seq(Outcomes) /\ t.weights \in Seq(Nat \ {0})
      /\ Len(t.does) = Len(t.weights)
      /\ judge[j].at \in Submissions
  BY Task DEF Evaluating
<1>2. judge[j].case \in DOMAIN t.does
  BY Present DEF Fits
<1>3. t.weights[judge[j].case] \in Nat /\ judge[j].case \in 1 .. Len(t.does)
  BY <1>1, <1>2
<1>4. /\ judge[j] \in Judge /\ judge[j].passed \in Nat /\ judge[j].total \in Nat
      /\ judge[j].case \in Nat
  BY Present DEF Judge
<1>5. /\ n = [judge[j] EXCEPT !.passed = n.passed, !.total = n.total, !.case = n.case,
                              !.pc = n.pc, !.verdict = n.verdict]
      /\ n.passed \in Nat /\ n.total \in Nat /\ n.case = judge[j].case + 1
  BY <1>3, <1>4 DEF Count, Charged, Judge
<1>6. \/ n.pc \in {"stop", "report"} /\ n.verdict \in Verdicts
      \/ n.pc = "run" /\ n.verdict = "none" /\ judge[j].case # Len(t.does)
  <2>1. CASE o \in DOMAIN Stops
    BY <2>1, <1>4 DEF Count, Judge, AfterRun, Stops, Verdicts
  <2>2. CASE o \notin DOMAIN Stops /\ judge[j].case = Len(t.does)
    BY <2>2, <1>4 DEF Count, Judge, AfterRun, Verdicts
  <2>3. CASE o \notin DOMAIN Stops /\ judge[j].case # Len(t.does)
    BY <2>3, <1>4 DEF Count, Judge
  <2>4. QED
    BY <2>1, <2>2, <2>3
<1> HIDE DEF n
<1>7. n \in Judge /\ n.at = judge[j].at /\ n.batch = judge[j].batch
  <2>1. /\ n.pc \in {"next"} \cup Evaluating /\ n.verdict \in Verdicts \cup {"none"}
        /\ n.case \in Nat
    BY <1>4, <1>5, <1>6 DEF Evaluating
  <2>2. QED
    BY <1>4, <1>5, <2>1, JudgeUpdated
<1>8. n.pc = "run" => n.case \in DOMAIN t.does
  <2>1. DOMAIN t.does = 1 .. Len(t.does) /\ Len(t.does) \in Nat
    BY <1>1, SeqDomain
  <2> HIDE DEF t
  <2>2. QED
    BY <1>3, <1>5, <1>6, <2>1
<1>9. \A s \in Submissions : Has(n, s) <=> Holds(j, s)
  BY <1>7 DEF Has, Holds
<1>10. Fits(n)
  <2>1. \A s \in Submissions : Has(n, s) => row[s].status = "running"
    BY <1>9, Present DEF Fits
  <2>2. judge[j].at # None /\ judge[j].at \notin judge[j].batch
    BY Present DEF Fits, Evaluating
  <2>3. QED
    BY <1>6, <1>7, <1>8, <2>1, <2>2 DEF Fits, Evaluating
<1>11. QED
  BY <1>9, <1>10 DEF n

(* Moves of a judge that keep its submissions and go on at a further step. *)
LEMMA PcFits ==
  ASSUME JudgeInv, NEW j \in Judges, NEW pc, NEW n, n = [judge[j] EXCEPT !.pc = pc],
         \/ judge[j].pc = "claimed" /\ pc = "next"
         \/ judge[j].pc \in {"start", "copy"} /\ pc \in {"copy", "run"}
         \/ judge[j].pc = "stop" /\ pc = "report"
  PROVE  /\ Fits(n)
         /\ \A s \in Submissions : Has(n, s) <=> Holds(j, s)
<1>1. /\ judge[j] \in Judge /\ Fits(judge[j])
      /\ \A s \in Submissions : Has(judge[j], s) <=> Holds(j, s)
  BY Present
<1>2. /\ n \in Judge /\ n.batch = judge[j].batch /\ n.at = judge[j].at /\ n.pc = pc
      /\ n.case = judge[j].case /\ n.verdict = judge[j].verdict
  BY <1>1 DEF Judge, Evaluating
<1>3. \A s \in Submissions : Has(n, s) <=> Holds(j, s)
  BY <1>1, <1>2 DEF Has
<1>4. \A s \in Submissions : Has(n, s) => row[s].status = "running"
  BY <1>1, <1>3 DEF Fits
<1>5. QED
  BY <1>1, <1>2, <1>3, <1>4 DEF Fits, Evaluating

LEMMA PcMoves ==
  ASSUME JudgeInv, NEW j \in Judges, NEW pc, judge' = [judge EXCEPT ![j].pc = pc],
         UNCHANGED <<row, traces>>, container' \in [Hosts -> Container],
         faults' \in 0 .. MaxFaults, faults' > 0 \/ faults' = faults,
         disturbed' \subseteq Submissions,
         \/ judge[j].pc = "claimed" /\ pc = "next"
         \/ judge[j].pc \in {"start", "copy"} /\ pc \in {"copy", "run"}
         \/ judge[j].pc = "stop" /\ pc = "report"
  PROVE  JudgeInv'
<1> DEFINE n == [judge[j] EXCEPT !.pc = pc]
<1>1. judge' = [judge EXCEPT ![j] = n]
  OBVIOUS
<1>2. Fits(n) /\ \A s \in Submissions : Has(n, s) <=> Holds(j, s)
  BY PcFits
<1> HIDE DEF n
<1>3. QED
  BY <1>1, <1>2, MoveKeeps

(* Giving everything up, by a fault or at the end of the batch.            *)
LEMMA GivesUp ==
  ASSUME JudgeInv, NEW j \in Judges,
         judge' = [judge EXCEPT ![j] = IdleJudge(judge[j].mode)],
         UNCHANGED <<row, traces, container, disturbed>>,
         faults' \in 0 .. MaxFaults,
         faults' > 0 \/ (faults' = faults /\ \A s \in Submissions : ~Holds(j, s))
  PROVE  JudgeInv'
<1> DEFINE n == IdleJudge(judge[j].mode)
<1>1. Fits(n) /\ \A s \in Submissions : ~Has(n, s)
  BY IdleFits
<1>2. container' \in [Hosts -> Container] /\ disturbed' \subseteq Submissions
  BY Present
<1> HIDE DEF n
<1>3. QED
  BY <1>1, <1>2, MoveKeeps DEF n

(* Letting go of the submission it is at, judged or not, or of the next    *)
(* one of its batch.                                                       *)
LEMMA NextFits ==
  ASSUME JudgeInv, NEW j \in Judges, NEW B, B \subseteq judge[j].batch, NEW n,
         n = [judge[j] EXCEPT !.pc = "next", !.batch = B, !.at = None],
         judge[j].pc \in {"next", "report"}
  PROVE  /\ Fits(n)
         /\ \A s \in Submissions : Has(n, s) <=> s \in B
<1>1. /\ judge[j] \in Judge /\ Fits(judge[j]) /\ None \notin Submissions
      /\ \A s \in Submissions : Has(judge[j], s) <=> Holds(j, s)
  BY Present
<1>2. n \in Judge /\ n.batch = B /\ n.at = None /\ n.pc = "next"
  BY <1>1 DEF Judge
<1>3. \A s \in Submissions : Has(n, s) <=> s \in B
  BY <1>1, <1>2 DEF Has
<1>4. \A s \in Submissions : Has(n, s) => row[s].status = "running"
  BY <1>1, <1>3 DEF Fits, Has
<1>5. None \notin B
  BY <1>1 DEF Judge
<1>6. QED
  BY <1>2, <1>3, <1>4, <1>5 DEF Fits, Evaluating

LEMMA TakeFits ==
  ASSUME JudgeInv, NEW j \in Judges, judge[j].pc = "next", NEW s \in judge[j].batch,
         NEW pc, NEW v, NEW n, n = Take(j, s, pc, v),
         \/ pc = "report" /\ v = "system_error"
         \/ pc = "start" /\ v = "none" /\ row[s].task.does # <<>>
  PROVE  /\ Fits(n)
         /\ \A r \in Submissions : Has(n, r) <=> Holds(j, r)
<1>1. /\ judge[j] \in Judge /\ Fits(judge[j]) /\ None \notin Submissions
      /\ \A r \in Submissions : Has(judge[j], r) <=> Holds(j, r)
  BY Present
<1>2. s \in Submissions /\ s # None /\ judge[j].batch \subseteq Submissions
  BY <1>1 DEF Judge
<1>3. /\ n \in Judge /\ n.batch = judge[j].batch \ {s} /\ n.at = s /\ n.pc = pc
      /\ n.case = 1 /\ n.verdict = v
  BY <1>1, <1>2 DEF Take, Judge, Evaluating, Verdicts
<1>4. judge[j].at = None
  BY <1>1 DEF Fits, Evaluating
<1>5. \A r \in Submissions : Has(n, r) <=> Holds(j, r)
  BY <1>1, <1>2, <1>3, <1>4 DEF Has, Holds
<1>6. \A r \in Submissions : Has(n, r) => row[r].status = "running"
  BY <1>1, <1>5 DEF Fits
<1>7. pc = "start" => 1 \in DOMAIN row[s].task.does
  <2>1. row[s].task \in Tasks
    BY <1>1, <1>2 DEF JudgeInv, RowsInv, Fits, Has
  <2>2. row[s].task.does \in Seq(Outcomes)
    BY <2>1, JudgeAssumption
  <2>3. DOMAIN row[s].task.does = 1 .. Len(row[s].task.does) /\ Len(row[s].task.does) \in Nat
    BY <2>2, SeqDomain
  <2>4. row[s].task.does # <<>> => Len(row[s].task.does) # 0
    BY <2>2
  <2>5. QED
    BY <2>3, <2>4
<1>8. QED
  BY <1>2, <1>3, <1>5, <1>6, <1>7 DEF Fits, Evaluating, Verdicts

LEMMA FailedFits ==
  ASSUME JudgeInv, NEW j \in Judges, judge[j].pc \in {"start", "copy", "run"},
         NEW pc, pc \in {"stop", "report"}, NEW n,
         n = [judge[j] EXCEPT !.pc = pc, !.verdict = "system_error", !.passed = 0, !.total = 0]
  PROVE  /\ Fits(n)
         /\ \A s \in Submissions : Has(n, s) <=> Holds(j, s)
<1>1. /\ judge[j] \in Judge /\ Fits(judge[j])
      /\ \A s \in Submissions : Has(judge[j], s) <=> Holds(j, s)
  BY Present
<1>2. /\ n \in Judge /\ n.batch = judge[j].batch /\ n.at = judge[j].at /\ n.pc = pc
      /\ n.verdict = "system_error"
  BY <1>1 DEF Judge, Evaluating, Verdicts
<1>3. \A s \in Submissions : Has(n, s) <=> Holds(j, s)
  BY <1>1, <1>2 DEF Has
<1>4. \A s \in Submissions : Has(n, s) => row[s].status = "running"
  BY <1>1, <1>3 DEF Fits
<1>5. QED
  BY <1>1, <1>2, <1>3, <1>4 DEF Fits, Evaluating, Verdicts

-----------------------------------------------------------------------------
(* The steps that write rows or take them from the queue.                  *)

LEMMA CreateKeeps ==
  ASSUME JudgeInv, NEW s \in Submissions, NEW t \in Tasks, CreateSubmission(s, t)
  PROVE  JudgeInv'
<1>1. /\ row \in [Submissions -> Row] /\ row[s].status = "absent"
      /\ row' = [row EXCEPT ![s].status = "queued", ![s].task = t]
      /\ UNCHANGED <<traces, judge, container, faults, disturbed>>
  BY DEF JudgeInv, TypeOK, CreateSubmission
<1>2. /\ row' \in [Submissions -> Row]
      /\ row'[s].status = "queued" /\ row'[s].task = t
      /\ \A r \in Submissions : r # s => row'[r] = row[r]
  BY <1>1 DEF Row
<1>3. \A i \in Judges : ~Holds(i, s)
  BY <1>1, Present DEF Fits
<1>4. ASSUME NEW i \in Judges PROVE Fits(judge[i])'
  <2>1. Fits(judge[i]) /\ judge'[i] = judge[i] /\ ~Has(judge[i], s) /\ judge[i] \in Judge
    BY <1>1, <1>3, Present
  <2>2. judge[i].pc \in Evaluating => judge[i].at \in Submissions /\ judge[i].at # s
    BY <2>1 DEF Fits, Has, Judge
  <2>3. \A r \in Submissions : Has(judge[i], r) => row'[r] = row[r]
    BY <1>2, <2>1
  <2>4. QED
    BY <1>2, <2>1, <2>2, <2>3 DEF Fits, Has, Evaluating
<1>5. TypeOK' /\ RowsInv'
  BY <1>1, <1>2 DEF JudgeInv, TypeOK, RowsInv
<1>6. ClaimedOnce'
  BY <1>1 DEF JudgeInv, ClaimedOnce, Holds
<1>7. TracedWhenJudged'
  <2>1. ~Terminal(s) /\ ~Terminal(s)'
    BY <1>1, <1>2 DEF Terminal, Verdicts
  <2>2. QED
    BY <1>1, <1>2, <2>1 DEF JudgeInv, TracedWhenJudged, Terminal
<1>8. RunningIsHeld'
  BY <1>1, <1>2 DEF JudgeInv, RunningIsHeld, Holds
<1>9. QED
  BY <1>4, <1>5, <1>6, <1>7, <1>8 DEF JudgeInv

LEMMA SelectKeeps ==
  ASSUME JudgeInv, NEW j \in Judges, SelectQueued(j)
  PROVE  JudgeInv'
<1> DEFINE queued == {s \in Submissions : row[s].status = "queued"} \ Locked
           n == [judge[j] EXCEPT !.pc = "claiming", !.batch = Oldest(queued)]
<1>1. /\ judge[j].pc = "idle" /\ judge' = [judge EXCEPT ![j] = n]
      /\ UNCHANGED <<row, traces, container, faults, disturbed>>
  BY DEF SelectQueued
<1>2. /\ judge \in [Judges -> Judge] /\ judge[j] \in Judge /\ Fits(judge[j])
      /\ None \notin Submissions
  BY Present
<1>3. judge[j].batch = {} /\ judge[j].at = None
  BY <1>1, <1>2 DEF Fits, Evaluating
<1>4. Oldest(queued) \subseteq Submissions /\ \A s \in Oldest(queued) :
                                                row[s].status = "queued" /\ s \notin Locked
  BY DEF Oldest
<1>5. /\ n \in Judge /\ n.batch = Oldest(queued) /\ n.at = None /\ n.pc = "claiming"
  BY <1>2, <1>3, <1>4 DEF Judge
<1> HIDE DEF n, queued
<1>6. /\ judge'[j] = n /\ judge' \in [Judges -> Judge]
      /\ \A i \in Judges : i # j => judge'[i] = judge[i]
  BY <1>1, <1>2, <1>5
<1>7. Fits(n)
  BY <1>2, <1>4, <1>5 DEF Fits, Has, Evaluating
<1>8. \A i \in Judges : Fits(judge[i])'
  <2>1. \A i \in Judges : Fits(judge'[i])
    BY <1>6, <1>7, Present
  <2>2. QED
    BY <1>1, <2>1 DEF Fits
<1>9. TypeOK' /\ RowsInv' /\ TracedWhenJudged'
  BY <1>1, <1>6 DEF JudgeInv, TypeOK, RowsInv, TracedWhenJudged, Terminal
<1>10. ClaimedOnce'
  <2>1. \A i \in Judges, s \in Submissions : i # j => (Holds(i, s)' <=> Holds(i, s))
    BY <1>6 DEF Holds
  <2>2. \A s \in Submissions : Holds(j, s)' => s \in Oldest(queued)
    BY <1>2, <1>5, <1>6 DEF Holds
  <2>3. ASSUME NEW i \in Judges, i # j, NEW s \in Oldest(queued) PROVE ~Holds(i, s)
    <3>1. SUFFICES ASSUME Holds(i, s) PROVE FALSE
      OBVIOUS
    <3>2. /\ Fits(judge[i]) /\ Has(judge[i], s) /\ s \in Submissions
          /\ row[s].status = "queued"
      BY <1>4, <2>3, <3>1, Present
    <3>3. judge[i].pc = "claiming"
      BY <3>2 DEF Fits
    <3>4. judge[i].at = None
      BY <3>2, <3>3 DEF Fits, Evaluating
    <3>5. s \in judge[i].batch
      BY <1>2, <3>2, <3>4 DEF Has
    <3>6. QED
      BY <1>4, <2>3, <3>3, <3>5 DEF Locked
  <2>4. QED
    BY <2>1, <2>2, <2>3 DEF JudgeInv, ClaimedOnce
<1>11. RunningIsHeld'
  <2>1. \A i \in Judges, s \in Submissions : Holds(i, s) => Holds(i, s)'
    BY <1>2, <1>3, <1>6 DEF Holds
  <2>2. QED
    BY <1>1, <2>1 DEF JudgeInv, RunningIsHeld
<1>12. QED
  BY <1>8, <1>9, <1>10, <1>11 DEF JudgeInv

LEMMA CommitKeeps ==
  ASSUME JudgeInv, NEW j \in Judges, CommitClaim(j)
  PROVE  JudgeInv'
<1> DEFINE n == [judge[j] EXCEPT !.pc = "claimed"]
<1>1. /\ judge[j].pc = "claiming" /\ judge' = [judge EXCEPT ![j] = n]
      /\ UNCHANGED <<traces, container, faults, disturbed>>
  BY DEF CommitClaim
<1>2. /\ judge \in [Judges -> Judge] /\ judge[j] \in Judge /\ Fits(judge[j])
      /\ None \notin Submissions /\ row \in [Submissions -> Row]
  BY Present DEF JudgeInv, TypeOK
<1>3. n \in Judge /\ n.pc = "claimed" /\ n.batch = judge[j].batch /\ n.at = judge[j].at
  BY <1>2 DEF Judge
<1> HIDE DEF n
<1>4. /\ judge'[j] = n /\ judge' \in [Judges -> Judge]
      /\ \A i \in Judges : i # j => judge'[i] = judge[i]
      /\ \A i \in Judges, s \in Submissions : Holds(i, s)' <=> Holds(i, s)
  BY <1>1, <1>2, <1>3 DEF Holds
<1>5. judge[j].at = None
  BY <1>1, <1>2 DEF Fits, Evaluating
<1>6. /\ row' \in [Submissions -> Row]
      /\ \A s \in Submissions : s \notin judge[j].batch => row'[s] = row[s]
      /\ \A s \in judge[j].batch : /\ row[s].status = "queued" /\ row'[s].status = "running"
                                   /\ row'[s].task = row[s].task /\ s \in Submissions
  <2>1. \A s \in judge[j].batch : s \in Submissions /\ row[s].status = "queued"
    BY <1>1, <1>2 DEF Fits, Has, Judge
  <2>2. row' = [s \in Submissions |->
                  IF s \in judge[j].batch /\ row[s].status = "queued"
                  THEN [row[s] EXCEPT !.status = "running"] ELSE row[s]]
    BY DEF CommitClaim
  <2>3. QED
    BY <1>2, <2>1, <2>2 DEF Row
<1>7. ASSUME NEW i \in Judges PROVE Fits(judge[i])'
  <2>1. CASE i = j
    <3>1. \A s \in Submissions : Has(n, s) => s \in judge[j].batch
      BY <1>2, <1>3, <1>5 DEF Has
    <3>2. n.at = None /\ n.at \notin n.batch
      BY <1>2, <1>3, <1>5 DEF Fits
    <3>3. QED
      BY <1>3, <1>4, <1>6, <2>1, <3>1, <3>2 DEF Fits, Has, Evaluating
  <2>2. CASE i # j
    <3>1. Fits(judge[i]) /\ judge'[i] = judge[i] /\ judge[i] \in Judge
      BY <1>4, <2>2, Present
    <3>2. \A s \in Submissions : Has(judge[i], s) => s \notin judge[j].batch
      BY <2>2 DEF JudgeInv, ClaimedOnce, Holds, Has
    <3>3. \A s \in Submissions : Has(judge[i], s) => row'[s] = row[s]
      BY <1>6, <3>2
    <3>4. judge[i].pc \in Evaluating => row'[judge[i].at] = row[judge[i].at]
      BY <3>1, <3>3 DEF Fits, Has, Judge
    <3>5. QED
      BY <3>1, <3>3, <3>4 DEF Fits, Has, Evaluating
  <2>3. QED
    BY <2>1, <2>2
<1>8. TypeOK' /\ RowsInv'
  <2>1. TypeOK'
    BY <1>1, <1>4, <1>6 DEF JudgeInv, TypeOK
  <2>2. \A s \in Submissions : row'[s].status # "absent" => row'[s].task \in Tasks
    BY <1>6 DEF JudgeInv, RowsInv
  <2>3. QED
    BY <2>1, <2>2 DEF RowsInv
<1>9. ClaimedOnce'
  BY <1>4 DEF JudgeInv, ClaimedOnce
<1>10. TracedWhenJudged'
  <2>1. \A s \in Submissions : row'[s].status \in Verdicts <=> row[s].status \in Verdicts
    BY <1>6 DEF Verdicts
  <2>2. QED
    BY <1>1, <2>1 DEF JudgeInv, TracedWhenJudged, Terminal
<1>11. RunningIsHeld'
  <2>1. \A s \in Submissions : row'[s].status = "running" =>
                                 row[s].status = "running" \/ Holds(j, s)
    BY <1>6 DEF Holds
  <2>2. QED
    BY <1>1, <1>4, <2>1 DEF JudgeInv, RunningIsHeld
<1>12. QED
  BY <1>7, <1>8, <1>9, <1>10, <1>11 DEF JudgeInv

LEMMA CompleteKeeps ==
  ASSUME JudgeInv, NEW j \in Judges, CompleteSubmission(j)
  PROVE  JudgeInv'
<1> DEFINE n == [judge[j] EXCEPT !.pc = "next", !.batch = judge[j].batch, !.at = None]
           b == judge[j].at
<1>1. /\ judge[j] \in Judge /\ Fits(judge[j]) /\ judge \in [Judges -> Judge]
      /\ None \notin Submissions /\ row \in [Submissions -> Row]
      /\ traces \in [Submissions -> Nat]
  BY Present DEF JudgeInv, TypeOK
<1>2. judge[j].pc = "report" /\ judge' = [judge EXCEPT ![j] = n]
      /\ UNCHANGED <<container, faults, disturbed>>
  <2>1. judge' = [judge EXCEPT ![j].pc = "next", ![j].at = None]
    BY DEF CompleteSubmission
  <2>2. [judge[j] EXCEPT !.pc = "next", !.at = None] = n
    BY <1>1 DEF Judge
  <2>3. QED
    BY <1>1, <2>1, <2>2 DEF CompleteSubmission
<1>3. b \in Submissions /\ row[b].status = "running" /\ row[b].task \in Tasks
  BY <1>2, Task DEF Evaluating
<1>4. Fits(n) /\ \A s \in Submissions : Has(n, s) <=> s \in judge[j].batch
  BY <1>2, NextFits
<1>5. /\ judge[j].verdict \in Verdicts /\ judge[j].passed \in Nat /\ judge[j].total \in Nat
  BY <1>1, <1>2 DEF Fits, Judge
<1>6. /\ row' = [row EXCEPT ![b].status = judge[j].verdict, ![b].passed = judge[j].passed,
                            ![b].total = judge[j].total]
      /\ traces' = [traces EXCEPT ![b] = @ + 1]
  BY <1>3 DEF CompleteSubmission
<1> HIDE DEF n, b
<1>7. /\ row' \in [Submissions -> Row] /\ row'[b].status \in Verdicts
      /\ row'[b].task \in Tasks
      /\ \A s \in Submissions : s # b => row'[s] = row[s]
  BY <1>1, <1>3, <1>5, <1>6 DEF Row
<1>8. /\ judge'[j] = n /\ judge' \in [Judges -> Judge]
      /\ \A i \in Judges : i # j => judge'[i] = judge[i]
  BY <1>1, <1>2, <1>4 DEF Fits
<1>9. /\ \A s \in Submissions : Holds(j, s) <=> s \in judge[j].batch \/ s = b
      /\ b \notin judge[j].batch
      /\ \A s \in Submissions : Holds(j, s)' <=> s \in judge[j].batch
  BY <1>1, <1>4, <1>8 DEF Holds, Has, Fits, b
<1>10. \A i \in Judges, s \in Submissions :
         (Holds(i, s)' => Holds(i, s) /\ s # b) /\ (Holds(i, s) /\ s # b => Holds(i, s)')
  <2>1. \A i \in Judges : i # j => ~Holds(i, b)
    BY <1>3, <1>9 DEF JudgeInv, ClaimedOnce
  <2>2. \A i \in Judges, s \in Submissions : i # j => (Holds(i, s)' <=> Holds(i, s))
    BY <1>8 DEF Holds
  <2>3. \A s \in Submissions : (Holds(j, s)' => Holds(j, s) /\ s # b) /\
                               (Holds(j, s) /\ s # b => Holds(j, s)')
    BY <1>9
  <2>4. ASSUME NEW i \in Judges, i # j, NEW s \in Submissions
        PROVE  (Holds(i, s)' => Holds(i, s) /\ s # b) /\ (Holds(i, s) /\ s # b => Holds(i, s)')
    BY <2>1, <2>2, <2>4
  <2>5. QED
    BY <2>3, <2>4
<1>11. ASSUME NEW i \in Judges PROVE Fits(judge[i])'
  <2>1. ASSUME NEW m, Fits(m), m.at # b, \A s \in Submissions : Has(m, s) => s # b,
               m.at # None => m.at \in Submissions
        PROVE  Fits(m)'
    <3>1. \A s \in Submissions : Has(m, s) => row'[s] = row[s]
      BY <1>7, <2>1
    <3>2. m.pc \in Evaluating => row'[m.at] = row[m.at]
      BY <1>7, <2>1 DEF Fits
    <3>3. QED
      BY <2>1, <3>1, <3>2 DEF Fits, Has, Evaluating
  <2>2. judge'[i] \in Judge /\ (judge'[i].at # None => judge'[i].at \in Submissions)
    BY <1>8 DEF Judge
  <2>3. Fits(judge'[i])
    BY <1>4, <1>8, Present
  <2>4. \A s \in Submissions : Has(judge'[i], s) => s # b
    BY <1>10 DEF Has, Holds
  <2>5. judge'[i].at # b
    BY <1>1, <1>3, <2>2, <2>4 DEF Has
  <2>6. QED
    BY <2>1, <2>2, <2>3, <2>4, <2>5 DEF Fits
<1>12. TypeOK' /\ RowsInv'
  <2>1. traces' \in [Submissions -> Nat]
    BY <1>1, <1>3, <1>6
  <2>2. TypeOK'
    BY <1>2, <1>7, <1>8, <2>1 DEF JudgeInv, TypeOK
  <2>3. RowsInv'
    BY <1>7 DEF JudgeInv, RowsInv
  <2>4. QED
    BY <2>2, <2>3
<1>13. ClaimedOnce'
  BY <1>10 DEF JudgeInv, ClaimedOnce
<1>14. TracedWhenJudged'
  <2>1. traces[b] = 0
    BY <1>3 DEF JudgeInv, TracedWhenJudged, Terminal, Verdicts
  <2>2. traces'[b] = 1 /\ \A s \in Submissions : s # b => traces'[s] = traces[s]
    BY <1>1, <1>3, <1>6, <2>1
  <2>3. QED
    BY <1>7, <2>2 DEF JudgeInv, TracedWhenJudged, Terminal
<1>15. RunningIsHeld'
  <2>1. \A s \in Submissions : row'[s].status = "running" => row[s].status = "running" /\ s # b
    BY <1>7 DEF Verdicts
  <2>2. QED
    BY <1>2, <1>10, <2>1 DEF JudgeInv, RunningIsHeld
<1>16. QED
  BY <1>11, <1>12, <1>13, <1>14, <1>15 DEF JudgeInv

-----------------------------------------------------------------------------
(* Every step keeps the invariant.                                         *)

LEMMA StepKeeps ==
  ASSUME JudgeInv, NEW j \in Judges, Step(j)
  PROVE  JudgeInv'
<1>1. /\ judge[j] \in Judge /\ Fits(judge[j])
      /\ container \in [Hosts -> Container] /\ disturbed \subseteq Submissions
      /\ faults \in 0 .. MaxFaults /\ Host[j] \in Hosts /\ None \notin Submissions
      /\ Warm(j) \in Container
  BY Present DEF Warm
<1>2. CASE SelectQueued(j)
  BY <1>2, SelectKeeps
<1>3. CASE CommitClaim(j)
  BY <1>3, CommitKeeps
<1>4. CASE ReadBatch(j)
  BY <1>1, <1>4, PcMoves DEF ReadBatch
<1>5. CASE EndBatch(j)
  <2>1. \A s \in Submissions : ~Holds(j, s)
    BY <1>1, <1>5 DEF EndBatch, Fits, Holds, Evaluating
  <2>2. QED
    BY <1>1, <1>5, <2>1, GivesUp DEF EndBatch
<1>6. CASE TakeNext(j)
  <2> DEFINE s == Min(judge[j].batch)
             unjudged == judge[j].mode = "disabled" \/ row[s].task.does = <<>>
             n == IF unjudged THEN Take(j, s, "report", "system_error")
                              ELSE Take(j, s, "start", "none")
  <2>1. /\ judge[j].pc = "next" /\ judge[j].batch # {} /\ judge' = [judge EXCEPT ![j] = n]
        /\ UNCHANGED <<row, traces, container, faults, disturbed>>
    BY <1>6 DEF TakeNext
  <2>2. s \in judge[j].batch
    BY <1>1, <2>1, OldestExists DEF Judge
  <2> HIDE DEF s
  <2>3. Fits(n) /\ \A r \in Submissions : Has(n, r) <=> Holds(j, r)
    <3>1. CASE unjudged
      BY <2>1, <2>2, <3>1, TakeFits
    <3>2. CASE ~unjudged
      BY <2>1, <2>2, <3>2, TakeFits
    <3>3. QED
      BY <3>1, <3>2
  <2> HIDE DEF n
  <2>4. QED
    BY <1>1, <2>1, <2>3, MoveKeeps
<1>7. CASE Prepare(j)
  BY <1>1, <1>7, PcMoves DEF Prepare
<1>8. CASE StartContainer(j)
  <2>1. container' \in [Hosts -> Container]
    BY <1>1, <1>8 DEF StartContainer, Container
  <2>2. QED
    BY <1>1, <1>8, <2>1, PcMoves DEF StartContainer
<1>9. CASE CopySource(j)
  <2>1. judge[j].at \in Submissions \cup {None}
    BY <1>1 DEF Judge
  <2>2. container' \in [Hosts -> Container]
    BY <1>1, <1>9, <2>1 DEF CopySource, Container
  <2>3. QED
    BY <1>1, <1>9, <2>2, PcMoves DEF CopySource
<1>10. CASE RunCase(j)
  <2>1. PICK o \in Seen(j) : judge' = [judge EXCEPT ![j] = Count(j, o)]
    BY <1>10 DEF RunCase
  <2>2. judge[j].pc = "run" /\ UNCHANGED <<row, traces, container, faults, disturbed>>
    BY <1>10 DEF RunCase
  <2>3. row[judge[j].at].task.does[judge[j].case] \in Outcomes
    <3>1. row[judge[j].at].task.does \in Seq(Outcomes)
      BY <2>2, Task DEF Evaluating
    <3>2. judge[j].case \in DOMAIN row[judge[j].at].task.does
      BY <1>1, <2>2 DEF Fits
    <3>3. QED
      BY <3>1, <3>2, SeqDomain
  <2>4. o \in Outcomes
    BY <2>3 DEF Seen, Outcomes
  <2>5. Fits(Count(j, o)) /\ \A s \in Submissions : Has(Count(j, o), s) <=> Holds(j, s)
    BY <2>2, <2>4, CountFits
  <2>6. QED
    BY <1>1, <2>1, <2>2, <2>5, MoveKeeps
<1>11. CASE StopContainer(j)
  <2>1. container' \in [Hosts -> Container]
    BY <1>1, <1>11 DEF StopContainer, Container
  <2>2. QED
    BY <1>1, <1>11, <2>1, PcMoves DEF StopContainer
<1>12. CASE CompleteSubmission(j)
  BY <1>12, CompleteKeeps
<1>13. QED
  BY <1>2, <1>3, <1>4, <1>5, <1>6, <1>7, <1>8, <1>9, <1>10, <1>11, <1>12 DEF Step

LEMMA FailureKeeps ==
  ASSUME JudgeInv, NEW j \in Judges, Failure(j)
  PROVE  JudgeInv'
<1>1. /\ judge[j] \in Judge /\ Fits(judge[j])
      /\ container \in [Hosts -> Container] /\ disturbed \subseteq Submissions
      /\ None \notin Submissions
  BY Present
<1>2. faults' \in 0 .. MaxFaults /\ faults' > 0
  BY FaultCounts DEF Failure, ClaimFails, LoadFails, EvaluatorFails, DockerFails,
                     StopFails, CompleteFails, Crash
<1>3. CASE ClaimFails(j)
  BY <1>2, <1>3, GivesUp DEF ClaimFails
<1>4. CASE LoadFails(j)
  <2> DEFINE B == judge[j].batch \ {Min(judge[j].batch)}
             n == [judge[j] EXCEPT !.pc = "next", !.batch = B, !.at = None]
  <2>1. judge[j].pc = "next" /\ judge[j].at = None
    BY <1>1, <1>4 DEF LoadFails, Fits, Evaluating
  <2>2. judge' = [judge EXCEPT ![j] = n]
    <3>1. judge' = [judge EXCEPT ![j].batch = B]
      BY <1>4 DEF LoadFails
    <3>2. [judge[j] EXCEPT !.batch = B] = n
      BY <1>1, <2>1 DEF Judge
    <3>3. QED
      BY <3>1, <3>2
  <2>3. B \subseteq judge[j].batch /\ \A s \in B : Holds(j, s)
    BY DEF Holds
  <2> HIDE DEF B
  <2>4. Fits(n) /\ \A s \in Submissions : Has(n, s) <=> s \in B
    BY <2>1, <2>3, NextFits
  <2> HIDE DEF n
  <2>5. QED
    BY <1>1, <1>2, <1>4, <2>2, <2>3, <2>4, MoveKeeps DEF LoadFails
<1>5. CASE EvaluatorFails(j)
  <2> DEFINE pc == IF judge[j].pc = "start" THEN "report" ELSE AfterRun(j)
             n == [judge[j] EXCEPT !.pc = pc, !.verdict = "system_error",
                                   !.passed = 0, !.total = 0]
  <2>1. judge' = [judge EXCEPT ![j] = n] /\ judge[j].pc \in {"start", "copy", "run"}
    BY <1>1, <1>5 DEF EvaluatorFails, Judge
  <2>2. pc \in {"stop", "report"}
    BY DEF AfterRun
  <2> HIDE DEF pc
  <2>3. Fits(n) /\ \A s \in Submissions : Has(n, s) <=> Holds(j, s)
    BY <2>1, <2>2, FailedFits
  <2> HIDE DEF n
  <2>4. QED
    BY <1>1, <1>2, <1>5, <2>1, <2>3, MoveKeeps DEF EvaluatorFails
<1>6. CASE DockerFails(j)
  <2>1. UNCHANGED <<row, traces, container>> /\ disturbed' = disturbed \cup {judge[j].at}
    BY <1>6 DEF DockerFails
  <2>2. judge[j].pc \in {"start", "copy", "run"}
    BY <1>6 DEF DockerFails
  <2>3. disturbed' \subseteq Submissions
    BY <1>1, <2>1, <2>2, Task DEF Evaluating
  <2>4. CASE judge[j].pc = "start" /\ judge' = [judge EXCEPT ![j].pc = "copy"]
    BY <1>1, <1>2, <2>1, <2>3, <2>4, PcMoves
  <2>5. CASE judge[j].pc = "copy" /\ judge' = [judge EXCEPT ![j].pc = "run"]
    BY <1>1, <1>2, <2>1, <2>3, <2>5, PcMoves
  <2>6. CASE judge[j].pc = "run" /\ judge' = [judge EXCEPT ![j] = Count(j, "crash")]
    <3>1. /\ Fits(Count(j, "crash"))
          /\ \A s \in Submissions : Has(Count(j, "crash"), s) <=> Holds(j, s)
      BY <2>6, CountFits DEF Outcomes
    <3>2. QED
      BY <1>1, <1>2, <2>1, <2>3, <2>6, <3>1, MoveKeeps
  <2>7. QED
    BY <1>6, <2>4, <2>5, <2>6 DEF DockerFails
<1>7. CASE CompleteFails(j)
  <2> DEFINE n == [judge[j] EXCEPT !.pc = "next", !.batch = judge[j].batch, !.at = None]
  <2>1. judge' = [judge EXCEPT ![j] = n] /\ judge[j].pc = "report"
    <3>1. judge' = [judge EXCEPT ![j].pc = "next", ![j].at = None]
      BY <1>7 DEF CompleteFails
    <3>2. [judge[j] EXCEPT !.pc = "next", !.at = None] = n
      BY <1>1 DEF Judge
    <3>3. QED
      BY <1>7, <3>1, <3>2 DEF CompleteFails
  <2>2. Fits(n) /\ \A s \in Submissions : Has(n, s) <=> s \in judge[j].batch
    BY <2>1, NextFits
  <2>3. \A s \in judge[j].batch : Holds(j, s)
    BY DEF Holds
  <2> HIDE DEF n
  <2>4. QED
    BY <1>1, <1>2, <1>7, <2>1, <2>2, <2>3, MoveKeeps DEF CompleteFails
<1>8. CASE StopFails(j)
  BY <1>1, <1>2, <1>8, PcMoves DEF StopFails
<1>9. CASE Crash(j)
  BY <1>2, <1>9, GivesUp DEF Crash
<1>10. QED
  BY <1>3, <1>4, <1>5, <1>6, <1>7, <1>8, <1>9 DEF Failure

LEMMA InitHolds == Init => JudgeInv
<1> SUFFICES ASSUME Init PROVE JudgeInv
  OBVIOUS
<1>1. /\ None \notin Submissions /\ MaxFaults \in Nat /\ PreCreated \in BOOLEAN
  BY JudgeAssumption DEF None, Submissions
<1>2. ASSUME NEW j \in Judges
      PROVE  /\ judge[j] \in Judge /\ judge[j].pc = "idle"
             /\ judge[j].batch = {} /\ judge[j].at = None
  <2>1. PICK m \in Modes : judge[j] = IdleJudge(m)
    BY DEF Init
  <2>2. QED
    BY <2>1 DEF IdleJudge, Judge
<1>3. judge \in [Judges -> Judge]
  <2>1. judge = [j \in Judges |-> judge[j]]
    BY DEF Init
  <2>2. QED
    BY <1>2, <2>1
<1>4. TypeOK
  BY <1>1, <1>3 DEF Init, TypeOK, Row, Container
<1>5. /\ \A j \in Judges : Fits(judge[j])
      /\ \A j \in Judges, s \in Submissions : ~Holds(j, s)
  BY <1>1, <1>2 DEF Fits, Has, Holds, Evaluating
<1>6. RowsInv /\ ClaimedOnce /\ TracedWhenJudged /\ RunningIsHeld
  BY <1>5 DEF Init, RowsInv, ClaimedOnce, TracedWhenJudged, RunningIsHeld, Terminal, Verdicts
<1>7. QED
  BY <1>4, <1>5, <1>6 DEF JudgeInv

LEMMA Invariance == Spec => []JudgeInv
<1>1. JudgeInv /\ [Next]_vars => JudgeInv'
  <2> SUFFICES ASSUME JudgeInv, [Next]_vars PROVE JudgeInv'
    OBVIOUS
  <2>1. CASE Next
    <3>1. CASE \E s \in Submissions, t \in Tasks : CreateSubmission(s, t)
      BY <3>1, CreateKeeps
    <3>2. CASE \E j \in Judges : Step(j) \/ Failure(j)
      BY <3>2, StepKeeps, FailureKeeps
    <3>3. QED
      BY <2>1, <3>1, <3>2 DEF Next
  <2>2. CASE UNCHANGED vars
    BY <2>2 DEF vars, JudgeInv, TypeOK, RowsInv, Fits, Has, ClaimedOnce, TracedWhenJudged,
                RunningIsHeld, Terminal, Holds
  <2>3. QED
    BY <2>1, <2>2
<1>2. QED
  BY InitHolds, <1>1, PTL DEF Spec

-----------------------------------------------------------------------------
(* Every variable keeps its type.                                          *)
THEOREM TypeCorrect == Spec => []TypeOK
BY Invariance, PTL DEF JudgeInv

(* No two judges ever hold the same submission, thanks to the row locks of *)
(* ClaimQueuedSubmissions and to running rows being claimed by nobody.     *)
THEOREM SubmissionsAreClaimedOnce == Spec => []ClaimedOnce
BY Invariance, PTL DEF JudgeInv

(* CompleteSubmission gives every judged submission exactly one trace.     *)
THEOREM VerdictsAreTraced == Spec => []TracedWhenJudged
BY Invariance, PTL DEF JudgeInv

(* As long as nothing fails, each running submission is with a judge.      *)
THEOREM OnlyFaultsStrand == Spec => []RunningIsHeld
BY Invariance, PTL DEF JudgeInv

-----------------------------------------------------------------------------
(* The verdicts.                                                           *)

(* What the test cases of a program weigh is a sum.                        *)
Program(t) ==
  /\ t.does \in Seq(Outcomes) /\ t.weights \in Seq(Nat \ {0})
  /\ Len(t.does) = Len(t.weights)

Weighs(sum, weights, ks) ==
  /\ sum[0] = 0
  /\ \A k \in 1 .. Len(weights) : sum[k] = sum[k - 1] + (IF k \in ks THEN weights[k] ELSE 0)

LEMMA WeightIsASum ==
  ASSUME NEW t, Program(t), NEW ks
  PROVE  \E sum \in [0 .. Len(t.weights) -> Nat] :
           Weighs(sum, t.weights, ks) /\ Weight(t, ks) = sum[Len(t.weights)]
<1> DEFINE w == t.weights
           L == Len(w)
           of == [k \in 1 .. L |-> IF k \in ks THEN w[k] ELSE 0]
           step == [k \in 1 .. L |-> [v \in Nat |-> v + of[k]]]
           Is(f) == f = [n \in 0 .. L |->
                           IF n = 0 THEN 0 ELSE f[n - 1] + (IF n \in ks THEN w[n] ELSE 0)]
           sum == CHOOSE f : Is(f)
<1>1. L \in Nat /\ 0 \in Nat /\ \A k \in 1 .. L : w[k] \in Nat
  BY DEF Program
<1>2. \A k \in 1 .. L : of[k] \in Nat /\ of[k] = IF k \in ks THEN w[k] ELSE 0
  BY <1>1
<1>3. Weight(t, ks) = sum[L]
  BY DEF Weight
<1>4. of \in [1 .. L -> Nat]
  BY <1>2
<1> HIDE DEF L, w, of
<1>5. step \in [1 .. L -> [Nat -> Nat]]
  BY <1>2
<1>6. PICK f \in [0 .. L -> Nat] : Follows(f, L, 0, step)
  <2> HIDE DEF step
  <2>1. QED
    BY <1>1, <1>5, RecursionExists
<1>7. \A k \in 1 .. L : f[k] = f[k - 1] + of[k]
  <2>1. SUFFICES ASSUME NEW k \in 1 .. L PROVE f[k] = f[k - 1] + of[k]
    OBVIOUS
  <2>2. k - 1 \in 0 .. L
    BY <1>1
  <2>3. f[k - 1] \in Nat /\ f[k] = step[k][f[k - 1]]
    BY <1>6, <2>2 DEF Follows
  <2>4. QED
    BY <2>3
<1>8. Is(f)
  BY <1>2, <1>6, <1>7 DEF Follows
<1>9. Is(sum)
  <2> HIDE DEF Is
  <2>1. QED
    BY <1>8
<1> HIDE DEF sum
<1>10. sum[0] = 0 /\ \A k \in 1 .. L : sum[k] = sum[k - 1] + of[k]
  <2>1. \A k \in 1 .. L : k \in 0 .. L /\ k # 0
    BY <1>1
  <2>2. QED
    BY <1>1, <1>2, <1>9, <2>1
<1>11. SameUpTo(sum, f, L)
  <2>1. sum[0] = f[0]
    BY <1>6, <1>10 DEF Follows
  <2>2. \A k \in 1 .. L : sum[k - 1] = f[k - 1] => sum[k] = f[k]
    BY <1>7, <1>10
  <2>3. SameSteps(sum, f, L)
    BY <2>1, <2>2 DEF SameSteps
  <2>4. QED
    BY <1>1, <2>3, SameRecursion
<1>12. Weight(t, ks) = f[L]
  <2>1. L \in 0 .. L
    BY <1>1
  <2>2. QED
    BY <1>3, <1>11, <2>1 DEF SameUpTo
<1>13. Weighs(f, w, ks)
  <2>1. f[0] = 0
    BY <1>6 DEF Follows
  <2>2. QED
    BY <1>2, <1>7, <2>1 DEF Weighs, L
<1>14. QED
  BY <1>12, <1>13 DEF L, w

LEMMA WeightOfNothing ==
  ASSUME NEW t, Program(t)
  PROVE  Weight(t, {}) = 0
<1> DEFINE L == Len(t.weights)
<1>1. PICK f \in [0 .. L -> Nat] : Weighs(f, t.weights, {}) /\ Weight(t, {}) = f[L]
  BY WeightIsASum
<1>2. L \in Nat
  BY DEF Program
<1>3. f[0] = 0 /\ \A k \in 1 .. L : f[k] = f[k - 1] + 0
  BY <1>1 DEF Weighs
<1> HIDE DEF L
<1> DEFINE none == [k \in 0 .. L |-> 0]
<1>4. SameSteps(f, none, L)
  <2>1. \A k \in 1 .. L : k - 1 \in 0 .. L /\ k \in 0 .. L
    BY <1>2
  <2>2. \A k \in 1 .. L : f[k - 1] = none[k - 1] => f[k] = none[k]
    BY <1>3, <2>1
  <2>3. f[0] = none[0]
    BY <1>2, <1>3
  <2>4. QED
    BY <2>2, <2>3 DEF SameSteps
<1>5. SameUpTo(f, none, L) /\ L \in 0 .. L
  BY <1>2, <1>4, SameRecursion
<1>6. QED
  BY <1>1, <1>5 DEF SameUpTo

(* One test case more, and what a set weighs that has all of another.      *)
LEMMA WeightOfOneMore ==
  ASSUME NEW t, Program(t), NEW ks, NEW c \in 1 .. Len(t.weights), c \notin ks
  PROVE  /\ Weight(t, ks) \in Nat /\ t.weights[c] \in Nat \ {0}
         /\ Weight(t, ks \cup {c}) = Weight(t, ks) + t.weights[c]
<1> DEFINE L == Len(t.weights)
           w == t.weights[c]
           more == ks \cup {c}
<1>1. L \in Nat /\ w \in Nat \ {0} /\ c \in 1 .. L
  BY DEF Program
<1>2. PICK f \in [0 .. L -> Nat] : Weighs(f, t.weights, ks) /\ Weight(t, ks) = f[L]
  BY WeightIsASum
<1>3. PICK g \in [0 .. L -> Nat] : Weighs(g, t.weights, more) /\ Weight(t, more) = g[L]
  BY WeightIsASum
<1>4. /\ f[0] = 0 /\ g[0] = 0
      /\ \A k \in 1 .. L : /\ k # c => g[k] - g[k - 1] = f[k] - f[k - 1]
                           /\ k = c => f[k] = f[k - 1] /\ g[k] = g[k - 1] + w
  <2>1. f[0] = 0 /\ g[0] = 0
    BY <1>2, <1>3 DEF Weighs
  <2>2. ASSUME NEW k \in 1 .. L
        PROVE  /\ k # c => g[k] - g[k - 1] = f[k] - f[k - 1]
               /\ k = c => f[k] = f[k - 1] /\ g[k] = g[k - 1] + w
    <3>1. /\ f[k] = f[k - 1] + (IF k \in ks THEN t.weights[k] ELSE 0)
          /\ g[k] = g[k - 1] + (IF k \in more THEN t.weights[k] ELSE 0)
      BY <1>2, <1>3 DEF Weighs
    <3>2. k - 1 \in 0 .. L /\ k \in 0 .. L
      BY <1>1
    <3>3. f[k - 1] \in Nat /\ g[k - 1] \in Nat /\ t.weights[k] \in Nat
      <4>1. t.weights[k] \in Nat
        BY DEF Program
      <4> HIDE DEF L
      <4>2. QED
        BY <3>2, <4>1
    <3>4. CASE k = c
      <4>1. f[k] = f[k - 1] + 0 /\ g[k] = g[k - 1] + w
        BY <3>1, <3>4
      <4>2. QED
        BY <3>3, <3>4, <4>1
    <3>5. CASE k # c
      <4>1. (k \in more) = (k \in ks)
        BY <3>5
      <4>2. QED
        BY <3>1, <3>3, <3>5, <4>1
    <3>6. QED
      BY <3>4, <3>5
  <2>3. QED
    BY <2>1, <2>2
<1> HIDE DEF L, w, more
<1> DEFINE h == [k \in 0 .. L |-> f[k] + (IF k < c THEN 0 ELSE w)]
<1>5. SameSteps(g, h, L)
  <2>1. g[0] = h[0]
    BY <1>1, <1>4
  <2>2. ASSUME NEW k \in 1 .. L, g[k - 1] = h[k - 1] PROVE g[k] = h[k]
    <3>1. k - 1 \in 0 .. L /\ k \in 0 .. L
      BY <1>1
    <3>2. f[k - 1] \in Nat /\ g[k - 1] \in Nat /\ f[k] \in Nat /\ g[k] \in Nat
      BY <3>1
    <3>3. /\ h[k - 1] = f[k - 1] + (IF k - 1 < c THEN 0 ELSE w)
          /\ h[k] = f[k] + (IF k < c THEN 0 ELSE w)
      BY <3>1
    <3>4. CASE k = c
      BY <1>1, <1>4, <2>2, <3>2, <3>3, <3>4
    <3>5. CASE k < c
      <4>1. k # c /\ k - 1 < c
        BY <1>1, <3>5
      <4>2. g[k] - g[k - 1] = f[k] - f[k - 1]
        BY <1>4, <4>1
      <4>3. g[k - 1] = f[k - 1] + 0 /\ h[k] = f[k] + 0
        BY <2>2, <3>3, <3>5, <4>1
      <4> HIDE DEF h
      <4>4. QED
        BY <3>2, <4>2, <4>3
    <3>6. CASE k > c
      <4>1. k # c /\ ~(k - 1 < c) /\ ~(k < c)
        BY <1>1, <3>6
      <4>2. g[k] - g[k - 1] = f[k] - f[k - 1]
        BY <1>4, <4>1
      <4>3. g[k - 1] = f[k - 1] + w /\ h[k] = f[k] + w
        BY <2>2, <3>3, <4>1
      <4> DEFINE fk == f[k]
                 gk == g[k]
                 fl == f[k - 1]
                 gl == g[k - 1]
      <4> HIDE DEF h
      <4>5. fk \in Nat /\ gk \in Nat /\ fl \in Nat /\ gl \in Nat
        BY <3>2
      <4>6. gk - gl = fk - fl /\ gl = fl + w
        BY <4>2, <4>3
      <4> HIDE DEF fk, gk, fl, gl
      <4>7. gk = fk + w
        BY <1>1, <4>5, <4>6
      <4>4. QED
        BY <4>3, <4>7 DEF fk, gk
    <3>7. QED
      BY <1>1, <3>4, <3>5, <3>6
  <2>3. QED
    BY <2>1, <2>2 DEF SameSteps
<1>6. SameUpTo(g, h, L) /\ L \in 0 .. L
  <2> HIDE DEF h
  <2>1. QED
    BY <1>1, <1>5, SameRecursion
<1>7. g[L] = f[L] + w
  <2>1. h[L] = f[L] + w
    BY <1>1, <1>6
  <2> HIDE DEF h
  <2>2. QED
    BY <1>6, <2>1 DEF SameUpTo
<1>8. QED
  BY <1>1, <1>2, <1>3, <1>6, <1>7 DEF w, more

LEMMA MoreWeighsMore ==
  ASSUME NEW t, Program(t), NEW ls, NEW ks, ks \subseteq ls
  PROVE  Weight(t, ks) =< Weight(t, ls)
<1> DEFINE L == Len(t.weights)
<1>1. L \in Nat /\ \A k \in 1 .. L : t.weights[k] \in Nat
  BY DEF Program
<1>2. PICK f \in [0 .. L -> Nat] : Weighs(f, t.weights, ks) /\ Weight(t, ks) = f[L]
  BY WeightIsASum
<1>3. PICK g \in [0 .. L -> Nat] : Weighs(g, t.weights, ls) /\ Weight(t, ls) = g[L]
  BY WeightIsASum
<1>4. f[0] = g[0] /\ \A k \in 1 .. L : f[k - 1] =< g[k - 1] => f[k] =< g[k]
  <2>1. f[0] = g[0]
    BY <1>2, <1>3 DEF Weighs
  <2>2. ASSUME NEW k \in 1 .. L, f[k - 1] =< g[k - 1] PROVE f[k] =< g[k]
    <3>1. /\ f[k] = f[k - 1] + (IF k \in ks THEN t.weights[k] ELSE 0)
          /\ g[k] = g[k - 1] + (IF k \in ls THEN t.weights[k] ELSE 0)
      BY <1>2, <1>3 DEF Weighs
    <3>2. k - 1 \in 0 .. L /\ t.weights[k] \in Nat
      BY <1>1
    <3>3. f[k - 1] \in Nat /\ g[k - 1] \in Nat
      BY <3>2
    <3>4. QED
      BY <2>2, <3>1, <3>2, <3>3
  <2>3. QED
    BY <2>1, <2>2
<1> HIDE DEF L
<1> DEFINE S == {k \in 0 .. L : f[k] =< g[k]}
<1>5. 0 \in S
  BY <1>1, <1>4
<1>6. ASSUME NEW k \in 0 .. L - 1, k \in S PROVE k + 1 \in S
  <2>1. k + 1 \in 1 .. L /\ k + 1 - 1 = k /\ k + 1 \in 0 .. L
    BY <1>1
  <2>2. f[k] =< g[k]
    BY <1>6
  <2>3. f[k + 1] =< g[k + 1]
    BY <1>4, <2>1, <2>2
  <2>4. QED
    BY <2>1, <2>3
<1> HIDE DEF S
<1>7. L \in S
  <2>1. 0 .. L \subseteq S
    BY <1>1, <1>5, <1>6, CountingUp
  <2>2. QED
    BY <1>1, <2>1
<1>8. QED
  BY <1>2, <1>3, <1>7 DEF S

-----------------------------------------------------------------------------
(* The test cases before c whose output is right.                          *)
RightBefore(t, c) == {k \in 1 .. c - 1 : t.does[k] = "right"}

(* A judge before test case n.case: none has stopped the program yet, and  *)
(* it has counted all of them.                                             *)
CountedSoFar(n, t) ==
  /\ n.passed = Weight(t, RightBefore(t, n.case))
  /\ n.total = Weight(t, 1 .. n.case - 1)
  /\ \A k \in 1 .. n.case - 1 : t.does[k] \notin DOMAIN Stops

(* A judge with its verdict.                                               *)
AsDeserved(n, t) ==
  n.verdict # "system_error" =>
    /\ n.verdict = Deserved(t).status
    /\ n.passed = Deserved(t).passed /\ n.total = Deserved(t).total

LEMMA OneCaseMore ==
  ASSUME NEW t, Program(t), NEW c \in 1 .. Len(t.does)
  PROVE  /\ Weight(t, 1 .. c) = Weight(t, 1 .. c - 1) + t.weights[c]
         /\ Weight(t, RightBefore(t, c + 1)) =
              Weight(t, RightBefore(t, c)) + IF t.does[c] = "right" THEN t.weights[c] ELSE 0
<1>1. c \in 1 .. Len(t.weights) /\ c \in Nat /\ c + 1 - 1 = c
  BY DEF Program
<1>2. 1 .. c = (1 .. c - 1) \cup {c} /\ c \notin 1 .. c - 1
  BY <1>1
<1>3. Weight(t, 1 .. c) = Weight(t, 1 .. c - 1) + t.weights[c]
  <2> DEFINE ks == 1 .. c - 1
  <2> HIDE DEF ks
  <2>1. c \notin ks /\ 1 .. c = ks \cup {c}
    BY <1>2 DEF ks
  <2>2. Weight(t, ks \cup {c}) = Weight(t, ks) + t.weights[c]
    BY <1>1, <2>1, WeightOfOneMore
  <2>3. QED
    BY <2>1, <2>2 DEF ks
<1> DEFINE ks == RightBefore(t, c)
           more == RightBefore(t, c + 1)
<1>4. c \notin ks
  BY <1>2 DEF RightBefore
<1>5. Weight(t, ks) \in Nat
  BY <1>1, <1>4, WeightOfOneMore
<1>6. CASE t.does[c] = "right"
  <2>1. more = ks \cup {c}
    BY <1>1, <1>2, <1>6 DEF RightBefore
  <2> HIDE DEF ks, more
  <2>2. Weight(t, more) = Weight(t, ks) + t.weights[c]
    BY <1>1, <1>4, <2>1, WeightOfOneMore
  <2>3. QED
    BY <1>3, <1>6, <2>2 DEF ks, more
<1>7. CASE t.does[c] # "right"
  <2>1. more = ks
    BY <1>1, <1>2, <1>7 DEF RightBefore
  <2> HIDE DEF ks, more
  <2>2. Weight(t, more) = Weight(t, ks) + 0
    BY <1>5, <2>1
  <2>3. QED
    BY <1>3, <1>7, <2>2 DEF ks, more
<1>8. QED
  BY <1>6, <1>7

(* A wrong output weighs something.                                        *)
LEMMA WrongIsLess ==
  ASSUME NEW t, Program(t), NEW c \in 1 .. Len(t.does)
  PROVE  Weight(t, RightBefore(t, c + 1)) < Weight(t, 1 .. c)
         <=> \E k \in 1 .. c : t.does[k] # "right"
<1> DEFINE right == RightBefore(t, c + 1)
           all == 1 .. c
<1>1. c \in Nat /\ c + 1 - 1 = c /\ Len(t.does) = Len(t.weights) /\ Len(t.does) \in Nat
  BY DEF Program
<1>2. right = {k \in all : t.does[k] = "right"}
  BY <1>1 DEF RightBefore
<1>3. CASE \E k \in all : t.does[k] # "right"
  <2>1. PICK k \in all : t.does[k] # "right"
    BY <1>3
  <2>2. k \in 1 .. Len(t.weights)
    BY <1>1
  <2> DEFINE rest == all \ {k}
  <2>3. right \subseteq rest /\ k \notin rest /\ all = rest \cup {k} /\ k \notin right
    BY <1>2, <2>1
  <2> HIDE DEF rest, all, right
  <2>4. /\ Weight(t, rest) \in Nat /\ t.weights[k] \in Nat \ {0}
        /\ Weight(t, all) = Weight(t, rest) + t.weights[k]
    BY <2>2, <2>3, WeightOfOneMore
  <2>5. Weight(t, right) \in Nat
    BY <2>2, <2>3, WeightOfOneMore
  <2>6. Weight(t, right) =< Weight(t, rest)
    BY <2>3, MoreWeighsMore
  <2>7. Weight(t, right) < Weight(t, all)
    BY <2>4, <2>5, <2>6
  <2>8. QED
    BY <1>3, <2>7 DEF all, right
<1>4. CASE \A k \in all : t.does[k] = "right"
  <2>1. right = all
    BY <1>2, <1>4
  <2>2. c \in 1 .. Len(t.weights) /\ c \notin 1 .. c - 1
    BY <1>1
  <2>3. Weight(t, all) \in Nat
    <3>1. t.weights[c] \in Nat /\ Weight(t, 1 .. c - 1) \in Nat
      <4> DEFINE ks == 1 .. c - 1
      <4>1. c \notin ks
        BY <2>2
      <4> HIDE DEF ks
      <4>2. t.weights[c] \in Nat /\ Weight(t, ks) \in Nat
        BY <2>2, <4>1, WeightOfOneMore
      <4>3. QED
        BY <4>2 DEF ks
    <3>2. QED
      BY <3>1, OneCaseMore
  <2> HIDE DEF right, all
  <2>4. ~(Weight(t, right) < Weight(t, all))
    BY <2>1, <2>3
  <2>5. QED
    BY <1>4, <2>4 DEF all, right
<1>5. QED
  BY <1>3, <1>4

(* What a program deserves that is stopped at test case c, and one that is *)
(* not stopped.                                                            *)
LEMMA DeservedAtStop ==
  ASSUME NEW t, Program(t), NEW c \in 1 .. Len(t.does), t.does[c] \in DOMAIN Stops,
         \A k \in 1 .. c - 1 : t.does[k] \notin DOMAIN Stops
  PROVE  /\ Deserved(t).status = Stops[t.does[c]] /\ Deserved(t).task = t
         /\ Deserved(t).passed = Weight(t, RightBefore(t, c + 1))
         /\ Deserved(t).total = Weight(t, 1 .. c)
<1> DEFINE stops == {k \in DOMAIN t.does : t.does[k] \in DOMAIN Stops}
<1>1. DOMAIN t.does = 1 .. Len(t.does) /\ Len(t.does) \in Nat
  BY DEF Program
<1>2. c \in stops /\ \A k \in stops : c =< k
  BY <1>1
<1>3. \A k \in stops : k =< c => k = c
  BY <1>1, <1>2
<1>4. stops # {} /\ Min(stops) = c
  <2> HIDE DEF stops
  <2>1. Min(stops) \in stops /\ \A k \in stops : Min(stops) =< k
    BY <1>2 DEF Min
  <2>2. QED
    BY <1>2, <1>3, <2>1
<1> DEFINE right == {k \in 1 .. c : t.does[k] = "right"}
<1>5. RightBefore(t, c + 1) = right
  <2>1. c + 1 - 1 = c
    BY <1>1
  <2>2. QED
    BY <2>1 DEF RightBefore
<1>6. Deserved(t) = [status |-> Stops[t.does[c]], task |-> t,
                     passed |-> Weight(t, right), total |-> Weight(t, 1 .. c)]
  BY <1>4 DEF Deserved
<1> HIDE DEF right
<1>7. QED
  BY <1>5, <1>6

LEMMA DeservedAtEnd ==
  ASSUME NEW t, Program(t), \A k \in 1 .. Len(t.does) : t.does[k] \notin DOMAIN Stops
  PROVE  /\ Deserved(t).status = IF \A k \in 1 .. Len(t.does) : t.does[k] = "right"
                                 THEN "accepted" ELSE "wrong_answer"
         /\ Deserved(t).task = t
         /\ Deserved(t).passed = Weight(t, RightBefore(t, Len(t.does) + 1))
         /\ Deserved(t).total = Weight(t, 1 .. Len(t.does))
<1> DEFINE L == Len(t.does)
<1>1. DOMAIN t.does = 1 .. L /\ L \in Nat /\ L + 1 - 1 = L
  BY DEF Program
<1>2. {k \in DOMAIN t.does : t.does[k] \in DOMAIN Stops} = {}
  BY <1>1
<1> HIDE DEF L
<1> DEFINE right == {k \in 1 .. L : t.does[k] = "right"}
           verdict == IF \A k \in 1 .. L : t.does[k] = "right"
                      THEN "accepted" ELSE "wrong_answer"
<1>3. RightBefore(t, L + 1) = right
  BY <1>1 DEF RightBefore
<1>4. Deserved(t) = [status |-> verdict, task |-> t,
                     passed |-> Weight(t, right), total |-> Weight(t, 1 .. L)]
  BY <1>1, <1>2 DEF Deserved
<1> HIDE DEF right
<1>5. QED
  BY <1>3, <1>4 DEF L

-----------------------------------------------------------------------------
(* Daemons that are no two judges' own, with the containers created.       *)
HostsAreReady ==
  "docker_warm" \in Modes =>
    PreCreated /\ \A i, j \in Judges : Host[i] = Host[j] => i = j

Just(n) ==
  n.pc \in Evaluating /\ n.at \notin disturbed =>
    /\ n.pc \in {"start", "copy", "run"} => CountedSoFar(n, row[n.at].task)
    /\ n.pc \in {"stop", "report"} => AsDeserved(n, row[n.at].task)

(* The container c of judge n has what it copied, and runs.                *)
OwnsContainer(n, c) ==
  n.mode = "docker_warm" =>
    /\ c.exists
    /\ n.pc \in {"copy", "run"} /\ n.at \notin disturbed => c.running
    /\ n.pc = "run" /\ n.at \notin disturbed => c.source = n.at

JustInv ==
  /\ JudgeInv
  /\ \A j \in Judges : Just(judge[j])
  /\ \A j \in Judges : OwnsContainer(judge[j], Warm(j))
  /\ VerdictDeserved

(* A test case counted.                                                    *)
LEMMA CountIsJust ==
  ASSUME JudgeInv, NEW j \in Judges, judge[j].pc = "run",
         NEW o, o = row[judge[j].at].task.does[judge[j].case],
         CountedSoFar(judge[j], row[judge[j].at].task),
         judge[j].at \notin disturbed
  PROVE  Just(Count(j, o))
<1> DEFINE t == row[judge[j].at].task
           c == judge[j].case
           n == Count(j, o)
<1>1. Program(t) /\ c \in 1 .. Len(t.does) /\ o = t.does[c] /\ o \in Outcomes
  <2>1. Program(t)
    BY Task DEF Evaluating, Program
  <2>2. c \in DOMAIN t.does
    BY Present DEF Fits
  <2>3. DOMAIN t.does = 1 .. Len(t.does) /\ \A k \in 1 .. Len(t.does) : t.does[k] \in Outcomes
    BY <2>1, ElementsOf DEF Program
  <2>4. QED
    BY <2>1, <2>2, <2>3
<1>2. /\ judge[j] \in Judge /\ judge[j].passed \in Nat /\ judge[j].total \in Nat
      /\ c \in Nat /\ Len(t.does) \in Nat /\ Len(t.does) = Len(t.weights)
  BY <1>1, Present DEF Judge, Program
<1>3. /\ judge[j].passed = Weight(t, RightBefore(t, c))
      /\ judge[j].total = Weight(t, 1 .. c - 1)
      /\ \A k \in 1 .. c - 1 : t.does[k] \notin DOMAIN Stops
  BY DEF CountedSoFar
<1>4. /\ Weight(t, 1 .. c) = Weight(t, 1 .. c - 1) + t.weights[c]
      /\ Weight(t, RightBefore(t, c + 1)) =
           Weight(t, RightBefore(t, c)) + IF o = "right" THEN t.weights[c] ELSE 0
  BY <1>1, OneCaseMore
<1> DEFINE passed == judge[j].passed + IF o = "right" THEN t.weights[c] ELSE 0
           total == judge[j].total + t.weights[c]
           ended == o \in DOMAIN Stops \/ c = Len(t.does)
           verdict == CASE o \in DOMAIN Stops -> Stops[o]
                        [] ended /\ o \notin DOMAIN Stops ->
                             IF passed < total THEN "wrong_answer" ELSE "accepted"
                        [] OTHER -> "none"
<1>5. passed = Weight(t, RightBefore(t, c + 1)) /\ total = Weight(t, 1 .. c)
  BY <1>3, <1>4
<1>6. /\ n.passed = passed /\ n.total = total /\ n.case = c + 1 /\ n.at = judge[j].at
      /\ n.pc = (IF ended THEN AfterRun(j) ELSE "run") /\ n.verdict = verdict
  BY <1>2 DEF Count, Charged, Judge
<1> HIDE DEF n, passed, total
<1>7. CASE ~ended
  <2>1. n.pc = "run" /\ c + 1 - 1 = c
    BY <1>2, <1>6, <1>7
  <2>2. \A k \in 1 .. c : t.does[k] \notin DOMAIN Stops
    <3>1. \A k \in 1 .. c : k = c \/ k \in 1 .. c - 1
      BY <1>2
    <3>2. QED
      BY <1>1, <1>3, <1>7, <3>1
  <2>3. CountedSoFar(n, t)
    <3>1. n.case = c + 1 /\ n.case - 1 = c
      <4> DEFINE m == n.case
      <4>1. m = c + 1 /\ c \in Nat
        BY <1>2, <1>6
      <4> HIDE DEF m, c
      <4>2. m - 1 = c
        BY <4>1
      <4>3. QED
        BY <4>1, <4>2 DEF m
    <3>2. n.passed = Weight(t, RightBefore(t, n.case)) /\ n.total = Weight(t, 1 .. n.case - 1)
      BY <1>5, <1>6, <3>1
    <3>3. QED
      BY <2>2, <3>1, <3>2 DEF CountedSoFar
  <2>4. QED
    BY <1>6, <2>1, <2>3 DEF Just, n
<1>8. ASSUME ended PROVE AsDeserved(n, t)
  <2>1. CASE o \in DOMAIN Stops
    <3>1. verdict = Stops[o]
      BY <2>1
    <3>2. /\ Deserved(t).status = Stops[o]
          /\ Deserved(t).passed = passed /\ Deserved(t).total = total
      <4>1. t.does[c] \in DOMAIN Stops
        BY <1>1, <2>1
      <4>2. /\ Deserved(t).status = Stops[t.does[c]]
            /\ Deserved(t).passed = Weight(t, RightBefore(t, c + 1))
            /\ Deserved(t).total = Weight(t, 1 .. c)
        BY <1>1, <1>3, <4>1, DeservedAtStop
      <4>3. QED
        BY <1>1, <1>5, <4>2
    <3> HIDE DEF verdict
    <3>3. QED
      BY <1>6, <3>1, <3>2 DEF AsDeserved
  <2>2. CASE o \notin DOMAIN Stops
    <3>1. c = Len(t.does)
      BY <1>8, <2>2
    <3>2. verdict = IF passed < total THEN "wrong_answer" ELSE "accepted"
      BY <1>8, <2>2
    <3>3. \A k \in 1 .. Len(t.does) : t.does[k] \notin DOMAIN Stops
      <4>1. \A k \in 1 .. Len(t.does) : k = c \/ k \in 1 .. c - 1
        BY <1>2, <3>1
      <4>2. QED
        BY <1>1, <1>3, <2>2, <4>1
    <3>4. passed < total <=> \E k \in 1 .. Len(t.does) : t.does[k] # "right"
      <4>1. Weight(t, RightBefore(t, c + 1)) < Weight(t, 1 .. c)
            <=> \E k \in 1 .. c : t.does[k] # "right"
        BY <1>1, WrongIsLess
      <4>2. QED
        BY <1>5, <3>1, <4>1
    <3>5. /\ Deserved(t).status = IF \A k \in 1 .. Len(t.does) : t.does[k] = "right"
                                  THEN "accepted" ELSE "wrong_answer"
          /\ Deserved(t).passed = Weight(t, RightBefore(t, Len(t.does) + 1))
          /\ Deserved(t).total = Weight(t, 1 .. Len(t.does))
      BY <1>1, <3>3, DeservedAtEnd
    <3> HIDE DEF verdict
    <3>6. Deserved(t).status = verdict
      BY <3>2, <3>4, <3>5
    <3>7. Deserved(t).passed = passed /\ Deserved(t).total = total
      BY <1>5, <3>1, <3>5
    <3>8. QED
      BY <1>6, <3>6, <3>7 DEF AsDeserved
  <2>3. QED
    BY <2>1, <2>2
<1>9. CASE ended
  <2>1. n.pc \in {"stop", "report"}
    BY <1>6, <1>9 DEF AfterRun
  <2>2. AsDeserved(n, t)
    BY <1>8, <1>9
  <2>3. QED
    BY <1>6, <2>1, <2>2 DEF Just, n
<1>10. QED
  BY <1>7, <1>9

(* A step of one judge says nothing of the others: their programs, their   *)
(* counts and their containers stay what they are.                         *)
LEMMA OthersStayJust ==
  ASSUME HostsAreReady, JustInv, JudgeInv', NEW j \in Judges, NEW n,
         judge' = [judge EXCEPT ![j] = n],
         \A s \in Submissions : row[s].status # "absent" => row'[s].task = row[s].task,
         disturbed \subseteq disturbed',
         \A h \in Hosts : h # Host[j] => container'[h] = container[h],
         Just(n)', OwnsContainer(n, container[Host[j]])', VerdictDeserved'
  PROVE  JustInv'
<1>1. /\ judge \in [Judges -> Judge] /\ judge'[j] = n
      /\ \A i \in Judges : i # j => judge'[i] = judge[i]
  BY DEF JustInv, JudgeInv, TypeOK
<1>2. ASSUME NEW i \in Judges PROVE Just(judge[i])'
  <2>1. CASE i = j
    BY <1>1, <2>1 DEF Just
  <2>2. CASE i # j
    <3>1. judge'[i] = judge[i] /\ Just(judge[i])
      BY <1>1, <2>2 DEF JustInv
    <3>2. judge[i].pc \in Evaluating => row'[judge[i].at].task = row[judge[i].at].task
      BY Task DEF JustInv
    <3>3. QED
      BY <3>1, <3>2 DEF Just
  <2>3. QED
    BY <2>1, <2>2
<1>3. ASSUME NEW i \in Judges PROVE OwnsContainer(judge[i], Warm(i))'
  <2>1. CASE i = j
    BY <1>1, <2>1 DEF OwnsContainer, Warm
  <2>2. CASE i # j
    <3>1. judge'[i] = judge[i] /\ OwnsContainer(judge[i], Warm(i)) /\ judge[i] \in Judge
      BY <1>1, <2>2 DEF JustInv
    <3>2. judge[i].mode = "docker_warm" => container'[Host[i]] = container[Host[i]]
      <4>1. judge[i].mode \in Modes /\ Host[i] \in Hosts
        BY <3>1, JudgeAssumption DEF Judge
      <4>2. QED
        BY <2>2, <4>1 DEF HostsAreReady
    <3>3. QED
      BY <3>1, <3>2 DEF OwnsContainer, Warm
  <2>3. QED
    BY <2>1, <2>2
<1>4. QED
  BY <1>2, <1>3 DEF JustInv

(* What leaves the rows alone leaves the verdicts alone.                   *)
LEMMA VerdictsStay ==
  ASSUME VerdictDeserved, row' = row, disturbed \subseteq disturbed'
  PROVE  VerdictDeserved'
BY DEF VerdictDeserved, Terminal

(* A judge that is not evaluating is just, and so is one that says it could *)
(* not judge.                                                              *)
LEMMA IdlersAreJust ==
  ASSUME NEW n, \/ n.pc \notin Evaluating
                \/ n.pc \in {"stop", "report"} /\ n.verdict = "system_error"
  PROVE  Just(n)'
BY DEF Just, AsDeserved, Evaluating

LEMMA IdlersOwn ==
  ASSUME NEW n, n.pc \notin {"copy", "run"}, NEW c, n.mode = "docker_warm" => c.exists
  PROVE  OwnsContainer(n, c)
BY DEF OwnsContainer

(* The usual step: judge j alone moves, without docker.                    *)
LEMMA QuietMove ==
  ASSUME HostsAreReady, JustInv, JudgeInv', NEW j \in Judges, NEW n,
         judge' = [judge EXCEPT ![j] = n], UNCHANGED <<row, container, disturbed>>,
         n.mode = judge[j].mode,
         \/ n.pc \notin Evaluating
         \/ n.pc \in {"stop", "report"} /\ n.verdict = "system_error"
  PROVE  JustInv'
<1>1. Just(n)'
  BY IdlersAreJust
<1>2. OwnsContainer(judge[j], container[Host[j]])
  BY DEF JustInv, Warm
<1>3. OwnsContainer(n, container'[Host[j]])
  <2>1. n.pc \notin {"copy", "run"}
    BY DEF Evaluating
  <2>2. n.mode = "docker_warm" => container'[Host[j]].exists
    BY <1>2 DEF OwnsContainer
  <2>3. QED
    BY <2>1, <2>2, IdlersOwn
<1>4. OwnsContainer(n, container[Host[j]])'
  BY <1>3 DEF OwnsContainer
<1>5. VerdictDeserved'
  BY VerdictsStay DEF JustInv
<1>6. QED
  BY <1>1, <1>4, <1>5, OthersStayJust

LEMMA CreateIsJust ==
  ASSUME JustInv, NEW s \in Submissions, NEW t \in Tasks, CreateSubmission(s, t)
  PROVE  JustInv'
<1>1. /\ row \in [Submissions -> Row] /\ row[s].status = "absent"
      /\ row' = [row EXCEPT ![s].status = "queued", ![s].task = t]
      /\ UNCHANGED <<judge, container, disturbed>>
  BY DEF JustInv, JudgeInv, TypeOK, CreateSubmission
<1>2. row'[s].status = "queued" /\ \A r \in Submissions : r # s => row'[r] = row[r]
  BY <1>1 DEF Row
<1>3. ASSUME NEW i \in Judges PROVE Just(judge[i])' /\ OwnsContainer(judge[i], Warm(i))'
  <2>1. judge'[i] = judge[i] /\ Just(judge[i]) /\ OwnsContainer(judge[i], Warm(i))
    BY <1>1 DEF JustInv
  <2>2. judge[i].pc \in Evaluating => row'[judge[i].at] = row[judge[i].at]
    BY <1>1, <1>2, Task DEF JustInv
  <2>3. Just(judge[i])'
    BY <1>1, <2>1, <2>2 DEF Just
  <2>4. OwnsContainer(judge[i], Warm(i))'
    BY <1>1, <2>1 DEF OwnsContainer, Warm
  <2>5. QED
    BY <2>3, <2>4
<1>4. VerdictDeserved'
  BY <1>1, <1>2 DEF JustInv, VerdictDeserved, Terminal, Verdicts
<1>5. JudgeInv'
  BY CreateKeeps DEF JustInv
<1>6. QED
  BY <1>3, <1>4, <1>5 DEF JustInv

LEMMA CommitIsJust ==
  ASSUME HostsAreReady, JustInv, NEW j \in Judges, CommitClaim(j)
  PROVE  JustInv'
<1>0. PICK n : n = [judge[j] EXCEPT !.pc = "claimed"]
  OBVIOUS
<1>1. /\ judge[j] \in Judge /\ row \in [Submissions -> Row] /\ JudgeInv /\ JudgeInv'
  BY Present, CommitKeeps DEF JustInv, JudgeInv, TypeOK
<1>2. /\ judge' = [judge EXCEPT ![j] = n] /\ n.pc = "claimed" /\ n.mode = judge[j].mode
      /\ UNCHANGED <<container, disturbed>>
  BY <1>0, <1>1 DEF CommitClaim, Judge
<1>3. \A s \in Submissions : \/ row'[s] = row[s]
                             \/ /\ row[s].status = "queued" /\ row'[s].status = "running"
                                /\ row'[s].task = row[s].task
  BY <1>1 DEF CommitClaim, Row
<1>4. VerdictDeserved'
  BY <1>2, <1>3 DEF JustInv, VerdictDeserved, Terminal, Verdicts
<1>5. Just(n)'
  BY <1>2, IdlersAreJust DEF Evaluating
<1>6. OwnsContainer(n, container[Host[j]])'
  BY <1>2 DEF JustInv, OwnsContainer, Warm
<1>7. \A s \in Submissions : row[s].status # "absent" => row'[s].task = row[s].task
  BY <1>3
<1>8. QED
  BY <1>1, <1>2, <1>4, <1>5, <1>6, <1>7, OthersStayJust

(* The verdict written is the one deserved.                                *)
LEMMA DeservedIsARow ==
  ASSUME NEW t
  PROVE  Deserved(t) = [status |-> Deserved(t).status, task |-> t,
                        passed |-> Deserved(t).passed, total |-> Deserved(t).total]
<1> DEFINE cases == DOMAIN t.does
           stops == {k \in cases : t.does[k] \in DOMAIN Stops}
           seen == IF stops = {} THEN cases ELSE 1 .. Min(stops)
           verdict == IF stops # {} THEN Stops[t.does[Min(stops)]]
                      ELSE IF \A k \in cases : t.does[k] = "right" THEN "accepted"
                      ELSE "wrong_answer"
           passed == Weight(t, {k \in seen : t.does[k] = "right"})
           total == Weight(t, seen)
<1>1. Deserved(t) = [status |-> verdict, task |-> t, passed |-> passed, total |-> total]
  BY DEF Deserved
<1> HIDE DEF verdict, passed, total
<1>2. QED
  BY <1>1

LEMMA CompleteIsJust ==
  ASSUME HostsAreReady, JustInv, NEW j \in Judges, CompleteSubmission(j)
  PROVE  JustInv'
<1>0. PICK n : n = [judge[j] EXCEPT !.pc = "next", !.at = None]
  OBVIOUS
<1> DEFINE b == judge[j].at
           t == row[b].task
<1>1. /\ judge[j] \in Judge /\ row \in [Submissions -> Row] /\ JudgeInv /\ JudgeInv'
  BY Present, CompleteKeeps DEF JustInv, JudgeInv, TypeOK
<1>2. /\ judge[j].pc = "report" /\ judge' = [judge EXCEPT ![j] = n]
      /\ UNCHANGED <<container, disturbed>> /\ n.pc = "next" /\ n.mode = judge[j].mode
  BY <1>0, <1>1 DEF CompleteSubmission, Judge
<1>3. b \in Submissions /\ row[b].status = "running"
  BY <1>1, <1>2, Task DEF Evaluating
<1>4. row' = [row EXCEPT ![b].status = judge[j].verdict, ![b].passed = judge[j].passed,
                         ![b].total = judge[j].total]
  BY <1>3 DEF CompleteSubmission
<1>5. /\ row'[b] = [status |-> judge[j].verdict, task |-> t,
                    passed |-> judge[j].passed, total |-> judge[j].total]
      /\ \A s \in Submissions : s # b => row'[s] = row[s]
  BY <1>1, <1>3, <1>4 DEF Row
<1>6. b \notin disturbed => AsDeserved(judge[j], t)
  BY <1>2 DEF JustInv, Just, Evaluating
<1>7. b \notin disturbed /\ judge[j].verdict # "system_error" => row'[b] = Deserved(t)
  BY <1>5, <1>6, DeservedIsARow DEF AsDeserved
<1> HIDE DEF t
<1>8. row'[b].status = judge[j].verdict /\ row'[b].task = t
  BY <1>5
<1>9. VerdictDeserved'
  <2> SUFFICES ASSUME NEW s \in Submissions, Terminal(s)', row'[s].status # "system_error",
                      s \notin disturbed'
               PROVE  row'[s] = Deserved(row'[s].task)
    BY DEF VerdictDeserved
  <2>1. CASE s = b
    BY <1>2, <1>7, <1>8, <2>1
  <2>2. CASE s # b
    BY <1>2, <1>5, <2>2 DEF JustInv, VerdictDeserved, Terminal
  <2>3. QED
    BY <2>1, <2>2
<1>10. Just(n)'
  BY <1>2, IdlersAreJust DEF Evaluating
<1>11. OwnsContainer(n, container[Host[j]])'
  BY <1>2 DEF JustInv, OwnsContainer, Warm
<1>12. \A s \in Submissions : row[s].status # "absent" => row'[s].task = row[s].task
  BY <1>5, <1>8 DEF t
<1>13. QED
  BY <1>1, <1>2, <1>9, <1>10, <1>11, <1>12, OthersStayJust

(* Going on with what has been counted so far, or with the verdict.        *)
LEMMA GoesOnJustly ==
  ASSUME JustInv, NEW j \in Judges, NEW pc, NEW n, n = [judge[j] EXCEPT !.pc = pc],
         \/ judge[j].pc \in {"start", "copy"} /\ pc \in {"copy", "run"}
         \/ judge[j].pc = "stop" /\ pc = "report",
         row' = row, disturbed \subseteq disturbed'
  PROVE  Just(n)'
<1>1. judge[j] \in Judge /\ Just(judge[j])
  BY Present DEF JustInv
<1>2. /\ n.pc = pc /\ n.at = judge[j].at /\ n.case = judge[j].case
      /\ n.verdict = judge[j].verdict /\ n.passed = judge[j].passed /\ n.total = judge[j].total
  BY <1>1 DEF Judge
<1>3. SUFFICES ASSUME n.at \notin disturbed'
               PROVE  /\ pc \in {"copy", "run"} => CountedSoFar(n, row[n.at].task)
                      /\ pc = "report" => AsDeserved(n, row[n.at].task)
  BY <1>2 DEF Just, Evaluating
<1>4. ASSUME pc \in {"copy", "run"} PROVE CountedSoFar(n, row[n.at].task)
  <2>1. CountedSoFar(judge[j], row[judge[j].at].task)
    BY <1>1, <1>2, <1>3, <1>4 DEF Just, Evaluating
  <2>2. QED
    BY <1>2, <2>1 DEF CountedSoFar
<1>5. ASSUME pc = "report" PROVE AsDeserved(n, row[n.at].task)
  <2>1. AsDeserved(judge[j], row[judge[j].at].task)
    BY <1>1, <1>2, <1>3, <1>5 DEF Just, Evaluating
  <2>2. QED
    BY <1>2, <2>1 DEF AsDeserved
<1>6. QED
  BY <1>4, <1>5

LEMMA TakeIsJust ==
  ASSUME HostsAreReady, JustInv, NEW j \in Judges, TakeNext(j)
  PROVE  JustInv'
<1> DEFINE s == Min(judge[j].batch)
           unjudged == judge[j].mode = "disabled" \/ row[s].task.does = <<>>
<1>1. /\ judge[j] \in Judge /\ Fits(judge[j]) /\ JudgeInv /\ JudgeInv'
  BY Present, StepKeeps DEF JustInv, Step
<1>2. PICK n : n = IF unjudged THEN Take(j, s, "report", "system_error")
                               ELSE Take(j, s, "start", "none")
  OBVIOUS
<1>3. /\ judge[j].pc = "next" /\ judge' = [judge EXCEPT ![j] = n]
      /\ UNCHANGED <<row, container, disturbed>>
  BY <1>2 DEF TakeNext
<1>4. s \in judge[j].batch
  BY <1>1, OldestExists DEF TakeNext, Judge
<1> HIDE DEF s
<1>5. n.mode = judge[j].mode /\ n.at = s
  BY <1>1, <1>2 DEF Take, Judge
<1>6. CASE unjudged
  <2>1. n.pc = "report" /\ n.verdict = "system_error"
    BY <1>1, <1>2, <1>6 DEF Take, Judge
  <2>2. QED
    BY <1>1, <1>3, <1>5, <2>1, QuietMove
<1>7. CASE ~unjudged
  <2>1. n.pc = "start" /\ n.case = 1 /\ n.passed = 0 /\ n.total = 0
    BY <1>1, <1>2, <1>7 DEF Take, Judge
  <2>2. Program(row[s].task)
    <3>1. s \in Submissions /\ row[s].status = "running"
      BY <1>1, <1>3, <1>4 DEF Fits, Has, Judge
    <3>2. row[s].task \in Tasks
      BY <1>1, <3>1 DEF JudgeInv, RowsInv
    <3>3. QED
      BY <3>2, JudgeAssumption DEF Program
  <2>3. CountedSoFar(n, row[s].task)
    <3> DEFINE t == row[s].task
    <3>1. 1 .. n.case - 1 = {}
      BY <2>1
    <3>2. RightBefore(t, n.case) = {}
      BY <3>1 DEF RightBefore
    <3>3. Weight(t, {}) = 0
      BY <2>2, WeightOfNothing
    <3> HIDE DEF t
    <3>4. CountedSoFar(n, t)
      BY <2>1, <3>1, <3>2, <3>3 DEF CountedSoFar
    <3>5. QED
      BY <3>4 DEF t
  <2>4. Just(n)'
    BY <1>3, <1>5, <2>1, <2>3 DEF Just
  <2>5. OwnsContainer(n, container[Host[j]])'
    <3>1. OwnsContainer(judge[j], container[Host[j]])
      BY DEF JustInv, Warm
    <3>2. QED
      BY <1>3, <1>5, <2>1, <3>1 DEF OwnsContainer
  <2>6. VerdictDeserved'
    BY <1>3, VerdictsStay DEF JustInv
  <2>7. QED
    BY <1>1, <1>3, <2>4, <2>5, <2>6, OthersStayJust
<1>8. QED
  BY <1>6, <1>7

LEMMA RunIsJust ==
  ASSUME HostsAreReady, JustInv, NEW j \in Judges, RunCase(j)
  PROVE  JustInv'
<1>1. /\ judge[j] \in Judge /\ JudgeInv /\ JudgeInv' /\ Just(judge[j])
      /\ OwnsContainer(judge[j], container[Host[j]])
  BY Present, StepKeeps DEF JustInv, Step, Warm
<1>2. PICK o \in Seen(j) : judge' = [judge EXCEPT ![j] = Count(j, o)]
  BY DEF RunCase
<1>3. PICK n : n = Count(j, o)
  OBVIOUS
<1>4. /\ judge[j].pc = "run" /\ judge' = [judge EXCEPT ![j] = n]
      /\ UNCHANGED <<row, container, disturbed>>
  BY <1>2, <1>3 DEF RunCase
<1>5. n.mode = judge[j].mode /\ n.at = judge[j].at /\ n.pc # "copy"
  BY <1>1, <1>3 DEF Count, Judge, AfterRun
<1>6. Just(n)'
  <2>1. CASE n.at \in disturbed
    BY <1>4, <2>1 DEF Just
  <2>2. CASE n.at \notin disturbed
    <3>1. o = row[judge[j].at].task.does[judge[j].case]
      <4> DEFINE own == row[judge[j].at].task.does[judge[j].case]
      <4>1. CASE judge[j].mode # "docker_warm"
        <5>1. Seen(j) = {own}
          BY <4>1 DEF Seen
        <5>2. QED
          BY <1>2, <5>1
      <4>2. CASE judge[j].mode = "docker_warm"
        <5>1. container[Host[j]].running /\ container[Host[j]].source = judge[j].at
          BY <1>1, <1>4, <1>5, <2>2, <4>2 DEF OwnsContainer
        <5> DEFINE inside == CASE Warm(j).source = judge[j].at -> {own}
                               [] Warm(j).source = None -> {"crash", "reject"}
                               [] OTHER -> Outcomes
        <5>2. judge[j].at # None
          BY <1>1, <1>4, Present DEF Fits, Evaluating
        <5>3. inside = {own}
          BY <5>1, <5>2 DEF Warm
        <5> DEFINE gone == judge[j].mode = "docker_warm" /\ ~Warm(j).running
                   there == judge[j].mode = "docker_warm" /\ Warm(j).running
        <5>4. ~gone /\ there
          BY <4>2, <5>1 DEF Warm
        <5>5. Seen(j) = CASE judge[j].mode # "docker_warm" -> {own}
                          [] gone -> {"crash", "reject"}
                          [] there -> inside
          BY DEF Seen
        <5> HIDE DEF inside, own, gone, there
        <5>6. Seen(j) = {own}
          BY <4>2, <5>3, <5>4, <5>5
        <5>7. QED
          BY <1>2, <5>6 DEF own
      <4>3. QED
        BY <4>1, <4>2
    <3>2. CountedSoFar(judge[j], row[judge[j].at].task)
      BY <1>1, <1>4, <1>5, <2>2 DEF Just, Evaluating
    <3>3. Just(n)
      BY <1>1, <1>3, <1>4, <1>5, <2>2, <3>1, <3>2, CountIsJust
    <3>4. QED
      BY <1>4, <3>3 DEF Just
  <2>3. QED
    BY <2>1, <2>2
<1>7. OwnsContainer(n, container[Host[j]])'
  BY <1>1, <1>4, <1>5 DEF OwnsContainer
<1>8. VerdictDeserved'
  BY <1>4, VerdictsStay DEF JustInv
<1>9. QED
  BY <1>1, <1>4, <1>6, <1>7, <1>8, OthersStayJust

LEMMA StepIsJust ==
  ASSUME HostsAreReady, JustInv, NEW j \in Judges, Step(j)
  PROVE  JustInv'
<1>1. /\ judge[j] \in Judge /\ JudgeInv /\ JudgeInv' /\ Just(judge[j])
      /\ container \in [Hosts -> Container] /\ Host[j] \in Hosts
      /\ OwnsContainer(judge[j], container[Host[j]]) /\ VerdictDeserved
  BY Present, StepKeeps DEF JustInv, Warm
<1>2. CASE SelectQueued(j)
  <2> DEFINE B == Oldest({s \in Submissions : row[s].status = "queued"} \ Locked)
  <2>1. PICK n : n = [judge[j] EXCEPT !.pc = "claiming", !.batch = B]
    OBVIOUS
  <2>2. judge' = [judge EXCEPT ![j] = n] /\ UNCHANGED <<row, container, disturbed>>
    BY <1>2, <2>1 DEF SelectQueued
  <2>3. n.pc = "claiming" /\ n.mode = judge[j].mode
    BY <1>1, <2>1 DEF Judge
  <2>4. QED
    BY <1>1, <2>2, <2>3, QuietMove DEF Evaluating
<1>3. CASE CommitClaim(j)
  BY <1>3, CommitIsJust
<1>4. CASE ReadBatch(j)
  <2>1. PICK n : n = [judge[j] EXCEPT !.pc = "next"]
    OBVIOUS
  <2>2. judge' = [judge EXCEPT ![j] = n] /\ UNCHANGED <<row, container, disturbed>>
    BY <1>4, <2>1 DEF ReadBatch
  <2>3. n.pc = "next" /\ n.mode = judge[j].mode
    BY <1>1, <2>1 DEF Judge
  <2>4. QED
    BY <1>1, <2>2, <2>3, QuietMove DEF Evaluating
<1>5. CASE EndBatch(j)
  <2>1. PICK n : n = IdleJudge(judge[j].mode)
    OBVIOUS
  <2>2. judge' = [judge EXCEPT ![j] = n] /\ UNCHANGED <<row, container, disturbed>>
    BY <1>5, <2>1 DEF EndBatch
  <2>3. n.pc = "idle" /\ n.mode = judge[j].mode
    BY <2>1 DEF IdleJudge
  <2>4. QED
    BY <1>1, <2>2, <2>3, QuietMove DEF Evaluating
<1>6. CASE TakeNext(j)
  BY <1>6, TakeIsJust
<1>7. CASE Prepare(j)
  <2>1. PICK n : n = [judge[j] EXCEPT !.pc = "run"]
    OBVIOUS
  <2>2. /\ judge' = [judge EXCEPT ![j] = n] /\ UNCHANGED <<row, container, disturbed>>
        /\ judge[j].pc = "start" /\ judge[j].mode # "docker_warm"
    BY <1>7, <2>1 DEF Prepare
  <2>3. Just(n)'
    BY <2>1, <2>2, GoesOnJustly
  <2>4. OwnsContainer(n, container[Host[j]])'
    BY <1>1, <2>1, <2>2 DEF OwnsContainer, Judge
  <2>5. VerdictDeserved'
    BY <1>1, <2>2, VerdictsStay
  <2>6. QED
    BY <1>1, <2>2, <2>3, <2>4, <2>5, OthersStayJust
<1>8. CASE StartContainer(j)
  <2>1. PICK n : n = [judge[j] EXCEPT !.pc = "copy"]
    OBVIOUS
  <2>2. /\ judge' = [judge EXCEPT ![j] = n] /\ UNCHANGED <<row, disturbed>>
        /\ judge[j].pc = "start" /\ judge[j].mode = "docker_warm"
        /\ container' = [container EXCEPT ![Host[j]].running = Warm(j).exists]
    BY <1>8, <2>1 DEF StartContainer
  <2>3. Just(n)'
    BY <2>1, <2>2, GoesOnJustly
  <2>4. container[Host[j]].exists
    BY <1>1, <2>2 DEF OwnsContainer
  <2>5. /\ \A h \in Hosts : h # Host[j] => container'[h] = container[h]
        /\ container'[Host[j]].exists /\ container'[Host[j]].running
    BY <1>1, <2>2, <2>4 DEF Container, Warm
  <2>6. n.pc = "copy"
    BY <1>1, <2>1 DEF Judge
  <2>7. OwnsContainer(n, container[Host[j]])'
    BY <2>5, <2>6 DEF OwnsContainer
  <2>8. VerdictDeserved'
    BY <1>1, <2>2, VerdictsStay
  <2>9. QED
    BY <1>1, <2>2, <2>3, <2>5, <2>7, <2>8, OthersStayJust
<1>9. CASE CopySource(j)
  <2>1. PICK n : n = [judge[j] EXCEPT !.pc = "run"]
    OBVIOUS
  <2>2. /\ judge' = [judge EXCEPT ![j] = n] /\ UNCHANGED <<row, disturbed>>
        /\ judge[j].pc = "copy"
        /\ container' = [container EXCEPT ![Host[j]].source =
                           IF Warm(j).running THEN judge[j].at ELSE @]
    BY <1>9, <2>1 DEF CopySource
  <2>3. Just(n)'
    BY <2>1, <2>2, GoesOnJustly
  <2>4. /\ \A h \in Hosts : h # Host[j] => container'[h] = container[h]
        /\ container'[Host[j]].exists = container[Host[j]].exists
        /\ container'[Host[j]].running = container[Host[j]].running
        /\ container[Host[j]].running => container'[Host[j]].source = judge[j].at
    BY <1>1, <2>2 DEF Container, Warm
  <2>5. n.pc = "run" /\ n.at = judge[j].at /\ n.mode = judge[j].mode
    BY <1>1, <2>1 DEF Judge
  <2>6. OwnsContainer(n, container[Host[j]])'
    BY <1>1, <2>2, <2>4, <2>5 DEF OwnsContainer
  <2>7. VerdictDeserved'
    BY <1>1, <2>2, VerdictsStay
  <2>8. QED
    BY <1>1, <2>2, <2>3, <2>4, <2>6, <2>7, OthersStayJust
<1>10. CASE RunCase(j)
  BY <1>10, RunIsJust
<1>11. CASE StopContainer(j)
  <2>1. PICK n : n = [judge[j] EXCEPT !.pc = "report"]
    OBVIOUS
  <2>2. /\ judge' = [judge EXCEPT ![j] = n] /\ UNCHANGED <<row, disturbed>>
        /\ judge[j].pc = "stop"
        /\ container' = [container EXCEPT ![Host[j]].running = FALSE,
                                           ![Host[j]].source = None]
    BY <1>11, <2>1 DEF StopContainer
  <2>3. Just(n)'
    BY <2>1, <2>2, GoesOnJustly
  <2>4. /\ \A h \in Hosts : h # Host[j] => container'[h] = container[h]
        /\ container'[Host[j]].exists = container[Host[j]].exists
    BY <1>1, <2>2 DEF Container
  <2>5. n.pc = "report" /\ n.mode = judge[j].mode
    BY <1>1, <2>1 DEF Judge
  <2>6. OwnsContainer(n, container[Host[j]])'
    BY <1>1, <2>4, <2>5 DEF OwnsContainer
  <2>7. VerdictDeserved'
    BY <1>1, <2>2, VerdictsStay
  <2>8. QED
    BY <1>1, <2>2, <2>3, <2>4, <2>6, <2>7, OthersStayJust
<1>12. CASE CompleteSubmission(j)
  BY <1>12, CompleteIsJust
<1>13. QED
  BY <1>2, <1>3, <1>4, <1>5, <1>6, <1>7, <1>8, <1>9, <1>10, <1>11, <1>12 DEF Step

LEMMA FailureIsJust ==
  ASSUME HostsAreReady, JustInv, NEW j \in Judges, Failure(j)
  PROVE  JustInv'
<1>1. /\ judge[j] \in Judge /\ JudgeInv /\ JudgeInv' /\ Just(judge[j])
      /\ OwnsContainer(judge[j], container[Host[j]]) /\ VerdictDeserved
      /\ Fits(judge[j])
  BY Present, FailureKeeps DEF JustInv, Warm
<1>2. ASSUME ClaimFails(j) \/ Crash(j) PROVE JustInv'
  <2>1. PICK n : n = IdleJudge(judge[j].mode)
    OBVIOUS
  <2>2. judge' = [judge EXCEPT ![j] = n] /\ UNCHANGED <<row, container, disturbed>>
    BY <1>2, <2>1 DEF ClaimFails, Crash
  <2>3. n.pc = "idle" /\ n.mode = judge[j].mode
    BY <2>1 DEF IdleJudge
  <2>4. QED
    BY <1>1, <2>2, <2>3, QuietMove DEF Evaluating
<1>3. CASE LoadFails(j)
  <2>1. PICK n : n = [judge[j] EXCEPT !.batch = judge[j].batch \ {Min(judge[j].batch)}]
    OBVIOUS
  <2>2. judge' = [judge EXCEPT ![j] = n] /\ UNCHANGED <<row, container, disturbed>>
        /\ judge[j].pc = "next"
    BY <1>3, <2>1 DEF LoadFails
  <2>3. n.pc = "next" /\ n.mode = judge[j].mode
    BY <1>1, <2>1, <2>2 DEF Judge
  <2>4. QED
    BY <1>1, <2>2, <2>3, QuietMove DEF Evaluating
<1>4. CASE EvaluatorFails(j)
  <2> DEFINE pc == IF judge[j].pc = "start" THEN "report" ELSE AfterRun(j)
  <2>1. PICK n : n = [judge[j] EXCEPT !.pc = pc, !.verdict = "system_error",
                                      !.passed = 0, !.total = 0]
    OBVIOUS
  <2>2. judge' = [judge EXCEPT ![j] = n] /\ UNCHANGED <<row, container, disturbed>>
    BY <1>4, <2>1 DEF EvaluatorFails
  <2>3. pc \in {"stop", "report"}
    BY DEF AfterRun
  <2> HIDE DEF pc
  <2>4. n.pc = pc /\ n.verdict = "system_error" /\ n.mode = judge[j].mode
    BY <1>1, <2>1 DEF Judge
  <2>5. QED
    BY <1>1, <2>2, <2>3, <2>4, QuietMove
<1>5. CASE DockerFails(j)
  <2>1. UNCHANGED <<row, container>> /\ disturbed' = disturbed \cup {judge[j].at}
    BY <1>5 DEF DockerFails
  <2>2. PICK n : /\ judge' = [judge EXCEPT ![j] = n]
                 /\ n = [judge[j] EXCEPT !.pc = "copy"] \/ n = [judge[j] EXCEPT !.pc = "run"]
                    \/ n = Count(j, "crash")
    BY <1>5 DEF DockerFails
  <2>3. n.at = judge[j].at /\ n.mode = judge[j].mode
    BY <1>1, <2>2 DEF Judge, Count
  <2>4. Just(n)'
    BY <2>1, <2>3 DEF Just
  <2>5. OwnsContainer(n, container[Host[j]])'
    BY <1>1, <2>1, <2>3 DEF OwnsContainer
  <2>6. VerdictDeserved'
    BY <1>1, <2>1, VerdictsStay
  <2>7. QED
    BY <1>1, <2>1, <2>2, <2>4, <2>5, <2>6, OthersStayJust
<1>6. CASE StopFails(j)
  <2>1. PICK n : n = [judge[j] EXCEPT !.pc = "report"]
    OBVIOUS
  <2>2. /\ judge' = [judge EXCEPT ![j] = n] /\ UNCHANGED <<row, container, disturbed>>
        /\ judge[j].pc = "stop"
    BY <1>6, <2>1 DEF StopFails
  <2>3. Just(n)'
    BY <2>1, <2>2, GoesOnJustly
  <2>4. n.pc = "report" /\ n.mode = judge[j].mode
    BY <1>1, <2>1 DEF Judge
  <2>5. OwnsContainer(n, container[Host[j]])'
    BY <1>1, <2>2, <2>4 DEF OwnsContainer
  <2>6. VerdictDeserved'
    BY <1>1, <2>2, VerdictsStay
  <2>7. QED
    BY <1>1, <2>2, <2>3, <2>5, <2>6, OthersStayJust
<1>7. CASE CompleteFails(j)
  <2>1. PICK n : n = [judge[j] EXCEPT !.pc = "next", !.at = None]
    OBVIOUS
  <2>2. judge' = [judge EXCEPT ![j] = n] /\ UNCHANGED <<row, container, disturbed>>
    BY <1>7, <2>1 DEF CompleteFails
  <2>3. n.pc = "next" /\ n.mode = judge[j].mode
    BY <1>1, <2>1 DEF Judge
  <2>4. QED
    BY <1>1, <2>2, <2>3, QuietMove DEF Evaluating
<1>8. QED
  BY <1>2, <1>3, <1>4, <1>5, <1>6, <1>7 DEF Failure

LEMMA InitIsJust ==
  ASSUME HostsAreReady, Init
  PROVE  JustInv
<1>1. JudgeInv
  BY InitHolds
<1>2. ASSUME NEW j \in Judges PROVE Just(judge[j]) /\ OwnsContainer(judge[j], Warm(j))
  <2>1. judge[j].pc = "idle" /\ judge[j].mode \in Modes
    <3>1. PICK m \in Modes : judge[j] = IdleJudge(m)
      BY DEF Init
    <3>2. QED
      BY <3>1 DEF IdleJudge
  <2>2. judge[j].mode = "docker_warm" => Warm(j).exists
    <3>1. Warm(j).exists = PreCreated
      BY JudgeAssumption DEF Init, Warm
    <3>2. QED
      BY <2>1, <3>1 DEF HostsAreReady
  <2>3. QED
    BY <2>1, <2>2 DEF Just, OwnsContainer, Evaluating
<1>3. VerdictDeserved
  BY DEF Init, VerdictDeserved, Terminal, Verdicts
<1>4. QED
  BY <1>1, <1>2, <1>3 DEF JustInv

(* Evaluate and CompleteSubmission: a verdict other than a system error is *)
(* the one the program deserves by what it does itself, unless docker      *)
(* failed under it.  Where the warm evaluator is in use its containers     *)
(* have to exist, and no two judges may share a daemon.                    *)
THEOREM VerdictsAreDeserved ==
  ASSUME HostsAreReady
  PROVE  Spec => []VerdictDeserved
<1>1. Init => JustInv
  BY InitIsJust
<1>2. JustInv /\ [Next]_vars => JustInv'
  <2> SUFFICES ASSUME JustInv, [Next]_vars PROVE JustInv'
    OBVIOUS
  <2>1. CASE Next
    <3>1. CASE \E s \in Submissions, t \in Tasks : CreateSubmission(s, t)
      BY <3>1, CreateIsJust
    <3>2. CASE \E j \in Judges : Step(j) \/ Failure(j)
      BY <3>2, StepIsJust, FailureIsJust
    <3>3. QED
      BY <2>1, <3>1, <3>2 DEF Next
  <2>2. CASE UNCHANGED vars
    <3>1. UNCHANGED <<row, traces, judge, container, faults, disturbed>>
      BY <2>2 DEF vars
    <3>2. JudgeInv'
      BY <3>1 DEF JustInv, JudgeInv, TypeOK, RowsInv, Fits, Has, ClaimedOnce,
                  TracedWhenJudged, RunningIsHeld, Terminal, Holds
    <3>3. QED
      BY <3>1, <3>2 DEF JustInv, Just, OwnsContainer, Warm, VerdictDeserved, Terminal
  <2>3. QED
    BY <2>1, <2>2
<1>3. QED
  BY <1>1, <1>2, PTL DEF Spec, JustInv

-----------------------------------------------------------------------------
(* Completion.                                                             *)

LEMMA OnlyKeeps ==
  ASSUME NEW V, NEW items \in Seq(V), NEW wanted \in SUBSET (1 .. Len(items))
  PROVE  /\ Only(items, wanted) \in Seq(V)
         /\ \E at : Places(at, Only(items, wanted), items, wanted)
<1> DEFINE L == Len(items)
           step == [k \in 1 .. L |-> [v \in Seq(V) |-> IF k \in wanted THEN Append(v, items[k]) ELSE v]]
           Is(f) == f = [n \in 0 .. L |->
                           IF n = 0 THEN << >>
                           ELSE IF n \in wanted THEN Append(f[n - 1], items[n]) ELSE f[n - 1]]
           kept == CHOOSE f : Is(f)
<1>1. L \in Nat /\ << >> \in Seq(V) /\ \A n \in 1 .. L : items[n] \in V
  OBVIOUS
<1>2. step \in [1 .. L -> [Seq(V) -> Seq(V)]]
  <2>1. \A k \in 1 .. L, v \in Seq(V) : Append(v, items[k]) \in Seq(V)
    BY <1>1
  <2> HIDE DEF L
  <2>2. QED
    BY <2>1, Zenon
<1>3. PICK f \in [0 .. L -> Seq(V)] : Follows(f, L, << >>, step)
  <2> HIDE DEF step, L
  <2>1. QED
    BY <1>1, <1>2, RecursionExists
<1>4. \A k \in 1 .. L : f[k] = IF k \in wanted THEN Append(f[k - 1], items[k]) ELSE f[k - 1]
  <2>1. SUFFICES ASSUME NEW k \in 1 .. L
                 PROVE  f[k] = IF k \in wanted THEN Append(f[k - 1], items[k]) ELSE f[k - 1]
    OBVIOUS
  <2>2. k - 1 \in 0 .. L
    BY <1>1
  <2>3. f[k - 1] \in Seq(V) /\ f[k] = step[k][f[k - 1]]
    BY <1>3, <2>2 DEF Follows
  <2> HIDE DEF L
  <2>4. QED
    BY <2>3
<1>5. Is(f)
  <2>1. \A k \in 0 .. L : k # 0 => k \in 1 .. L
    BY <1>1
  <2>2. f[0] = << >> /\ f = [k \in 0 .. L |-> f[k]]
    BY <1>3 DEF Follows
  <2> HIDE DEF L
  <2>3. QED
    BY <1>4, <2>1, <2>2
<1>6. Is(kept)
  <2> HIDE DEF Is
  <2>1. QED
    BY <1>5
<1>7. Only(items, wanted) = kept[L]
  BY DEF Only
<1> HIDE DEF kept
<1>8. kept[0] = << >>
  BY <1>1, <1>6
<1>9. \A k \in 1 .. L : kept[k] = IF k \in wanted THEN Append(kept[k - 1], items[k]) ELSE kept[k - 1]
  <2>1. \A k \in 1 .. L : k \in 0 .. L /\ k # 0
    BY <1>1
  <2>2. QED
    BY <1>6, <2>1
<1>10. \A k \in 0 .. L : kept[k] = f[k]
  <2>1. kept[0] = f[0]
    BY <1>3, <1>8 DEF Follows
  <2> HIDE DEF L, Is
  <2>2. \A k \in 1 .. L : kept[k - 1] = f[k - 1] => kept[k] = f[k]
    BY <1>4, <1>9
  <2>3. SameSteps(kept, f, L)
    BY <2>1, <2>2 DEF SameSteps
  <2>4. SameUpTo(kept, f, L)
    BY <1>1, <2>3, SameRecursion
  <2>5. QED
    BY <2>4 DEF SameUpTo
<1>11. Only(items, wanted) = f[L] /\ f[L] \in Seq(V)
  BY <1>1, <1>7, <1>10
<1>12. \E at : Places(at, f[L], items, wanted)
  <2>1. items \in [1 .. L -> V] /\ wanted \in SUBSET (1 .. L) /\ wanted \cap (1 .. L) = wanted
    <3>1. items \in [1 .. L -> V]
      OBVIOUS
    <3>2. wanted \in SUBSET (1 .. L) /\ wanted \cap (1 .. L) = wanted
      OBVIOUS
    <3>3. QED
      BY <3>1, <3>2
  <2>2. Keeps(f, items, wanted, L)
    BY <1>3, <1>4 DEF Keeps, Follows
  <2> HIDE DEF L
  <2>3. \A n \in 0 .. L : \E at : Places(at, f[n], items, wanted \cap (1 .. n))
    BY <1>1, <2>1, <2>2, KeptPlaces
  <2>4. L \in 0 .. L
    BY <1>1
  <2>5. QED
    BY <2>1, <2>3, <2>4
<1>13. QED
  BY <1>11, <1>12

LEMMA ConcatType ==
  ASSUME NEW V, NEW lists \in Seq(Seq(V))
  PROVE  Concat(lists) \in Seq(V)
<1> DEFINE L == Len(lists)
           step == [k \in 1 .. L |-> [v \in Seq(V) |-> v \o lists[k]]]
           Is(f) == f = [n \in 0 .. L |-> IF n = 0 THEN << >> ELSE f[n - 1] \o lists[n]]
           upTo == CHOOSE f : Is(f)
<1>1. L \in Nat /\ << >> \in Seq(V) /\ \A n \in 1 .. L : lists[n] \in Seq(V)
  OBVIOUS
<1>2. step \in [1 .. L -> [Seq(V) -> Seq(V)]]
  <2>1. \A k \in 1 .. L, v \in Seq(V) : v \o lists[k] \in Seq(V)
    BY <1>1
  <2> HIDE DEF L
  <2>2. QED
    BY <2>1, Zenon
<1>3. PICK f \in [0 .. L -> Seq(V)] : Follows(f, L, << >>, step)
  <2> HIDE DEF step, L
  <2>1. QED
    BY <1>1, <1>2, RecursionExists
<1>4. \A k \in 1 .. L : f[k] = f[k - 1] \o lists[k]
  <2>1. SUFFICES ASSUME NEW k \in 1 .. L PROVE f[k] = f[k - 1] \o lists[k]
    OBVIOUS
  <2>2. k - 1 \in 0 .. L
    BY <1>1
  <2>3. f[k - 1] \in Seq(V) /\ f[k] = step[k][f[k - 1]]
    BY <1>3, <2>2 DEF Follows
  <2> HIDE DEF L
  <2>4. QED
    BY <2>3
<1>5. Is(f)
  <2>1. \A k \in 0 .. L : k # 0 => k \in 1 .. L
    BY <1>1
  <2>2. f[0] = << >> /\ f = [k \in 0 .. L |-> f[k]]
    BY <1>3 DEF Follows
  <2> HIDE DEF L
  <2>3. QED
    BY <1>4, <2>1, <2>2
<1>6. Is(upTo)
  <2> HIDE DEF Is
  <2>1. QED
    BY <1>5
<1>7. Concat(lists) = upTo[L]
  BY DEF Concat
<1> HIDE DEF upTo
<1>8. upTo[0] = << >>
  BY <1>1, <1>6
<1>9. \A k \in 1 .. L : upTo[k] = upTo[k - 1] \o lists[k]
  <2>1. \A k \in 1 .. L : k \in 0 .. L /\ k # 0
    BY <1>1
  <2>2. QED
    BY <1>6, <2>1
<1>10. \A k \in 0 .. L : upTo[k] = f[k]
  <2>1. upTo[0] = f[0]
    BY <1>3, <1>8 DEF Follows
  <2> HIDE DEF L, Is
  <2>2. \A k \in 1 .. L : upTo[k - 1] = f[k - 1] => upTo[k] = f[k]
    BY <1>4, <1>9
  <2>3. SameSteps(upTo, f, L)
    BY <2>1, <2>2 DEF SameSteps
  <2>4. SameUpTo(upTo, f, L)
    BY <1>1, <2>3, SameRecursion
  <2>5. QED
    BY <2>4 DEF SameUpTo
<1>11. QED
  BY <1>1, <1>7, <1>10

-----------------------------------------------------------------------------
(* The types of what is collected                                          *)

LEMMA SuggestType ==
  ASSUME NEW label \in Nat, NEW source \in Sources, NEW rank \in Nat
  PROVE  Suggest(label, source, rank) \in Suggestion
BY DEF Suggest, Suggestion

LEMMA ScansType ==
  ASSUME NEW language
  PROVE  Scans(language) \in Seq([forms : SUBSET Forms, rank : Nat])
<1> USE DEF Scan, Forms
<1>1. CASE language = "go"
  BY <1>1 DEF Scans
<1>2. CASE language = "java"
  BY <1>2 DEF Scans
<1>3. CASE language = "python"
  BY <1>3 DEF Scans
<1>4. CASE language = "cpp"
  BY <1>4 DEF Scans
<1>5. CASE language # "go" /\ language # "java" /\ language # "python" /\ language # "cpp"
  <2>1. Scans(language) = <<Scan({"function"}, 20), Scan({"arrow"}, 25),
                            Scan({"variable", "arrow"}, 35), Scan({"class"}, 25)>>
    BY <1>5, Zenon DEF Scans
  <2>2. QED
    BY <2>1
<1>6. QED
  BY <1>1, <1>2, <1>3, <1>4, <1>5

LEMMA LocalSymbolsType ==
  ASSUME NEW language, NEW declarations, NEW n \in Nat,
         declarations \in [1 .. n -> [form : Forms, name : Names]]
  PROVE  localSymbolSuggestions(language, declarations) \in Seq(Suggestion)
<1> DEFINE Declaration == [form : Forms, name : Names]
           scans == Scans(language)
           wanted(k) == {m \in DOMAIN declarations : declarations[m].form \in scans[k].forms}
           hits(k) == Only(declarations, wanted(k))
           Found(k) == [m \in DOMAIN hits(k) |-> Suggest(hits(k)[m].name, "local_symbol", scans[k].rank)]
           lists == [k \in DOMAIN scans |-> Found(k)]
<1> HIDE DEF scans
<1>1. /\ Len(scans) \in Nat /\ DOMAIN scans = 1 .. Len(scans)
      /\ \A k \in 1 .. Len(scans) : scans[k].rank \in Nat
  <2>1. scans \in Seq([forms : SUBSET Forms, rank : Nat])
    BY ScansType DEF scans
  <2>2. \A k \in 1 .. Len(scans) : scans[k] \in [forms : SUBSET Forms, rank : Nat]
    BY <2>1, ElementsOf
  <2>3. QED
    BY <2>1, <2>2, ElementsOf
<1>2. declarations \in Seq(Declaration) /\ DOMAIN declarations = 1 .. Len(declarations)
  <2> HIDE DEF Declaration
  <2>1. declarations \in [1 .. n -> Declaration]
    BY DEF Declaration
  <2>2. QED
    BY <2>1, ListOf
<1> HIDE DEF Declaration
<1>3. \A k \in 1 .. Len(scans) : hits(k) \in Seq(Declaration)
  BY <1>2, OnlyKeeps
<1> HIDE DEF hits
<1>4. ASSUME NEW k \in 1 .. Len(scans) PROVE Found(k) \in Seq(Suggestion)
  <2>1. /\ Len(hits(k)) \in Nat /\ DOMAIN hits(k) = 1 .. Len(hits(k))
        /\ \A m \in 1 .. Len(hits(k)) : hits(k)[m] \in Declaration
    BY <1>3, ElementsOf
  <2>2. \A m \in 1 .. Len(hits(k)) : hits(k)[m].name \in Nat
    BY <2>1, CompletionAssumption DEF Declaration, CompletionAssumption
  <2> DEFINE found(m) == Suggest(hits(k)[m].name, "local_symbol", scans[k].rank)
  <2>5. ASSUME NEW m \in 1 .. Len(hits(k)) PROVE found(m) \in Suggestion
    <3>1. hits(k)[m].name \in Nat /\ "local_symbol" \in Sources
      BY <2>2 DEF Sources
    <3>2. scans[k].rank \in Nat
      BY <1>1
    <3>3. QED
      BY <3>1, <3>2, SuggestType
  <2> HIDE DEF found
  <2>6. [m \in 1 .. Len(hits(k)) |-> found(m)] \in [1 .. Len(hits(k)) -> Suggestion]
    BY <2>5
  <2>3. Found(k) \in [1 .. Len(hits(k)) -> Suggestion]
    BY <2>1, <2>6 DEF found
  <2> HIDE DEF Found
  <2>4. QED
    BY <2>1, <2>3, ListOf
<1> HIDE DEF Found
<1>5. lists \in Seq(Seq(Suggestion))
  <2>1. lists \in [1 .. Len(scans) -> Seq(Suggestion)]
    BY <1>1, <1>4
  <2> HIDE DEF lists
  <2>2. QED
    BY <1>1, <2>1, ListOf
<1>6. localSymbolSuggestions(language, declarations) = Concat(lists)
  BY DEF localSymbolSuggestions, Found, hits, scans
<1>7. QED
  BY <1>5, <1>6, ConcatType

LEMMA PatternsType ==
  ASSUME NEW tags
  PROVE  questionPatternSuggestions(tags) \in Seq(Suggestion)
<1> DEFINE Pattern == [tag : Tags, label : Nat, rank : Nat]
           wanted == {n \in DOMAIN Patterns : Patterns[n].tag \in tags}
           asked == Only(Patterns, wanted)
           made(n) == Suggest(asked[n].label, "question_pattern", asked[n].rank)
<1>1. Patterns \in Seq(Pattern)
  BY DEF Patterns, Tags
<1>2. wanted \in SUBSET (1 .. Len(Patterns))
  BY <1>1
<1> HIDE DEF wanted, Pattern
<1>3. asked \in Seq(Pattern)
  BY <1>1, <1>2, OnlyKeeps
<1>4. questionPatternSuggestions(tags) = [n \in DOMAIN asked |-> made(n)]
  BY DEF questionPatternSuggestions, wanted
<1> HIDE DEF asked
<1>5. /\ Len(asked) \in Nat /\ DOMAIN asked = 1 .. Len(asked)
      /\ \A n \in 1 .. Len(asked) : asked[n] \in Pattern
  BY <1>3, ElementsOf
<1>6. ASSUME NEW n \in 1 .. Len(asked) PROVE made(n) \in Suggestion
  <2>1. asked[n].label \in Nat /\ asked[n].rank \in Nat
    BY <1>5 DEF Pattern
  <2>3. "question_pattern" \in Sources
    BY DEF Sources
  <2>2. QED
    BY <2>1, <2>3, SuggestType
<1> HIDE DEF made
<1>7. questionPatternSuggestions(tags) \in [1 .. Len(asked) -> Suggestion]
  BY <1>4, <1>5, <1>6
<1>8. QED
  BY <1>5, <1>7, ListOf

LEMMA CatalogType ==
  ASSUME NEW language \in DOMAIN Catalog
  PROVE  completionCatalogForLanguage(language) \in CatalogEntry
<1> DEFINE own == Catalog[language]
           base == Catalog[own.extends]
           Members == [Qualifiers \cup Types -> Seq(Suggestion)]
           TypeMap == [Types -> Types \cup {""}]
<1>1. own \in CatalogEntry
  BY CompletionAssumption DEF CompletionAssumption
<1>2. CASE own.extends \notin DOMAIN Catalog
  BY <1>1, <1>2 DEF completionCatalogForLanguage
<1>3. CASE own.extends \in DOMAIN Catalog
  <2>1. base \in CatalogEntry
    BY <1>3, CompletionAssumption DEF CompletionAssumption
  <2>2. completionCatalogForLanguage(language) = inheritCompletionCatalog(own, base)
    BY <1>3 DEF completionCatalogForLanguage
  <2> HIDE DEF own, base
  <2> DEFINE members == [q \in Qualifiers \cup Types |-> IF own.members[q] # << >> THEN own.members[q]
                                                        ELSE base.members[q]]
             types == [t \in Types |-> IF own.types[t] # "" THEN own.types[t] ELSE base.types[t]]
  <2>3. own.members \in Members /\ base.members \in Members /\ own.types \in TypeMap /\ base.types \in TypeMap
    BY <1>1, <2>1 DEF CatalogEntry
  <2>4. members \in Members
    BY <2>3
  <2>5. types \in TypeMap
    BY <2>3
  <2> HIDE DEF members, types
  <2>6. [own EXCEPT !.members = members, !.types = types] \in CatalogEntry
    BY <1>1, <2>4, <2>5 DEF CatalogEntry
  <2>7. QED
    BY <2>2, <2>6 DEF inheritCompletionCatalog, members, types
<1>4. QED
  BY <1>2, <1>3

LEMMA MembersType ==
  ASSUME NEW req \in MemberRequest, NEW items \in standardLibraryMemberSuggestions(req)
  PROVE  items \in Seq(Suggestion)
<1> DEFINE catalog == completionCatalogForLanguage(req.language)
           qualifier == IF req.language = "go" THEN resolveGoImportQualifier(req) ELSE req.qualifier
<1>1. /\ req.language \in DOMAIN Catalog /\ req.qualifier \in Qualifiers /\ req.aliasOf \in Qualifiers
      /\ req.declared \in Types \cup {""} /\ req.literals \subseteq Literals
  BY DEF MemberRequest
<1>2. qualifier \in Qualifiers
  BY <1>1 DEF resolveGoImportQualifier
<1>3. /\ \A q \in Qualifiers \cup Types : catalog.members[q] \in Seq(Suggestion)
      /\ \A t \in Types : catalog.types[t] \in Types \cup {""}
  <2>1. catalog \in CatalogEntry
    BY <1>1, CatalogType
  <2> HIDE DEF catalog
  <2>2. QED
    BY <2>1 DEF CatalogEntry
<1>4. ASSUME NEW type \in inferReceiverType(req) PROVE type \in Types \cup {""}
  <2>1. \A l \in Literals : LiteralNames(req.language)[l] \in Types
    <3>1. {"list", "dict", "str", "Array", "Object", "String"} \subseteq Types
      BY CompletionAssumption DEF CompletionAssumption
    <3>2. CASE req.language = "python"
      BY <3>1, <3>2 DEF LiteralNames, Literals
    <3>3. CASE req.language # "python"
      BY <3>1, <3>3 DEF LiteralNames, Literals
    <3>4. QED
      BY <3>2, <3>3
  <2>2. QED
    BY <1>1, <2>1 DEF inferReceiverType, inferLiteralType
<1>5. CASE catalog.members[qualifier] # << >>
  BY <1>2, <1>3, <1>5 DEF standardLibraryMemberSuggestions
<1>6. CASE catalog.members[qualifier] = << >>
  <2>1. PICK type \in inferReceiverType(req) :
          items = IF type = "" THEN << >> ELSE catalog.members[resolveCatalogType(catalog.types, type)]
    BY <1>6 DEF standardLibraryMemberSuggestions
  <2>2. CASE type = ""
    <3>1. items = << >>
      BY <2>1, <2>2
    <3>2. QED
      BY <3>1
  <2>3. CASE type # ""
    <3>1. resolveCatalogType(catalog.types, type) \in Types
      <4>1. type \in Types /\ catalog.types[type] \in Types \cup {""}
        BY <1>3, <1>4, <2>3
      <4> HIDE DEF catalog
      <4>2. QED
        BY <4>1 DEF resolveCatalogType
    <3>2. QED
      BY <1>3, <2>1, <2>3, <3>1
  <2>4. QED
    BY <2>2, <2>3
<1>7. QED
  BY <1>5, <1>6

LEMMA CollectedType ==
  ASSUME NEW req \in CompletionRequest, NEW items \in Collected(req)
  PROVE  items \in Seq(Suggestion)
<1>1. CASE req \in MemberRequest
  <2>1. req.member
    BY <1>1 DEF MemberRequest
  <2>2. QED
    BY <1>1, <2>1, MembersType DEF Collected
<1>2. CASE req \in SymbolRequest
  <2>1. /\ ~req.member /\ req.language \in DOMAIN Catalog
        /\ req.declarations \in UNION {[1 .. n -> [form : Forms, name : Names]] : n \in 0 .. MaxDeclared}
    BY <1>2 DEF SymbolRequest
  <2>2. localSymbolSuggestions(req.language, req.declarations) \in Seq(Suggestion)
    <3>1. PICK n \in 0 .. MaxDeclared : req.declarations \in [1 .. n -> [form : Forms, name : Names]]
      BY <2>1
    <3>2. n \in Nat
      BY <3>1
    <3>3. QED
      BY <3>1, <3>2, LocalSymbolsType
  <2>3. questionPatternSuggestions(req.tags) \in Seq(Suggestion)
    BY PatternsType
  <2>4. starterSuggestions \in Seq(Suggestion)
    BY DEF starterSuggestions, Suggest, Suggestion, Sources
  <2>5. completionCatalogForLanguage(req.language).globals \in Seq(Suggestion)
    BY <2>1, CatalogType DEF CatalogEntry
  <2> DEFINE a == localSymbolSuggestions(req.language, req.declarations)
             b == questionPatternSuggestions(req.tags)
             c == completionCatalogForLanguage(req.language).globals
  <2>6. items = a \o b \o starterSuggestions \o c
    BY <2>1 DEF Collected
  <2> HIDE DEF a, b, c
  <2>7. a \in Seq(Suggestion) /\ b \in Seq(Suggestion) /\ c \in Seq(Suggestion)
    BY <2>2, <2>3, <2>5 DEF a, b, c
  <2>8. a \o b \in Seq(Suggestion)
    BY <2>7
  <2>9. a \o b \o starterSuggestions \in Seq(Suggestion)
    BY <2>4, <2>8
  <2>10. QED
    BY <2>6, <2>7, <2>9
<1>3. QED
  BY <1>1, <1>2 DEF CompletionRequest

-----------------------------------------------------------------------------
(* The sort                                                                *)

SortOf(order, sorted, items) ==
  /\ sorted \in Seq(Suggestion) /\ Len(sorted) = Len(items)
  /\ order \in [1 .. Len(items) -> 1 .. Len(items)]
  /\ \A n \in 1 .. Len(items) : sorted[n] = items[order[n]]
  /\ \A i \in 1 .. Len(items) : \E n \in 1 .. Len(items) : order[n] = i
  /\ \A k, m \in 1 .. Len(items) : k < m => order[k] # order[m] /\ ~Precedes(sorted[m], sorted[k])

LEMMA SortedSorts ==
  ASSUME NEW items \in Seq(Suggestion)
  PROVE  \E order : SortOf(order, Sorted(items), items)
<1> DEFINE L == Len(items)
           Prec(i, j) == Precedes(items[i], items[j])
           Earlier(i, j) == Prec(i, j) \/ (~Prec(j, i) /\ i < j)
           first(i) == {j \in 1 .. L : Earlier(j, i)}
           before == [i \in 1 .. L |-> first(i)]
           At(k) == CHOOSE i \in 1 .. L : Cardinality(first(i)) = k - 1
           order == [k \in 1 .. L |-> At(k)]
<1>1. L \in Nat /\ DOMAIN items = 1 .. L /\ \A n \in 1 .. L : items[n] \in Suggestion
  BY ElementsOf
<1>2. \A i \in 1 .. L : items[i].rank \in Nat /\ items[i].label \in Nat
  BY <1>1 DEF Suggestion
<1>3. /\ \A i \in 1 .. L : ~Prec(i, i)
      /\ \A i, j \in 1 .. L : Prec(i, j) => ~Prec(j, i)
      /\ \A i, j, k \in 1 .. L : Prec(i, j) => Prec(i, k) \/ Prec(k, j)
  BY <1>2 DEF Precedes
<1>4. /\ \A i \in 1 .. L : ~Earlier(i, i)
      /\ \A i, j \in 1 .. L : i # j => Earlier(i, j) \/ Earlier(j, i)
      /\ \A i, j, k \in 1 .. L : Earlier(k, i) /\ Earlier(i, j) => Earlier(k, j)
      /\ \A i, j \in 1 .. L : Earlier(i, j) => ~Prec(j, i)
  <2> HIDE DEF Prec
  <2>1. \A i \in 1 .. L : ~Earlier(i, i)
    BY <1>1, <1>3
  <2>2. \A i, j \in 1 .. L : i # j => Earlier(i, j) \/ Earlier(j, i)
    BY <1>1, <1>3
  <2>3. \A i, j, k \in 1 .. L : Earlier(k, i) /\ Earlier(i, j) => Earlier(k, j)
    BY <1>1, <1>3
  <2>4. \A i, j \in 1 .. L : Earlier(i, j) => ~Prec(j, i)
    BY <1>3
  <2>5. QED
    BY <2>1, <2>2, <2>3, <2>4
<1> HIDE DEF Earlier
<1>5. OrdersAll(before, L)
  BY <1>4 DEF OrdersAll
<1>6. \A i \in 1 .. L : before[i] = first(i)
  OBVIOUS
<1> HIDE DEF before, first
<1>7. \A k \in 1 .. L : \E i \in 1 .. L : Cardinality(first(i)) = k - 1
  BY <1>1, <1>5, <1>6, CountingSorts
<1>8. \A k \in 1 .. L : At(k) \in 1 .. L /\ Cardinality(first(At(k))) = k - 1
  BY <1>7
<1>9. Sorted(items) = [k \in 1 .. L |-> items[At(k)]]
  BY <1>1 DEF Sorted, first, Earlier, Prec
<1> HIDE DEF At
<1>10. Counts(order, before, L)
  BY <1>6, <1>8 DEF Counts
<1>11. SortedBy(order, before, L)
  BY <1>1, <1>5, <1>10, CountingOrders
<1>12. /\ order \in [1 .. L -> 1 .. L]
       /\ \A k \in 1 .. L : Sorted(items)[k] = items[order[k]] /\ order[k] \in 1 .. L
  BY <1>8, <1>9
<1>13. Sorted(items) \in Seq(Suggestion) /\ Len(Sorted(items)) = L
  <2>1. Sorted(items) \in [1 .. L -> Suggestion]
    BY <1>1, <1>8, <1>9
  <2> HIDE DEF L
  <2>2. QED
    BY <1>1, <2>1, ListOf
<1> HIDE DEF order
<1>14. ASSUME NEW k \in 1 .. L, NEW m \in 1 .. L, k < m
       PROVE  order[k] # order[m] /\ ~Precedes(Sorted(items)[m], Sorted(items)[k])
  <2>1. order[k] \in first(order[m])
    BY <1>6, <1>11, <1>12, <1>14 DEF SortedBy
  <2>2. Earlier(order[k], order[m])
    BY <2>1 DEF first
  <2>3. order[k] # order[m] /\ ~Prec(order[m], order[k])
    BY <1>4, <1>12, <2>2
  <2>4. QED
    BY <1>12, <2>3 DEF Prec
<1>15. SortOf(order, Sorted(items), items)
  BY <1>11, <1>12, <1>13, <1>14 DEF SortOf, SortedBy
<1>16. QED
  BY <1>15

-----------------------------------------------------------------------------
(* The suggestions that count: those that match, the first of each label   *)
(* up to case.                                                             *)
Eligible(items, query) ==
  {n \in DOMAIN items :
     /\ suggestionMatches(items[n], query)
     /\ \A m \in 1 .. n - 1 : suggestionMatches(items[m], query) => ~SameKey(items[m], items[n])}

(* Filtering and then deduplicating keeps just these, each once.           *)
Distinct(at, out, items, query) ==
  /\ at \in [1 .. Len(out) -> Eligible(items, query)]
  /\ \A p \in 1 .. Len(out) : out[p] = items[at[p]]
  /\ \A n \in Eligible(items, query) : \E p \in 1 .. Len(out) : at[p] = n
  /\ \A p, q \in 1 .. Len(out) : p # q => ~SameKey(out[p], out[q])

LEMMA FilteredAndDistinct ==
  ASSUME NEW items \in Seq(Suggestion), NEW query
  PROVE  LET out == dedupeCompletionSuggestions(filterCompletionSuggestions(items, query))
         IN out \in Seq(Suggestion) /\ \E at : Distinct(at, out, items, query)
<1> DEFINE matching == {n \in DOMAIN items : suggestionMatches(items[n], query)}
           found == Only(items, matching)
           fresh == {n \in DOMAIN found : \A m \in 1 .. n - 1 : ~SameKey(found[m], found[n])}
           out == Only(found, fresh)
           eligible == Eligible(items, query)
<1>1. found = filterCompletionSuggestions(items, query) /\ out = dedupeCompletionSuggestions(found)
  BY DEF filterCompletionSuggestions, dedupeCompletionSuggestions
<1>2. matching \in SUBSET (1 .. Len(items)) /\ Len(items) \in Nat
  OBVIOUS
<1> HIDE DEF matching
<1>3. found \in Seq(Suggestion) /\ \E at : Places(at, found, items, matching)
  BY <1>2, OnlyKeeps
<1>4. PICK a : Places(a, found, items, matching)
  BY <1>3
<1> HIDE DEF found
<1>5. fresh \in SUBSET (1 .. Len(found)) /\ Len(found) \in Nat /\ DOMAIN found = 1 .. Len(found)
  BY <1>3
<1> HIDE DEF fresh
<1>6. out \in Seq(Suggestion) /\ \E at : Places(at, out, found, fresh)
  BY <1>3, <1>5, OnlyKeeps
<1>7. PICK b : Places(b, out, found, fresh)
  BY <1>6
<1> HIDE DEF out
<1> DEFINE F == Len(found)
           K == Len(out)
<1>8. /\ F \in Nat /\ K \in Nat
      /\ \A q \in 1 .. F : a[q] \in matching /\ a[q] \in 1 .. Len(items) /\ found[q] = items[a[q]]
      /\ \A q, r \in 1 .. F : q < r => a[q] < a[r]
      /\ \A n \in matching : \E q \in 1 .. F : a[q] = n
  <2>1. F \in Nat /\ K \in Nat
    BY <1>5, <1>6
  <2>2. /\ a \in [1 .. F -> matching]
        /\ \A q \in 1 .. F : found[q] = items[a[q]]
        /\ \A q, r \in 1 .. F : q < r => a[q] < a[r]
        /\ \A n \in matching : \E q \in 1 .. F : a[q] = n
    BY <1>4 DEF Places
  <2>3. \A q \in 1 .. F : a[q] \in matching /\ a[q] \in 1 .. Len(items)
    <3> HIDE DEF F
    <3>1. QED
      BY <1>2, <2>2
  <2> HIDE DEF F, K
  <2>4. QED
    BY <2>1, <2>2, <2>3
<1>9. /\ \A p \in 1 .. K : b[p] \in fresh /\ b[p] \in 1 .. F /\ out[p] = found[b[p]]
      /\ \A p, q \in 1 .. K : p < q => b[p] < b[q]
      /\ \A n \in fresh : \E p \in 1 .. K : b[p] = n
  BY <1>5, <1>7 DEF Places
<1> HIDE DEF F, K
<1>10. ASSUME NEW n \in 1 .. Len(items), NEW m \in 1 .. n - 1
       PROVE  m \in 1 .. Len(items) /\ m < n
  BY <1>2
<1>11. \A n \in matching : n \in DOMAIN items /\ suggestionMatches(items[n], query)
  BY DEF matching
<1>12. \A n \in DOMAIN items : suggestionMatches(items[n], query) => n \in matching
  BY DEF matching
<1>13. ASSUME NEW q \in 1 .. F PROVE a[q] \in eligible <=> q \in fresh
  <2>1. ASSUME q \in fresh PROVE a[q] \in eligible
    <3>1. ASSUME NEW m \in 1 .. a[q] - 1, suggestionMatches(items[m], query)
          PROVE  ~SameKey(items[m], items[a[q]])
      <4>1. m \in 1 .. Len(items) /\ m < a[q] /\ DOMAIN items = 1 .. Len(items)
        BY <1>2, <1>8
      <4>2. PICK r \in 1 .. F : a[r] = m
        BY <1>8, <1>12, <3>1, <4>1
      <4>3. r < q
        <5>1. ~(q < r) /\ q # r
          BY <1>8, <4>1, <4>2
        <5>2. QED
          BY <1>8, <5>1
      <4>4. r \in 1 .. q - 1
        BY <1>8, <4>3
      <4>5. ~SameKey(found[r], found[q])
        BY <2>1, <4>4 DEF fresh
      <4>6. QED
        BY <1>8, <4>2, <4>5
    <3>2. QED
      BY <1>8, <1>11, <3>1 DEF Eligible
  <2>2. ASSUME a[q] \in eligible PROVE q \in fresh
    <3>1. ASSUME NEW r \in 1 .. q - 1 PROVE ~SameKey(found[r], found[q])
      <4>1. r \in 1 .. F /\ r < q
        BY <1>8
      <4>2. a[r] < a[q] /\ a[r] \in 1 .. Len(items) /\ a[q] \in 1 .. Len(items)
        BY <1>8, <4>1
      <4>3. a[r] \in 1 .. a[q] - 1
        BY <1>2, <4>2
      <4>4. suggestionMatches(items[a[r]], query)
        BY <1>8, <1>11, <4>1
      <4>5. ~SameKey(items[a[r]], items[a[q]])
        BY <2>2, <4>3, <4>4 DEF Eligible
      <4>6. QED
        BY <1>8, <4>1, <4>5
    <3>2. QED
      BY <1>5, <3>1 DEF fresh, F
  <2>3. QED
    BY <2>1, <2>2
<1> DEFINE at == [p \in 1 .. K |-> a[b[p]]]
<1>14. \A p \in 1 .. K : at[p] \in eligible /\ out[p] = items[at[p]]
  BY <1>8, <1>9, <1>13
<1>15. ASSUME NEW n \in eligible PROVE \E p \in 1 .. K : at[p] = n
  <2>1. n \in matching
    BY <1>12 DEF Eligible
  <2>2. PICK q \in 1 .. F : a[q] = n
    BY <1>8, <2>1
  <2>3. q \in fresh
    BY <1>13, <2>2
  <2>4. PICK p \in 1 .. K : b[p] = q
    BY <1>9, <2>3
  <2>5. QED
    BY <2>2, <2>4
<1>16. \A p, q \in 1 .. K : p < q => ~SameKey(out[p], out[q])
  <2> SUFFICES ASSUME NEW p \in 1 .. K, NEW q \in 1 .. K, p < q PROVE ~SameKey(out[p], out[q])
    OBVIOUS
  <2>1. b[p] \in 1 .. b[q] - 1
    <3>1. b[p] \in 1 .. F /\ b[q] \in 1 .. F /\ b[p] < b[q]
      BY <1>9
    <3>2. QED
      BY <1>8, <3>1
  <2>2. ~SameKey(found[b[p]], found[b[q]])
    <3>1. b[q] \in fresh
      BY <1>9
    <3>2. QED
      BY <2>1, <3>1 DEF fresh
  <2>3. QED
    BY <1>9, <2>2
<1>17. \A p, q \in 1 .. K : p # q => ~SameKey(out[p], out[q])
  <2> SUFFICES ASSUME NEW p \in 1 .. K, NEW q \in 1 .. K, p # q PROVE ~SameKey(out[p], out[q])
    OBVIOUS
  <2>1. p < q \/ q < p
    BY <1>8
  <2>2. QED
    BY <1>16, <2>1 DEF SameKey
<1>18. Distinct(at, out, items, query)
  <2>1. at \in [1 .. K -> eligible]
    BY <1>14
  <2>2. QED
    BY <1>14, <1>15, <1>17, <2>1 DEF Distinct, K
<1>19. QED
  BY <1>1, <1>6, <1>18

-----------------------------------------------------------------------------
(* What is cut off is nothing better than what is shown.                   *)
Best(answer, items, query, limit) ==
  /\ \A m \in DOMAIN answer : \E n \in Eligible(items, query) : answer[m] = items[n]
  /\ \A m, n \in DOMAIN answer : m < n => ~SameKey(answer[m], answer[n]) /\ ~Precedes(answer[n], answer[m])
  /\ \A n \in Eligible(items, query) :
       \/ \E m \in DOMAIN answer : answer[m] = items[n]
       \/ Len(answer) = limit /\ \A m \in DOMAIN answer : ~Precedes(items[n], answer[m])

LEMMA AnswersAreBest ==
  ASSUME NEW items \in Seq(Suggestion), NEW query, NEW limit \in Nat
  PROVE  Best(limitSuggestions(dedupeCompletionSuggestions(filterCompletionSuggestions(items, query)), limit),
              items, query, limit)
<1> DEFINE out == dedupeCompletionSuggestions(filterCompletionSuggestions(items, query))
           sorted == Sorted(out)
           answer == limitSuggestions(out, limit)
           K == Len(out)
           M == IF K > limit THEN limit ELSE K
<1>1. out \in Seq(Suggestion) /\ \E at : Distinct(at, out, items, query)
  BY FilteredAndDistinct
<1>2. PICK at : Distinct(at, out, items, query)
  BY <1>1
<1> HIDE DEF out
<1>3. PICK order : SortOf(order, sorted, out)
  BY <1>1, SortedSorts
<1>4. answer = FirstOf(sorted, limit)
  BY DEF limitSuggestions
<1> HIDE DEF sorted, answer
<1>5. /\ K \in Nat /\ M \in Nat /\ M <= K /\ (M = K \/ M = limit) /\ (M < K => M = limit)
      /\ Len(sorted) = K /\ sorted \in Seq(Suggestion)
  BY <1>1, <1>3 DEF SortOf
<1>6. /\ answer \in Seq(Suggestion) /\ Len(answer) = M /\ DOMAIN answer = 1 .. M
      /\ \A m \in 1 .. M : answer[m] = sorted[m]
  <2>1. answer = SubSeq(sorted, 1, M)
    BY <1>4, <1>5 DEF FirstOf
  <2>2. \A m \in 1 .. M : sorted[m] \in Suggestion
    BY <1>5
  <2> HIDE DEF M
  <2>3. QED
    BY <1>5, <2>1, <2>2
<1>7. \A m \in 1 .. M : m \in 1 .. K
  BY <1>5
<1> HIDE DEF K, M
<1>8. /\ \A k \in 1 .. K : order[k] \in 1 .. K /\ sorted[k] = out[order[k]]
      /\ \A i \in 1 .. K : \E k \in 1 .. K : order[k] = i
      /\ \A k, m \in 1 .. K : k < m => order[k] # order[m] /\ ~Precedes(sorted[m], sorted[k])
  BY <1>3 DEF SortOf, K
<1>9. /\ \A p \in 1 .. K : at[p] \in Eligible(items, query) /\ out[p] = items[at[p]]
      /\ \A n \in Eligible(items, query) : \E p \in 1 .. K : at[p] = n
      /\ \A p, q \in 1 .. K : p # q => ~SameKey(out[p], out[q])
  BY <1>2 DEF Distinct, K
<1>10. ASSUME NEW m \in DOMAIN answer PROVE \E n \in Eligible(items, query) : answer[m] = items[n]
  <2>1. m \in 1 .. K /\ answer[m] = sorted[m]
    BY <1>6, <1>7
  <2>2. order[m] \in 1 .. K /\ sorted[m] = out[order[m]]
    BY <1>8, <2>1
  <2>3. QED
    BY <1>9, <2>1, <2>2
<1>11. ASSUME NEW m \in DOMAIN answer, NEW n \in DOMAIN answer, m < n
       PROVE  ~SameKey(answer[m], answer[n]) /\ ~Precedes(answer[n], answer[m])
  <2>1. m \in 1 .. K /\ n \in 1 .. K /\ answer[m] = sorted[m] /\ answer[n] = sorted[n]
    BY <1>6, <1>7
  <2>2. ~Precedes(sorted[n], sorted[m]) /\ order[m] # order[n]
    BY <1>8, <1>11, <2>1
  <2>3. ~SameKey(out[order[m]], out[order[n]])
    BY <1>8, <1>9, <2>1, <2>2
  <2>4. QED
    BY <1>8, <2>1, <2>2, <2>3
<1>12. ASSUME NEW n \in Eligible(items, query)
       PROVE  \/ \E m \in DOMAIN answer : answer[m] = items[n]
              \/ Len(answer) = limit /\ \A m \in DOMAIN answer : ~Precedes(items[n], answer[m])
  <2>1. PICK p \in 1 .. K : at[p] = n
    BY <1>9
  <2>2. PICK k \in 1 .. K : order[k] = p
    BY <1>8
  <2>3. sorted[k] = items[n]
    BY <1>8, <1>9, <2>1, <2>2
  <2>4. CASE k <= M
    <3>1. k \in DOMAIN answer /\ answer[k] = sorted[k]
      BY <1>5, <1>6, <2>4
    <3>2. QED
      BY <2>3, <3>1
  <2>5. CASE k > M
    <3>1. Len(answer) = limit
      BY <1>5, <1>6, <2>5
    <3>2. ASSUME NEW m \in DOMAIN answer PROVE ~Precedes(items[n], answer[m])
      <4>1. m \in 1 .. K /\ m < k /\ answer[m] = sorted[m]
        BY <1>5, <1>6, <1>7, <2>5
      <4>2. QED
        BY <1>8, <2>3, <4>1
    <3>3. QED
      BY <3>1, <3>2
  <2>6. QED
    BY <1>5, <2>4, <2>5
<1>13. Best(answer, items, query, limit)
  BY <1>10, <1>11, <1>12 DEF Best
<1>14. QED
  BY <1>13 DEF answer, out

-----------------------------------------------------------------------------
(* What is shown is an answer to the request being made.                   *)
CompletionInv ==
  \/ typed = NothingTyped /\ shown = << >>
  \/ typed \in CompletionRequest /\ shown \in Seq(SuggestCompletions(typed))

LEMMA CompletionInvariant == CompletionSpec => []CompletionInv
<1>1. InitCompletion => CompletionInv
  BY DEF InitCompletion, CompletionInv
<1>2. CompletionInv /\ [NextCompletion]_completionVars => CompletionInv'
  <2> SUFFICES ASSUME CompletionInv, [NextCompletion]_completionVars PROVE CompletionInv'
    OBVIOUS
  <2>1. CASE Complete
    <3>1. PICK req \in CompletionRequest : \E answer \in SuggestCompletions(req) :
            typed' = req /\ shown' = <<answer>>
      BY <2>1 DEF Complete
    <3>2. QED
      BY <3>1 DEF CompletionInv
  <2>2. CASE CompleteAgain
    <3> DEFINE S == SuggestCompletions(typed)
    <3>1. typed \in CompletionRequest /\ shown \in Seq(S)
      <4>1. shown # << >>
        BY <2>2 DEF CompleteAgain
      <4>2. QED
        BY <4>1 DEF CompletionInv
    <3>2. PICK answer \in S : shown' = Append(shown, answer) /\ typed' = typed
      BY <2>2 DEF CompleteAgain
    <3>3. S' = S
      BY <3>2
    <3> HIDE DEF S
    <3>4. shown' \in Seq(S)
      BY <3>1, <3>2
    <3>5. typed' \in CompletionRequest /\ shown' \in Seq(SuggestCompletions(typed'))
      BY <3>1, <3>2, <3>4 DEF S
    <3>6. QED
      BY <3>5 DEF CompletionInv
  <2>3. CASE UNCHANGED completionVars
    BY <2>3 DEF completionVars, CompletionInv
  <2>4. QED
    BY <2>1, <2>2, <2>3 DEF NextCompletion
<1>3. QED
  BY <1>1, <1>2, PTL DEF CompletionSpec

(* Whatever the source, the catalogue and the query: an item is left out   *)
(* only because it does not match, because an earlier match of its source  *)
(* has its label up to case, or because better ones fill the list; and the *)
(* list is in order.  Nothing is said of names that differ in case only    *)
(* but what the code does with them: it shows the first.                   *)
(* (completion.go:130 SuggestCompletions, :488 filterCompletionSuggestions *)
(* .. :527 limitSuggestions)                                               *)
THEOREM BestAreShown == CompletionSpec => []ShownAreBest
<1>1. CompletionInv => ShownAreBest
  <2> SUFFICES ASSUME CompletionInv, NEW k \in DOMAIN shown
               PROVE  \E items \in Collected(typed) :
                        Best(shown[k], items, typed.query, EffectiveLimit(typed.limit))
    BY DEF ShownAreBest, Best, Eligible
  <2>1. typed \in CompletionRequest /\ shown[k] \in SuggestCompletions(typed)
    <3>1. typed \in CompletionRequest /\ shown \in Seq(SuggestCompletions(typed))
      BY DEF CompletionInv
    <3>2. QED
      BY <3>1, ElementsOf
  <2>2. PICK items \in Collected(typed) :
          shown[k] = limitSuggestions(dedupeCompletionSuggestions(
                       filterCompletionSuggestions(items, typed.query)), EffectiveLimit(typed.limit))
    BY <2>1 DEF SuggestCompletions
  <2>3. items \in Seq(Suggestion)
    BY <2>1, CollectedType
  <2>4. EffectiveLimit(typed.limit) \in Nat
    <3>1. typed.limit \in AskedLimits
      BY <2>1 DEF CompletionRequest, MemberRequest, SymbolRequest
    <3>2. typed.limit \in Nat
      BY <3>1, CompletionAssumption DEF CompletionAssumption
    <3>3. QED
      BY <3>2 DEF EffectiveLimit
  <2>5. QED
    BY <2>2, <2>3, <2>4, AnswersAreBest
<1>2. QED
  BY <1>1, CompletionInvariant, PTL
=============================================================================
