------------------------- MODULE TaskOutcomeProofs --------------------------
(***************************************************************************)
(* Theorems about what becomes of a runtime task's answer: a report        *)
(* (ReportGeneration) or the verdict of an evaluation run (Evaluation),    *)
(* for any number of requests, completions, cases and checks.              *)
(***************************************************************************)
EXTENDS ReportGeneration, Evaluation, FiniteSetTheorems, TLAPS

-----------------------------------------------------------------------------
(* Reports                                                                 *)

(* A request that may still write the row.                                 *)
MayWrite(n) == n.pc \in {"session", "begin", "runtime", "complete", "fail"}

(* What the row says of a request in state n: it read the row before the   *)
(* last completion if the row is completed, and what it is about to        *)
(* announce is there.                                                      *)
Fits(n) ==
  /\ n.before <= report.completions
  /\ report.status = "completed" /\ MayWrite(n) => n.before < report.completions
  /\ n.pc = "announce" => report.content # NoWriter

ReportInv ==
  /\ ReportTypeOK
  /\ \A w \in Writers : Fits(writer[w])
  /\ RunningHasAWriter
  /\ AnnouncedHasContent

(* A running report in the hands of a request that moves on stays in them, *)
(* or is cut off.                                                          *)
Held(n) == n.pc \in {"runtime", "fail", "complete"}

-----------------------------------------------------------------------------
(* One request moves to n and the row becomes row.                         *)
Moved(w, n, row) ==
  /\ n \in Writer /\ row \in Report
  /\ writer' = [writer EXCEPT ![w] = n] /\ report' = row
  /\ row.completions >= report.completions
  /\ n.before <= row.completions
  /\ row.status = "completed" /\ MayWrite(n) => n.before < row.completions
  /\ row.status = "completed" => report.status = "completed" \/ row.completions > report.completions
  /\ row.content = report.content \/ row.content # NoWriter
  /\ n.pc = "announce" \/ row.status = "completed" => row.content # NoWriter
  /\ row.status = "running" =>
       \/ row.cut
       \/ Held(n)
       \/ report.status = "running" /\ row.cut = report.cut /\ ~Held(writer[w])

(* The event, if it is there by now, has a content to speak of.            *)
Settled(row) ==
  /\ settled' \in BOOLEAN /\ event' \in BOOLEAN
  /\ event' => row.content # NoWriter

LEMMA MoveKeeps ==
  ASSUME ReportInv, NEW w \in Writers, NEW n, NEW row, Moved(w, n, row), Settled(row)
  PROVE  ReportInv'
<1>1. /\ writer \in [Writers -> Writer] /\ report \in Report
      /\ writer'[w] = n /\ n \in Writer
      /\ \A v \in Writers : v # w => writer'[v] = writer[v]
      /\ report' = row /\ row \in Report
  BY DEF ReportInv, ReportTypeOK, Moved
<1>2. ReportTypeOK'
  <2>1. writer' \in [Writers -> Writer]
    BY <1>1 DEF Moved
  <2>2. QED
    BY <1>1, <2>1 DEF ReportTypeOK, Settled
<1>3. \A v \in Writers : Fits(writer[v])'
  <2>1. Fits(writer[w])'
    BY <1>1 DEF Moved, Fits, MayWrite
  <2>2. ASSUME NEW v \in Writers, v # w PROVE Fits(writer[v])'
    <3>1. Fits(writer[v]) /\ writer'[v] = writer[v] /\ writer[v] \in Writer
      BY <1>1, <2>2 DEF ReportInv
    <3>2. /\ row.completions \in Int /\ report.completions \in Int /\ writer[v].before \in Int
      BY <1>1, <3>1, ReportAssumption DEF Report, Writer
    <3>3. QED
      BY <1>1, <3>1, <3>2 DEF Moved, Fits, MayWrite
  <2>3. QED
    BY <2>1, <2>2
<1>4. RunningHasAWriter'
  <2>1. SUFFICES ASSUME row.status = "running", ~row.cut PROVE \E v \in Writers : Held(writer'[v])
    BY <1>1 DEF RunningHasAWriter, Held
  <2>2. CASE Held(n)
    BY <2>2, <1>1
  <2>3. CASE report.status = "running" /\ row.cut = report.cut /\ ~Held(writer[w])
    <3>1. PICK v \in Writers : Held(writer[v])
      BY <2>1, <2>3 DEF ReportInv, RunningHasAWriter, Held
    <3>2. v # w
      BY <2>3, <3>1
    <3>3. QED
      BY <1>1, <3>1, <3>2
  <2>4. QED
    BY <2>1, <2>2, <2>3 DEF Moved
<1>5. AnnouncedHasContent'
  BY <1>1 DEF AnnouncedHasContent, Moved, Settled
<1>6. QED
  BY <1>2, <1>3, <1>4, <1>5 DEF ReportInv

(* A request that leaves the row as it is.                                 *)
LEMMA StayKeeps ==
  ASSUME ReportInv, NEW w \in Writers, NEW n \in Writer,
         writer' = [writer EXCEPT ![w] = n], UNCHANGED <<report, settled>>,
         event' \in BOOLEAN, event' => report.content # NoWriter,
         Fits(n), Held(writer[w]) => Held(n)
  PROVE  ReportInv'
<1>1. report \in Report /\ settled \in BOOLEAN /\ report.completions \in Int
  BY ReportAssumption DEF ReportInv, ReportTypeOK, Report
<1>2. report.status = "completed" => report.content # NoWriter
  BY DEF ReportInv, AnnouncedHasContent
<1>3. report.status = "running" =>
        \/ report.cut
        \/ Held(n)
        \/ ~Held(writer[w])
  OBVIOUS
<1>4. Moved(w, n, report)
  BY <1>1, <1>2, <1>3 DEF Moved, Fits
<1>5. Settled(report)
  BY <1>1 DEF Settled
<1>6. QED
  BY <1>4, <1>5, MoveKeeps

-----------------------------------------------------------------------------
LEMMA ReportInit == InitReport => ReportInv
<1>1. SUFFICES ASSUME InitReport PROVE ReportInv
  OBVIOUS
<1> DEFINE n == [pc |-> "idle", before |-> 0, hungUp |-> FALSE]
<1>2. n \in Writer /\ n.pc = "idle" /\ n.before = 0
  BY ReportAssumption DEF Writer, WriterPc
<1>3. report \in Report /\ report.status = "absent" /\ report.completions = 0
  BY <1>1, ReportAssumption DEF InitReport, Report
<1>4. writer = [w \in Writers |-> n] /\ settled \in BOOLEAN /\ event = FALSE
  BY <1>1 DEF InitReport
<1> HIDE DEF n
<1>5. ReportTypeOK
  BY <1>2, <1>3, <1>4 DEF ReportTypeOK
<1>6. \A w \in Writers : Fits(writer[w])
  <2>1. Fits(n)
    BY <1>2, <1>3 DEF Fits
  <2>2. QED
    BY <1>4, <2>1
<1>7. QED
  BY <1>3, <1>4, <1>5, <1>6 DEF ReportInv, RunningHasAWriter, AnnouncedHasContent

(* What is known of a request and the row before any of its steps.         *)
LEMMA Before ==
  ASSUME ReportInv, NEW w \in Writers
  PROVE  /\ writer \in [Writers -> Writer] /\ writer[w] \in Writer /\ report \in Report
         /\ settled \in BOOLEAN /\ event \in BOOLEAN
         /\ Fits(writer[w])
         /\ event \/ report.status = "completed" => report.content # NoWriter
         /\ report.completions \in Int /\ writer[w].before \in Int
BY ReportAssumption DEF ReportInv, ReportTypeOK, Report, Writer, AnnouncedHasContent

(* A step of a request that only moves its counter.                        *)
LEMMA ContinueKeeps ==
  ASSUME ReportInv, NEW w \in Writers, NEW pc \in WriterPc, Continue(w, pc),
         UNCHANGED <<report, settled, event>>, pc # "announce",
         pc \in {"session", "begin", "runtime", "complete", "fail"} => MayWrite(writer[w]),
         Held(writer[w]) => pc \in {"complete", "fail", "runtime"}
  PROVE  ReportInv'
<1> DEFINE n == [writer[w] EXCEPT !.pc = pc]
<1>1. /\ n \in Writer /\ n.pc = pc /\ n.before = writer[w].before
      /\ writer' = [writer EXCEPT ![w] = n]
  BY Before DEF Writer, Continue
<1>2. Fits(n) /\ (Held(writer[w]) => Held(n))
  BY <1>1, Before DEF Fits, MayWrite, Held
<1> HIDE DEF n
<1>3. event' \in BOOLEAN /\ (event' => report.content # NoWriter)
  BY Before
<1>4. QED
  BY <1>1, <1>2, <1>3, StayKeeps

LEMMA LoadReportKeeps ==
  ASSUME ReportInv, NEW w \in Writers, LoadReport(w)
  PROVE  ReportInv'
<1> DEFINE n == [writer[w] EXCEPT !.pc = IF report.status = "completed" THEN "ended" ELSE "session",
                                  !.before = report.completions]
<1>1. n \in Writer /\ writer' = [writer EXCEPT ![w] = n] /\ writer[w].pc = "idle"
  BY Before DEF Writer, WriterPc, Report, LoadReport
<1>2. Fits(n) /\ ~Held(writer[w])
  BY <1>1, Before DEF Fits, MayWrite, Held, Writer
<1> HIDE DEF n
<1>3. event' \in BOOLEAN /\ (event' => report.content # NoWriter)
  BY Before DEF LoadReport
<1>4. QED
  BY <1>1, <1>2, <1>3, StayKeeps DEF LoadReport

LEMMA BeginKeeps ==
  ASSUME ReportInv, NEW w \in Writers, beginReportGeneration(w)
  PROVE  ReportInv'
<1>1. CASE Continue(w, "ended") /\ UNCHANGED <<report, settled, event>>
  BY <1>1, ContinueKeeps DEF beginReportGeneration, WriterPc, Held
<1>2. CASE /\ report' = [report EXCEPT !.status = "running", !.cut = FALSE]
           /\ Continue(w, "runtime")
  <2> DEFINE n == [writer[w] EXCEPT !.pc = "runtime"]
             row == [report EXCEPT !.status = "running", !.cut = FALSE]
  <2>1. n \in Writer /\ Held(n) /\ n.pc = "runtime" /\ n.before = writer[w].before
    BY Before DEF Writer, WriterPc, Held
  <2>2. row \in Report /\ row.status = "running" /\ row.content = report.content
        /\ row.completions = report.completions
    BY Before DEF Report
  <2>3. writer' = [writer EXCEPT ![w] = n] /\ report' = row
    BY <1>2, Before DEF Continue, Writer
  <2> HIDE DEF n, row
  <2>4. Moved(w, n, row)
    BY <2>1, <2>2, <2>3, Before DEF Moved, Fits
  <2>5. Settled(row)
    BY <2>2, Before DEF beginReportGeneration, Settled
  <2>6. QED
    BY <2>4, <2>5, MoveKeeps
<1>3. QED
  BY <1>1, <1>2 DEF beginReportGeneration

LEMMA FailKeeps ==
  ASSUME ReportInv, NEW w \in Writers, markReportFailed(w)
  PROVE  ReportInv'
<1> DEFINE n == [writer[w] EXCEPT !.pc = "ended"]
           row == [report EXCEPT !.status = "failed", !.cut = FALSE]
<1>1. n \in Writer /\ n.pc = "ended" /\ n.before = writer[w].before
  BY Before DEF Writer, WriterPc
<1>2. row \in Report /\ row.status = "failed" /\ row.content = report.content
      /\ row.completions = report.completions
  BY Before DEF Report
<1>3. writer' = [writer EXCEPT ![w] = n] /\ report' = row
  BY Before DEF markReportFailed, Continue, Writer
<1> HIDE DEF n, row
<1>4. Settled(row)
  BY <1>2, Before DEF markReportFailed, Settled
<1>5. Moved(w, n, row)
  BY <1>1, <1>2, <1>3, Before DEF Moved, Fits
<1>6. QED
  BY <1>4, <1>5, MoveKeeps

LEMMA CompleteKeeps ==
  ASSUME ReportInv, NEW w \in Writers, CompleteReport(w)
  PROVE  ReportInv'
<1> DEFINE n == [writer[w] EXCEPT !.pc = "announce"]
           row == [status |-> "completed", content |-> w,
                   completions |-> report.completions + 1, cut |-> FALSE]
<1>1. n \in Writer /\ n.pc = "announce" /\ n.before = writer[w].before
  BY Before DEF Writer, WriterPc
<1>2. /\ row \in Report /\ row.status = "completed" /\ row.content # NoWriter
      /\ row.completions = report.completions + 1
  <2>1. report.completions + 1 \in 0 .. MaxCompletions
    BY Before, ReportAssumption DEF Report, CompleteReport
  <2>2. QED
    BY <2>1, ReportAssumption DEF Report, NoWriter
<1>3. writer' = [writer EXCEPT ![w] = n] /\ report' = row
  BY Before DEF CompleteReport, Continue, Writer
<1> HIDE DEF n, row
<1>4. Settled(row)
  BY <1>2, Before DEF CompleteReport, Settled
<1>5. Moved(w, n, row)
  BY <1>1, <1>2, <1>3, Before DEF Moved, Fits, MayWrite
<1>6. QED
  BY <1>4, <1>5, MoveKeeps

LEMMA LostKeeps ==
  ASSUME ReportInv, NEW w \in Writers, OutcomeLost(w)
  PROVE  ReportInv'
<1> DEFINE n == [writer[w] EXCEPT !.pc = "ended"]
           row == [report EXCEPT !.cut = TRUE]
<1>1. n \in Writer /\ n.pc = "ended" /\ n.before = writer[w].before
  BY Before DEF Writer, WriterPc
<1>2. /\ row \in Report /\ row.status = report.status /\ row.content = report.content
      /\ row.completions = report.completions /\ row.cut
  BY Before DEF Report
<1>3. writer' = [writer EXCEPT ![w] = n] /\ report' = row
  BY Before DEF OutcomeLost, EndsUnwritten, Continue, Writer
<1> HIDE DEF n, row
<1>4. Settled(row)
  BY <1>2, Before DEF OutcomeLost, Settled
<1>5. Moved(w, n, row)
  BY <1>1, <1>2, <1>3, Before DEF Moved, Fits, MayWrite
<1>6. QED
  BY <1>4, <1>5, MoveKeeps

LEMMA AnnounceKeeps ==
  ASSUME ReportInv, NEW w \in Writers, Announce(w)
  PROVE  ReportInv'
<1> DEFINE n == [writer[w] EXCEPT !.pc = "ended"]
<1>1. /\ n \in Writer /\ n.pc = "ended" /\ n.before = writer[w].before
      /\ writer' = [writer EXCEPT ![w] = n] /\ writer[w].pc = "announce"
  BY Before DEF Writer, WriterPc, Continue, Announce
<1>2. Fits(n) /\ ~Held(writer[w]) /\ report.content # NoWriter
  BY <1>1, Before DEF Fits, MayWrite, Held
<1> HIDE DEF n
<1>3. event' \in BOOLEAN
  BY Before DEF Announce
<1>4. QED
  BY <1>1, <1>2, <1>3, StayKeeps DEF Announce

LEMMA HangUpKeeps ==
  ASSUME ReportInv, NEW w \in Writers, HangUp(w)
  PROVE  ReportInv'
<1> DEFINE n == [writer[w] EXCEPT !.hungUp = TRUE]
<1>1. /\ n \in Writer /\ n.pc = writer[w].pc /\ n.before = writer[w].before
      /\ writer' = [writer EXCEPT ![w] = n]
  BY Before DEF Writer, HangUp
<1>2. Fits(n) /\ (Held(writer[w]) => Held(n))
  BY <1>1, Before DEF Fits, MayWrite, Held
<1> HIDE DEF n
<1>3. event' \in BOOLEAN /\ (event' => report.content # NoWriter)
  BY Before DEF HangUp
<1>4. QED
  BY <1>1, <1>2, <1>3, StayKeeps DEF HangUp

LEMMA CrashKeeps ==
  ASSUME ReportInv, ServerCrash
  PROVE  ReportInv'
<1> DEFINE n(w) == IF writer[w].pc = "idle" THEN writer[w] ELSE [writer[w] EXCEPT !.pc = "ended"]
           row == [report EXCEPT !.cut = TRUE]
<1>1. writer' = [w \in Writers |-> n(w)] /\ report' = row /\ UNCHANGED <<settled, event>>
  BY DEF ServerCrash
<1>2. /\ row \in Report /\ row.status = report.status /\ row.content = report.content
      /\ row.completions = report.completions /\ row.cut
  BY DEF ReportInv, ReportTypeOK, Report
<1>3. ASSUME NEW w \in Writers
      PROVE  /\ n(w) \in Writer /\ n(w).before = writer[w].before
             /\ n(w).pc \in {"idle", "ended"}
  BY <1>3, Before DEF Writer, WriterPc
<1> HIDE DEF n, row
<1>4. ReportTypeOK'
  BY <1>1, <1>2, <1>3 DEF ReportInv, ReportTypeOK
<1>5. ASSUME NEW w \in Writers PROVE Fits(writer[w])'
  BY <1>1, <1>2, <1>3, Before DEF Fits, MayWrite
<1>6. RunningHasAWriter'
  BY <1>1, <1>2 DEF RunningHasAWriter
<1>7. AnnouncedHasContent'
  BY <1>1, <1>2 DEF ReportInv, AnnouncedHasContent
<1>8. QED
  BY <1>4, <1>5, <1>6, <1>7 DEF ReportInv

-----------------------------------------------------------------------------
LEMMA ReportStep == ReportInv /\ [NextReport]_reportVars => ReportInv'
<1>1. SUFFICES ASSUME ReportInv, [NextReport]_reportVars PROVE ReportInv'
  OBVIOUS
<1>2. ASSUME NEW w \in Writers, LoadReport(w) PROVE ReportInv'
  BY <1>1, <1>2, LoadReportKeeps
<1>3. ASSUME NEW w \in Writers, LoadSession(w) PROVE ReportInv'
  BY <1>1, <1>3, ContinueKeeps DEF LoadSession, WriterPc, MayWrite, Held
<1>4. ASSUME NEW w \in Writers, beginReportGeneration(w) PROVE ReportInv'
  BY <1>1, <1>4, BeginKeeps
<1>5. ASSUME NEW w \in Writers, RunTask(w) PROVE ReportInv'
  <2>1. PICK pc \in {"complete", "fail"} : Continue(w, pc)
    BY <1>5 DEF RunTask
  <2>2. pc \in WriterPc /\ pc # "announce" /\ MayWrite(writer[w])
    BY <1>5 DEF RunTask, WriterPc, MayWrite
  <2>3. QED
    BY <1>1, <1>5, <2>1, <2>2, ContinueKeeps DEF RunTask
<1>6. ASSUME NEW w \in Writers, markReportFailed(w) PROVE ReportInv'
  BY <1>1, <1>6, FailKeeps
<1>7. ASSUME NEW w \in Writers, CompleteReport(w) PROVE ReportInv'
  BY <1>1, <1>7, CompleteKeeps
<1>8. ASSUME NEW w \in Writers, OutcomeLost(w) PROVE ReportInv'
  BY <1>1, <1>8, LostKeeps
<1>9. ASSUME NEW w \in Writers, Announce(w) PROVE ReportInv'
  BY <1>1, <1>9, AnnounceKeeps
<1>10. ASSUME NEW w \in Writers, HangUp(w) PROVE ReportInv'
  BY <1>1, <1>10, HangUpKeeps
<1>11. CASE ServerCrash
  BY <1>1, <1>11, CrashKeeps
<1>12. CASE SessionMoves
  BY <1>1, <1>12 DEF SessionMoves, ReportInv, ReportTypeOK, Fits, MayWrite, RunningHasAWriter,
                     AnnouncedHasContent
<1>13. CASE UNCHANGED reportVars
  BY <1>1, <1>13 DEF reportVars, ReportInv, ReportTypeOK, Fits, MayWrite, RunningHasAWriter,
                     AnnouncedHasContent
<1>14. QED
  BY <1>1, <1>2, <1>3, <1>4, <1>5, <1>6, <1>7, <1>8, <1>9, <1>10, <1>11, <1>12, <1>13
     DEF NextReport, WriterStep

(* The invariant of the report holds at all times.  (service.go:826        *)
(* GenerateReport)                                                         *)
THEOREM ReportAlwaysFits == ReportSpec => []ReportInv
BY ReportInit, ReportStep, PTL DEF ReportSpec

(* The row and the requests keep their types.  (service.go:826             *)
(* GenerateReport)                                                         *)
THEOREM ReportTypes == ReportSpec => []ReportTypeOK
<1>1. ReportInv => ReportTypeOK
  BY DEF ReportInv
<1>2. QED
  BY <1>1, ReportAlwaysFits, PTL

(* A running report is being written, or was cut off.  (service.go:847 to  *)
(* :898)                                                                   *)
THEOREM RunningReportsAreWritten == ReportSpec => []RunningHasAWriter
<1>1. ReportInv => RunningHasAWriter
  BY DEF ReportInv
<1>2. QED
  BY <1>1, ReportAlwaysFits, PTL

(* A completed or announced report has content.  (service.go:891 the       *)
(* UPDATE, :899 the event)                                                 *)
THEOREM AnnouncedReportsExist == ReportSpec => []AnnouncedHasContent
<1>1. ReportInv => AnnouncedHasContent
  BY DEF ReportInv
<1>2. QED
  BY <1>1, ReportAlwaysFits, PTL

(* A completed report is only lost to a request that had read the row      *)
(* before it was completed.  (service.go:826 GenerateReport, :1453         *)
(* beginReportGeneration, :1466 markReportFailed)                          *)
THEOREM CompletedReportsStay == ReportSpec => CompletedOnlyLostToOverlap
<1> DEFINE Lost == /\ report.status = "completed"
                   /\ <<report'.status, report'.content>> # <<"completed", report.content>>
           Overlaps(w) == /\ writer'[w].pc # writer[w].pc
                          /\ writer[w].before < report.completions
<1>1. ASSUME ReportInv, [NextReport]_reportVars, Lost PROVE \E w \in Writers : Overlaps(w)
  <2>1. ASSUME NEW w \in Writers, MayWrite(writer[w]), writer'[w].pc # writer[w].pc
        PROVE  \E v \in Writers : Overlaps(v)
    BY <1>1, <2>1, Before DEF Fits
  <2>2. ASSUME NEW w \in Writers, beginReportGeneration(w) PROVE \E v \in Writers : Overlaps(v)
    <3>1. Continue(w, "runtime") /\ writer[w].pc = "begin"
      BY <1>1, <2>2 DEF beginReportGeneration
    <3>2. MayWrite(writer[w]) /\ writer'[w].pc = "runtime"
      BY <1>1, <3>1, Before DEF MayWrite, Continue, Writer
    <3>3. QED
      BY <2>1, <3>1, <3>2
  <2>3. ASSUME NEW w \in Writers, markReportFailed(w) PROVE \E v \in Writers : Overlaps(v)
    <3>1. MayWrite(writer[w]) /\ writer[w].pc = "fail" /\ writer'[w].pc = "ended"
      BY <1>1, <2>3, Before DEF markReportFailed, MayWrite, Continue, Writer
    <3>2. QED
      BY <2>1, <3>1
  <2>4. ASSUME NEW w \in Writers, CompleteReport(w) PROVE \E v \in Writers : Overlaps(v)
    <3>1. MayWrite(writer[w]) /\ writer[w].pc = "complete" /\ writer'[w].pc = "announce"
      BY <1>1, <2>4, Before DEF CompleteReport, MayWrite, Continue, Writer
    <3>2. QED
      BY <2>1, <3>1
  <2>5. report \in Report
    BY <1>1 DEF ReportInv, ReportTypeOK
  <2>6. ~UNCHANGED report /\ report' # [report EXCEPT !.cut = TRUE]
    BY <1>1, <2>5 DEF Report
  <2>7. \A w \in Writers : /\ ~LoadReport(w) /\ ~LoadSession(w) /\ ~RunTask(w)
                           /\ ~OutcomeLost(w) /\ ~Announce(w) /\ ~HangUp(w)
    BY <2>6 DEF LoadReport, LoadSession, RunTask, OutcomeLost, EndsUnwritten, Announce, HangUp
  <2>8. ~ServerCrash /\ ~SessionMoves /\ ~UNCHANGED reportVars
    BY <2>6 DEF ServerCrash, SessionMoves, reportVars
  <2>9. QED
    BY <1>1, <2>2, <2>3, <2>4, <2>7, <2>8 DEF NextReport, WriterStep
<1>2. ReportInv /\ [NextReport]_reportVars =>
        [ report.status = "completed" /\ <<report'.status, report'.content>> # <<"completed", report.content>>
            => \E w \in Writers : /\ writer'[w].pc # writer[w].pc
                                  /\ writer[w].before < report.completions ]_reportVars
  BY <1>1
<1>3. QED
  BY <1>2, ReportAlwaysFits, PTL DEF ReportSpec, CompletedOnlyLostToOverlap

-----------------------------------------------------------------------------
(* Evaluation runs                                                         *)

Meets(output, expected) == \A c \in expected : Holds(c, output)

(* A run at work has read a version of the case, and what it will say of   *)
(* its trace is what the trace says.                                       *)
RunFits(run, row, saved) ==
  /\ run.pc \in {"idle", "preview", "provider", "runtime", "trace"} => ~run.traced
  /\ run.pc \notin {"idle", "ended"} => run.version \in 1 .. Len(saved)
  /\ run.pc = "judge" /\ run.traced =>
       row.there /\ row.version = run.version /\ row.output = run.output

(* A verdict is that of its version on its output, and of its trace.       *)
RecordFits(record, run, row, saved) ==
  record.status \in {"passed", "failed"} =>
    /\ run.pc = "ended"
    /\ record.version \in 1 .. Len(saved)
    /\ record.status = "passed" <=> Meets(record.output, saved[record.version])
    /\ record.traced => row.there /\ row.version = record.version /\ row.output = record.output

EvaluationInv ==
  /\ EvaluationTypeOK
  /\ \A q \in EvalRuns : RunFits(evalRun[q], trace[q], versions)
  /\ \A q \in EvalRuns : RecordFits(recorded[q], evalRun[q], trace[q], versions)

LEMMA VersionsBound == MaxVersions \in Nat /\ \A expected \in Expectations : IsFiniteSet(expected)
BY EvaluationAssumption

(* All the outcomes hold or not all of them: the status says which.        *)
LEMMA VerdictOf ==
  ASSUME NEW expected, IsFiniteSet(expected), NEW output
  PROVE  LET verdict == StatusAndScore(EvaluateAssertions(output, expected))
         IN /\ verdict.passed \in Nat
            /\ verdict.status \in {"passed", "failed"}
            /\ verdict.status = "passed" <=> Meets(output, expected)
<1> DEFINE E == EvaluateAssertions(output, expected)
           P == {a \in E : a.passed}
<1>1. IsFiniteSet(E)
  <2>1. CASE expected = {}
    BY <2>1, FS_Singleton DEF EvaluateAssertions
  <2>2. CASE expected # {}
    <3> DEFINE f == [c \in expected |-> [check |-> c, passed |-> Holds(c, output)]]
    <3>1. E = {f[c] : c \in expected}
      BY <2>2 DEF EvaluateAssertions
    <3>2. f \in Surjection(expected, E)
      BY <3>1 DEF Surjection
    <3>3. QED
      BY <3>2, FS_Surjection
  <2>3. QED
    BY <2>1, <2>2
<1>2. P \in SUBSET E
  OBVIOUS
<1>3. /\ IsFiniteSet(P) /\ Cardinality(P) \in Nat
      /\ Cardinality(P) = Cardinality(E) => P = E
  BY <1>1, <1>2, FS_Subset, FS_CardinalityType
<1>4. P = E <=> Meets(output, expected)
  <2>1. CASE expected = {}
    <3>1. E = {[check |-> "runtime_ok", passed |-> TRUE]}
      BY <2>1 DEF EvaluateAssertions
    <3>2. QED
      BY <2>1, <3>1 DEF Meets
  <2>2. CASE expected # {}
    <3>1. E = {[check |-> c, passed |-> Holds(c, output)] : c \in expected}
      BY <2>2 DEF EvaluateAssertions
    <3>2. P = E <=> \A a \in E : a.passed
      OBVIOUS
    <3>3. ASSUME NEW c \in expected
          PROVE  /\ [check |-> c, passed |-> Holds(c, output)] \in E
                 /\ [check |-> c, passed |-> Holds(c, output)].passed <=> Holds(c, output)
      BY <3>1
    <3>4. (\A a \in E : a.passed) <=> \A c \in expected : Holds(c, output)
      BY <3>1, <3>3, Zenon
    <3>5. QED
      BY <3>2, <3>4 DEF Meets
  <2>3. QED
    BY <2>1, <2>2
<1>5. StatusAndScore(E) =
        [status |-> IF Cardinality(P) = Cardinality(E) THEN "passed" ELSE "failed",
         passed |-> Cardinality(P)]
  BY DEF StatusAndScore
<1> HIDE DEF E, P
<1>6. QED
  BY <1>3, <1>4, <1>5 DEF E

-----------------------------------------------------------------------------
LEMMA EvaluationInit == InitEvaluation => EvaluationInv
<1>1. SUFFICES ASSUME InitEvaluation PROVE EvaluationInv
  OBVIOUS
<1>2. NoOutput \in Outputs /\ 0 \in 0 .. MaxVersions
  BY VersionsBound DEF NoOutput, Outputs
<1>3. /\ versions \in Seq(Expectations) /\ Len(versions) <= MaxVersions
  BY <1>1, VersionsBound DEF InitEvaluation
<1>4. trace \in [EvalRuns -> TraceRow]
  BY <1>1, <1>2 DEF InitEvaluation, TraceRow
<1>5. evalRun \in [EvalRuns -> EvalRun]
  BY <1>1, <1>2 DEF InitEvaluation, EvalRun
<1>6. recorded \in [EvalRuns -> RunRow]
  BY <1>1, <1>2 DEF InitEvaluation, RunRow
<1>7. \A q \in EvalRuns : evalRun[q].pc = "idle" /\ ~evalRun[q].traced /\ recorded[q].status = "none"
  BY <1>1 DEF InitEvaluation
<1>8. QED
  BY <1>3, <1>4, <1>5, <1>6, <1>7 DEF EvaluationInv, EvaluationTypeOK, RunFits, RecordFits

(* One run moves on to n, and leaves its trace row at t and its record at  *)
(* r; the versions stay.                                                   *)
RunMoves(q, n, t, r) ==
  /\ n \in EvalRun /\ t \in TraceRow /\ r \in RunRow
  /\ evalRun' = [evalRun EXCEPT ![q] = n]
  /\ trace' = [trace EXCEPT ![q] = t]
  /\ recorded' = [recorded EXCEPT ![q] = r]
  /\ RunFits(n, t, versions)
  /\ RecordFits(r, n, t, versions)
  /\ UNCHANGED versions

LEMMA RunMovesKeeps ==
  ASSUME EvaluationInv, NEW q \in EvalRuns, NEW n, NEW t, NEW r, RunMoves(q, n, t, r)
  PROVE  EvaluationInv'
<1>1. /\ evalRun' \in [EvalRuns -> EvalRun] /\ evalRun'[q] = n
      /\ trace' \in [EvalRuns -> TraceRow] /\ trace'[q] = t
      /\ recorded' \in [EvalRuns -> RunRow] /\ recorded'[q] = r
      /\ \A p \in EvalRuns : p # q =>
           evalRun'[p] = evalRun[p] /\ trace'[p] = trace[p] /\ recorded'[p] = recorded[p]
  BY DEF RunMoves, EvaluationInv, EvaluationTypeOK
<1>2. EvaluationTypeOK'
  BY <1>1 DEF RunMoves, EvaluationInv, EvaluationTypeOK
<1>3. \A p \in EvalRuns : RunFits(evalRun'[p], trace'[p], versions')
  BY <1>1 DEF RunMoves, EvaluationInv
<1>4. \A p \in EvalRuns : RecordFits(recorded'[p], evalRun'[p], trace'[p], versions')
  BY <1>1 DEF RunMoves, EvaluationInv
<1>5. QED
  BY <1>2, <1>3, <1>4 DEF EvaluationInv

LEMMA RunBefore ==
  ASSUME EvaluationInv, NEW q \in EvalRuns
  PROVE  /\ evalRun[q] \in EvalRun /\ trace[q] \in TraceRow /\ recorded[q] \in RunRow
         /\ evalRun \in [EvalRuns -> EvalRun] /\ trace \in [EvalRuns -> TraceRow]
         /\ recorded \in [EvalRuns -> RunRow]
         /\ RunFits(evalRun[q], trace[q], versions)
         /\ RecordFits(recorded[q], evalRun[q], trace[q], versions)
         /\ versions \in Seq(Expectations) /\ Len(versions) \in 0 .. MaxVersions
BY VersionsBound DEF EvaluationInv, EvaluationTypeOK

(* A run that has not ended moves on, and writes nothing.                  *)
LEMMA RunGoesOn ==
  ASSUME EvaluationInv, NEW q \in EvalRuns, NEW n \in EvalRun, evalRun[q].pc # "ended",
         evalRun' = [evalRun EXCEPT ![q] = n], UNCHANGED <<versions, trace, recorded>>,
         RunFits(n, trace[q], versions)
  PROVE  EvaluationInv'
<1>1. trace' = [trace EXCEPT ![q] = trace[q]] /\ recorded' = [recorded EXCEPT ![q] = recorded[q]]
  BY RunBefore
<1>2. RecordFits(recorded[q], n, trace[q], versions)
  BY RunBefore DEF RecordFits
<1>3. RunMoves(q, n, trace[q], recorded[q])
  BY <1>1, <1>2, RunBefore DEF RunMoves
<1>4. QED
  BY <1>3, RunMovesKeeps

LEMMA RunToKeeps ==
  ASSUME EvaluationInv, NEW q \in EvalRuns, NEW pc \in {"provider", "runtime", "error", "ended"},
         RunTo(q, pc), evalRun[q].pc \notin {"idle", "ended"}, UNCHANGED <<versions, trace, recorded>>,
         pc \in {"provider", "runtime"} => evalRun[q].pc \in {"preview", "provider"}
  PROVE  EvaluationInv'
<1> DEFINE n == [evalRun[q] EXCEPT !.pc = pc]
<1>1. n \in EvalRun /\ n.pc = pc /\ n.version = evalRun[q].version /\ n.traced = evalRun[q].traced
  BY RunBefore DEF EvalRun
<1>2. evalRun' = [evalRun EXCEPT ![q] = n]
  BY DEF RunTo
<1> HIDE DEF n
<1>3. RunFits(n, trace[q], versions)
  BY <1>1, RunBefore DEF RunFits
<1>4. QED
  BY <1>1, <1>2, <1>3, RunGoesOn

LEMMA SaveCaseKeeps ==
  ASSUME EvaluationInv, NEW expected \in Expectations, SaveCase(expected)
  PROVE  EvaluationInv'
<1>1. /\ versions \in Seq(Expectations) /\ Len(versions) < MaxVersions
      /\ versions' = Append(versions, expected) /\ UNCHANGED <<trace, evalRun, recorded>>
  BY DEF SaveCase, EvaluationInv, EvaluationTypeOK
<1>2. /\ versions' \in Seq(Expectations) /\ Len(versions') = Len(versions) + 1
      /\ \A v \in 1 .. Len(versions) : v \in 1 .. Len(versions') /\ versions'[v] = versions[v]
  BY <1>1
<1>3. Len(versions') <= MaxVersions
  BY <1>1, <1>2, VersionsBound
<1>4. EvaluationTypeOK'
  BY <1>1, <1>2, <1>3 DEF EvaluationInv, EvaluationTypeOK
<1>5. \A q \in EvalRuns : RunFits(evalRun[q], trace[q], versions')
  BY <1>2 DEF EvaluationInv, RunFits
<1>6. \A q \in EvalRuns : RecordFits(recorded[q], evalRun[q], trace[q], versions')
  BY <1>2 DEF EvaluationInv, RecordFits
<1>7. QED
  BY <1>1, <1>4, <1>5, <1>6 DEF EvaluationInv

LEMMA GetCaseKeeps ==
  ASSUME EvaluationInv, NEW q \in EvalRuns, GetCase(q)
  PROVE  EvaluationInv'
<1> DEFINE n == [evalRun[q] EXCEPT !.pc = "preview", !.version = Len(versions)]
<1>1. versions \in Seq(Expectations) /\ versions # <<>> /\ Len(versions) \in 0 .. MaxVersions
  BY RunBefore DEF GetCase
<1>2. n \in EvalRun /\ n.pc = "preview" /\ n.version = Len(versions) /\ n.traced = evalRun[q].traced
  BY <1>1, RunBefore DEF EvalRun
<1>3. /\ evalRun' = [evalRun EXCEPT ![q] = n] /\ evalRun[q].pc = "idle"
      /\ UNCHANGED <<versions, trace, recorded>>
  BY RunBefore DEF GetCase
<1> HIDE DEF n
<1>4. Len(versions) \in 1 .. Len(versions)
  BY <1>1
<1>5. RunFits(n, trace[q], versions)
  BY <1>2, <1>3, <1>4, RunBefore DEF RunFits
<1>6. QED
  BY <1>2, <1>3, <1>5, RunGoesOn

LEMMA RuntimeAnswersKeeps ==
  ASSUME EvaluationInv, NEW q \in EvalRuns, RuntimeAnswers(q)
  PROVE  EvaluationInv'
<1>1. evalRun[q].pc = "runtime" /\ UNCHANGED <<versions, trace, recorded>>
  BY DEF RuntimeAnswers
<1>2. ASSUME NEW output \in Outputs,
             evalRun' = [evalRun EXCEPT ![q].pc = "trace", ![q].output = output]
      PROVE  EvaluationInv'
  <2> DEFINE n == [evalRun[q] EXCEPT !.pc = "trace", !.output = output]
  <2>1. n \in EvalRun /\ n.pc = "trace" /\ n.version = evalRun[q].version /\ n.traced = evalRun[q].traced
    BY RunBefore DEF EvalRun
  <2>2. evalRun' = [evalRun EXCEPT ![q] = n]
    BY <1>2, RunBefore
  <2> HIDE DEF n
  <2>3. RunFits(n, trace[q], versions)
    BY <1>1, <2>1, RunBefore DEF RunFits
  <2>4. QED
    BY <1>1, <2>1, <2>2, <2>3, RunGoesOn
<1>3. QED
  BY <1>1, <1>2, RunToKeeps DEF RuntimeAnswers

LEMMA InsertAgentTraceKeeps ==
  ASSUME EvaluationInv, NEW q \in EvalRuns, InsertAgentTrace(q)
  PROVE  EvaluationInv'
<1>1. evalRun[q].pc = "trace" /\ UNCHANGED <<versions, recorded>>
  BY DEF InsertAgentTrace
<1>2. evalRun[q].version \in 1 .. Len(versions) /\ recorded[q].status \notin {"passed", "failed"}
  BY <1>1, RunBefore DEF RunFits, RecordFits
<1>3. recorded' = [recorded EXCEPT ![q] = recorded[q]]
  BY <1>1, RunBefore
<1>4. CASE /\ trace' = [trace EXCEPT ![q] = [there |-> TRUE, version |-> evalRun[q].version,
                                             output |-> evalRun[q].output]]
           /\ evalRun' = [evalRun EXCEPT ![q].pc = "judge", ![q].traced = TRUE]
  <2> DEFINE n == [evalRun[q] EXCEPT !.pc = "judge", !.traced = TRUE]
             t == [there |-> TRUE, version |-> evalRun[q].version, output |-> evalRun[q].output]
  <2>1. /\ n \in EvalRun /\ n.pc = "judge" /\ n.version = evalRun[q].version
        /\ n.output = evalRun[q].output
    BY RunBefore DEF EvalRun
  <2>2. /\ t \in TraceRow /\ t.there /\ t.version = evalRun[q].version
        /\ t.output = evalRun[q].output
    BY RunBefore DEF EvalRun, TraceRow
  <2>3. evalRun' = [evalRun EXCEPT ![q] = n] /\ trace' = [trace EXCEPT ![q] = t]
    BY <1>4, RunBefore
  <2> HIDE DEF n, t
  <2>4. RunFits(n, t, versions) /\ RecordFits(recorded[q], n, t, versions)
    BY <1>2, <2>1, <2>2 DEF RunFits, RecordFits
  <2>5. RunMoves(q, n, t, recorded[q])
    BY <1>1, <1>3, <2>1, <2>2, <2>3, <2>4, RunBefore DEF RunMoves
  <2>6. QED
    BY <2>5, RunMovesKeeps
<1>5. CASE UNCHANGED trace /\ RunTo(q, "judge")
  <2> DEFINE n == [evalRun[q] EXCEPT !.pc = "judge"]
  <2>1. /\ n \in EvalRun /\ n.pc = "judge" /\ n.version = evalRun[q].version
        /\ n.traced = evalRun[q].traced
    BY RunBefore DEF EvalRun
  <2>2. evalRun' = [evalRun EXCEPT ![q] = n]
    BY <1>5 DEF RunTo
  <2> HIDE DEF n
  <2>3. RunFits(n, trace[q], versions)
    BY <1>1, <2>1, RunBefore DEF RunFits
  <2>4. QED
    BY <1>1, <1>5, <2>1, <2>2, <2>3, RunGoesOn
<1>6. QED
  BY <1>1, <1>4, <1>5 DEF InsertAgentTrace

LEMMA RecordRunKeeps ==
  ASSUME EvaluationInv, NEW q \in EvalRuns, RecordRun(q)
  PROVE  EvaluationInv'
<1> DEFINE run == evalRun[q]
           expected == ExpectedOf(run)
           verdict == StatusAndScore(EvaluateAssertions(run.output, expected))
           n == [run EXCEPT !.pc = "ended"]
           r == [status |-> verdict.status, version |-> run.version, output |-> run.output,
                 passed |-> verdict.passed, traced |-> run.traced]
<1>1. /\ run.pc = "judge" /\ UNCHANGED <<versions, trace>>
      /\ recorded' = [recorded EXCEPT ![q] = r] /\ evalRun' = [evalRun EXCEPT ![q] = n]
  BY DEF RecordRun, RunTo
<1>2. run \in EvalRun /\ RunFits(run, trace[q], versions)
  BY RunBefore
<1>3. run.version \in 1 .. Len(versions)
  BY <1>1, <1>2 DEF RunFits
<1>4. expected = versions[run.version] /\ IsFiniteSet(expected)
  BY <1>3, RunBefore, VersionsBound DEF ExpectedOf
<1>5. /\ verdict.passed \in Nat /\ verdict.status \in {"passed", "failed"}
      /\ verdict.status = "passed" <=> Meets(run.output, versions[run.version])
  BY <1>4, VerdictOf
<1>6. n \in EvalRun /\ n.pc = "ended"
  BY <1>2 DEF EvalRun
<1> HIDE DEF verdict, expected
<1>7. /\ r \in RunRow /\ r.status = verdict.status /\ r.version = run.version
      /\ r.output = run.output /\ r.traced = run.traced
  BY <1>2, <1>5 DEF RunRow, EvalRun
<1> HIDE DEF n, r
<1>8. RunFits(n, trace[q], versions)
  BY <1>6 DEF RunFits
<1>9. RecordFits(r, n, trace[q], versions)
  <2>1. run.traced => trace[q].there /\ trace[q].version = run.version /\ trace[q].output = run.output
    BY <1>1, <1>2 DEF RunFits
  <2>2. QED
    BY <1>3, <1>5, <1>6, <1>7, <2>1 DEF RecordFits
<1>10. trace' = [trace EXCEPT ![q] = trace[q]]
  BY <1>1, RunBefore
<1>11. RunMoves(q, n, trace[q], r)
  BY <1>1, <1>6, <1>7, <1>8, <1>9, <1>10, RunBefore DEF RunMoves
<1>12. QED
  BY <1>11, RunMovesKeeps

LEMMA RecordErrorKeeps ==
  ASSUME EvaluationInv, NEW q \in EvalRuns, recordError(q)
  PROVE  EvaluationInv'
<1> DEFINE n == [evalRun[q] EXCEPT !.pc = "ended"]
           r == [recorded[q] EXCEPT !.status = "error", !.version = evalRun[q].version]
<1>1. n \in EvalRun /\ n.pc = "ended"
  BY RunBefore DEF EvalRun
<1>2. r \in RunRow /\ r.status = "error"
  BY RunBefore DEF RunRow, EvalRun
<1>3. /\ evalRun' = [evalRun EXCEPT ![q] = n] /\ recorded' = [recorded EXCEPT ![q] = r]
      /\ UNCHANGED <<versions, trace>>
  BY RunBefore DEF recordError, RunTo
<1> HIDE DEF n, r
<1>4. trace' = [trace EXCEPT ![q] = trace[q]]
  BY <1>3, RunBefore
<1>5. RunFits(n, trace[q], versions) /\ RecordFits(r, n, trace[q], versions)
  BY <1>1, <1>2 DEF RunFits, RecordFits
<1>6. RunMoves(q, n, trace[q], r)
  BY <1>1, <1>2, <1>3, <1>4, <1>5, RunBefore DEF RunMoves
<1>7. QED
  BY <1>6, RunMovesKeeps

LEMMA RunHangsUpKeeps ==
  ASSUME EvaluationInv, NEW q \in EvalRuns, RunHangsUp(q)
  PROVE  EvaluationInv'
<1> DEFINE n == [evalRun[q] EXCEPT !.hungUp = TRUE]
<1>1. /\ n \in EvalRun /\ n.pc = evalRun[q].pc /\ n.version = evalRun[q].version
      /\ n.traced = evalRun[q].traced /\ n.output = evalRun[q].output
  BY RunBefore DEF EvalRun
<1>2. /\ evalRun' = [evalRun EXCEPT ![q] = n] /\ evalRun[q].pc # "ended"
      /\ UNCHANGED <<versions, trace, recorded>>
  BY RunBefore DEF RunHangsUp
<1> HIDE DEF n
<1>3. RunFits(n, trace[q], versions)
  BY <1>1, RunBefore DEF RunFits
<1>4. QED
  BY <1>1, <1>2, <1>3, RunGoesOn

LEMMA EvaluationStep == EvaluationInv /\ [NextEvaluation]_evaluationVars => EvaluationInv'
<1>1. SUFFICES ASSUME EvaluationInv, [NextEvaluation]_evaluationVars PROVE EvaluationInv'
  OBVIOUS
<1>2. ASSUME NEW q \in EvalRuns, PrepareRun(q) PROVE EvaluationInv'
  BY <1>1, <1>2, RunToKeeps DEF PrepareRun
<1>3. ASSUME NEW q \in EvalRuns, RunLost(q) PROVE EvaluationInv'
  BY <1>1, <1>3, RunToKeeps DEF RunLost
<1>4. CASE UNCHANGED evaluationVars
  BY <1>1, <1>4 DEF EvaluationInv, EvaluationTypeOK, evaluationVars
<1>5. QED
  BY <1>1, <1>2, <1>3, <1>4, SaveCaseKeeps, GetCaseKeeps, RuntimeAnswersKeeps,
     InsertAgentTraceKeeps, RecordRunKeeps, RecordErrorKeeps, RunHangsUpKeeps DEF NextEvaluation

(* The inductive invariant: a run keeps to the version of the case it read *)
(* and to the trace it wrote, and so does what it records.                 *)
(* (service.go:58 RunCase)                                                 *)
THEOREM EvaluationAlwaysFits == EvaluationSpec => []EvaluationInv
<1>1. InitEvaluation => EvaluationInv
  BY EvaluationInit
<1>2. EvaluationInv /\ [NextEvaluation]_evaluationVars => EvaluationInv'
  BY EvaluationStep
<1>3. QED
  BY <1>1, <1>2, PTL DEF EvaluationSpec

(* Versions, traces, runs and records have the values they may have.       *)
THEOREM EvaluationTypes == EvaluationSpec => []EvaluationTypeOK
<1>1. EvaluationInv => EvaluationTypeOK
  BY DEF EvaluationInv
<1>2. QED
  BY <1>1, EvaluationAlwaysFits, PTL

(* A verdict is that of one version of the case on one output, and its     *)
(* trace names both.  (service.go:58 RunCase, store.go:170 RecordRun)      *)
THEOREM VerdictsMatchTraces == EvaluationSpec => []VerdictMatchesTrace
<1>1. ASSUME EvaluationInv PROVE VerdictMatchesTrace
  <2>1. SUFFICES ASSUME NEW q \in EvalRuns, recorded[q].status \in {"passed", "failed"}
        PROVE LET run == recorded[q]
                  output == IF run.traced THEN trace[q].output ELSE run.output
                  version == IF run.traced THEN trace[q].version ELSE run.version
              IN /\ run.status = "passed" <=> \A c \in versions[version] : Holds(c, output)
                 /\ run.traced => trace[q].there /\ run.version = version
    BY DEF VerdictMatchesTrace
  <2>2. RecordFits(recorded[q], evalRun[q], trace[q], versions)
    BY <1>1, RunBefore
  <2>3. QED
    BY <2>1, <2>2 DEF RecordFits, Meets
<1>2. QED
  BY <1>1, EvaluationAlwaysFits, PTL
=============================================================================
