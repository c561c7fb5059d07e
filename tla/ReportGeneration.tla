-------------------------- MODULE ReportGeneration --------------------------
(***************************************************************************)
(* The report of one interview session: GenerateReport and the single row  *)
(* of interview_reports it shares with every other request for the same    *)
(* report (internal/interview/service.go).  There is no lock on the row:   *)
(* a request reads it, reads the session, marks the row running, waits for *)
(* the model runtime and writes the outcome.  A step of the model is one   *)
(* SQL statement or the runtime's answer.                                  *)
(*                                                                         *)
(* The request's context ends when its client hangs up; from then on every *)
(* statement it issues fails, the one that would record its failure too.   *)
(* What the report says is the request that wrote it.  The session is only *)
(* whether it is finished with no turn under way; AnswerPipeline has it.   *)
(* Left out: the trace row and the snapshot, best effort and read by no    *)
(* step here.                                                              *)
(***************************************************************************)
EXTENDS Integers

CONSTANTS
  Writers,       \* requests for the report, each made at most once
  MaxCompletions \* bound on how often the report is completed

ASSUME ReportAssumption == MaxCompletions \in Nat /\ "none" \notin Writers

NoWriter == "none"

VARIABLES
  report,   \* the interview_reports row
  settled,  \* the session is FINISHED, COMPLETED and has no unfinished turn
  writer,   \* each request: where it is and what it has read
  event     \* the outbox holds the event of the session's report

reportVars == <<report, settled, writer, event>>

(* completions: a ghost, how often the report has been completed.  cut: a  *)
(* ghost, the request that marked the report running last ended without    *)
(* writing its outcome.                                                    *)
Report == [status: {"absent", "running", "failed", "completed"},
           content: Writers \cup {NoWriter}, completions: 0 .. MaxCompletions,
           cut: BOOLEAN]

WriterPc == {"idle", "session", "begin", "runtime", "complete", "announce", "fail", "ended"}

(* before: a ghost, completions when the request read the report.          *)
Writer == [pc: WriterPc, before: 0 .. MaxCompletions, hungUp: BOOLEAN]

ReportTypeOK ==
  /\ report \in Report
  /\ settled \in BOOLEAN
  /\ writer \in [Writers -> Writer]
  /\ event \in BOOLEAN

InitReport ==
  /\ report = [status |-> "absent", content |-> NoWriter, completions |-> 0, cut |-> FALSE]
  /\ settled = FALSE
  /\ writer = [w \in Writers |-> [pc |-> "idle", before |-> 0, hungUp |-> FALSE]]
  /\ event = FALSE

Continue(w, pc) == writer' = [writer EXCEPT ![w].pc = pc]

(* The request ends; if the row still says running on its behalf and no    *)
(* other request will write it, it stays so.                               *)
EndsUnwritten(w) ==
  /\ Continue(w, "ended")
  /\ report' = [report EXCEPT !.cut = TRUE]

(* Variant: a completed report is generated again.                         *)
LoadReportAnyway(w) ==
  /\ writer[w].pc = "idle"
  /\ writer' = [writer EXCEPT ![w].pc = "session", ![w].before = report.completions]
  /\ UNCHANGED <<report, settled, event>>

(* A completed report is returned as it is.                                *)
LoadReport(w) ==
  /\ writer[w].pc = "idle"
  /\ writer' = [writer EXCEPT ![w].pc = IF report.status = "completed" THEN "ended" ELSE "session",
                              ![w].before = report.completions]
  /\ UNCHANGED <<report, settled, event>>

(* Only a finished session with no turn under way has a report.            *)
LoadSession(w) ==
  /\ writer[w].pc = "session"
  /\ Continue(w, IF settled /\ ~writer[w].hungUp THEN "begin" ELSE "ended")
  /\ UNCHANGED <<report, settled, event>>

(* Variant: the upsert starts with an empty report.                        *)
beginReportAnew(w) ==
  /\ writer[w].pc = "begin"
  /\ report' = [report EXCEPT !.status = "running", !.content = NoWriter, !.cut = FALSE]
  /\ Continue(w, "runtime")
  /\ UNCHANGED <<settled, event>>

(* The upsert keeps the content of an earlier report.                      *)
beginReportGeneration(w) ==
  /\ writer[w].pc = "begin"
  /\ \/ /\ ~writer[w].hungUp
        /\ report' = [report EXCEPT !.status = "running", !.cut = FALSE]
        /\ Continue(w, "runtime")
     \/ /\ UNCHANGED report
        /\ Continue(w, "ended")
  /\ UNCHANGED <<settled, event>>

(* Variant: an error of the runtime is returned at once.                   *)
RunTaskUnmarked(w) ==
  /\ writer[w].pc = "runtime"
  /\ \/ ~writer[w].hungUp /\ Continue(w, "complete")
     \/ Continue(w, "ended")
  /\ UNCHANGED <<report, settled, event>>

(* The provider is looked up and the runtime called; either may fail.      *)
RunTask(w) ==
  /\ writer[w].pc = "runtime"
  /\ \/ ~writer[w].hungUp /\ Continue(w, "complete")
     \/ Continue(w, "fail")
  /\ UNCHANGED <<report, settled, event>>

(* Whatever the row says by now, it is failed; the statement's own error   *)
(* is ignored.                                                             *)
markReportFailed(w) ==
  /\ writer[w].pc = "fail"
  /\ ~writer[w].hungUp
  /\ report' = [report EXCEPT !.status = "failed", !.cut = FALSE]
  /\ Continue(w, "ended")
  /\ UNCHANGED <<settled, event>>

CompleteReport(w) ==
  /\ writer[w].pc = "complete"
  /\ ~writer[w].hungUp
  /\ report.completions < MaxCompletions
  /\ report' = [status |-> "completed", content |-> w,
                completions |-> report.completions + 1, cut |-> FALSE]
  /\ Continue(w, "announce")
  /\ UNCHANGED <<settled, event>>

(* The last statement of a request fails, or its client has hung up: an    *)
(* error is returned and the row keeps what it says.                       *)
OutcomeLost(w) ==
  /\ writer[w].pc \in {"fail", "complete"}
  /\ EndsUnwritten(w)
  /\ UNCHANGED <<settled, event>>

(* One event per session, by its deduplication key, and only if the insert *)
(* succeeds.                                                               *)
Announce(w) ==
  /\ writer[w].pc = "announce"
  /\ \/ ~writer[w].hungUp /\ event' = TRUE
     \/ UNCHANGED event
  /\ Continue(w, "ended")
  /\ UNCHANGED <<report, settled>>

HangUp(w) ==
  /\ writer[w].pc \notin {"idle", "ended"}
  /\ ~writer[w].hungUp
  /\ writer' = [writer EXCEPT ![w].hungUp = TRUE]
  /\ UNCHANGED <<report, settled, event>>

(* The process dies with all its requests.                                 *)
ServerCrash ==
  /\ \E w \in Writers : writer[w].pc \notin {"idle", "ended"}
  /\ writer' = [w \in Writers |-> IF writer[w].pc = "idle" THEN writer[w]
                                  ELSE [writer[w] EXCEPT !.pc = "ended"]]
  /\ report' = [report EXCEPT !.cut = TRUE]
  /\ UNCHANGED <<settled, event>>

(* Finalize, or the last answer, settles the session; a turn put back in   *)
(* the queue unsettles it (AnswerPipeline!RequeueTurn and EnqueueAnswer of *)
(* a request that had read the session before).                            *)
SessionMoves ==
  /\ settled' = ~settled
  /\ UNCHANGED <<report, writer, event>>

WriterStep(w) ==
  \/ LoadReport(w)
  \/ LoadSession(w)
  \/ beginReportGeneration(w)
  \/ RunTask(w)
  \/ markReportFailed(w)
  \/ CompleteReport(w)
  \/ OutcomeLost(w)
  \/ Announce(w)
  \/ HangUp(w)

NextReport ==
  \/ \E w \in Writers : WriterStep(w)
  \/ ServerCrash
  \/ SessionMoves

ReportSpec == InitReport /\ [][NextReport]_reportVars

-----------------------------------------------------------------------------
(* A completed report is only ever lost, or replaced, to a request that    *)
(* had read the row before the completion: no request made afterwards can  *)
(* take it away.  Overlapping requests can, and the code does not prevent  *)
(* that.  (service.go:826 GenerateReport, :1453 beginReportGeneration,     *)
(* :1466 markReportFailed)                                                 *)
CompletedOnlyLostToOverlap ==
  [][ report.status = "completed" /\ <<report'.status, report'.content>> # <<"completed", report.content>>
      => \E w \in Writers : /\ writer'[w].pc # writer[w].pc
                            /\ writer[w].before < report.completions ]_reportVars

(* A report that says running is being written, or the request that said   *)
(* so was cut off: every path of a request that gets as far as an answer   *)
(* or an error of the runtime writes one.  (service.go:849 to :896)        *)
RunningHasAWriter ==
  report.status = "running" =>
    \/ report.cut
    \/ \E w \in Writers : writer[w].pc \in {"runtime", "fail", "complete"}

(* A report whose event is in the outbox has content, and so has every     *)
(* completed one, whatever failed or was regenerated in between.           *)
(* (service.go:885 the UPDATE and :897 the event)                          *)
AnnouncedHasContent ==
  event \/ report.status = "completed" => report.content # NoWriter
=============================================================================
