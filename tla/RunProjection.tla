--------------------------- MODULE RunProjection ---------------------------
(***************************************************************************)
(* The database image of a run: the goroutine consumeStdout reads the       *)
(* events of the harness one by one, and automation.Service.onEvent projects *)
(* each onto automation_case_results and onto the run's row in              *)
(* automation_runs (event.go, UpsertCaseResult, UpdateAutomationRun).        *)
(*                                                                         *)
(* HarnessRunner is the writer of the stream.  The reader handles an event   *)
(* in two statements, either of which the store may refuse (the error is     *)
(* dropped), and can die between them; when the child has exited, cmd.Wait    *)
(* may close the pipe over unread events.  StopTestRun, a StartTestRun that   *)
(* fails and the recovery of the next start write the row's status too.       *)
(* Step, metric, evidence and log events are left out: they touch tables and  *)
(* a column of their own.  So are the lines of another run that AutomationRun *)
(* shows can be filed under this row.                                        *)
(***************************************************************************)
EXTENDS Integers, Sequences, FiniteSets

CONSTANTS NumCases, Resources, DataSources, Verdicts,
    MaxRefused      \* bound: statements of the reader that the store refuses

ASSUME MaxRefusedAssumption == MaxRefused \in Nat

VARIABLES phase, cur, signalled, token, chosen, stack, env, lost, stuck, verdict, dirty,
          stats, results, events, rc        \* HarnessRunner

VARIABLES
    reader,     \* consumeStdout: on, closed with the pipe, or crashed with the app
    read,       \* events handled completely
    halfway,    \* the next one has reached the case table only
    row,        \* the run's row
    caseRow,    \* the run's case rows
    due,        \* the statuses that calls are about to write into the row
    refused,    \* statements of the reader refused so far
    unstored,   \* cases whose row was refused its cleanup (history)
    untold      \* the UPDATE with the run's end was refused (history)

Runner == INSTANCE HarnessRunner

\* What the harness is run with.
ASSUME RunnerAssumption ==
    /\ NumCases \in Nat
    /\ DataSources \subseteq Resources
    /\ {"FAIL", "ERROR"} \subseteq Verdicts
    /\ Verdicts \subseteq Runner!CaseStatus

harnessVars == <<phase, cur, signalled, token, chosen, stack, env, lost, stuck, verdict,
                 dirty, stats, results, events, rc>>
tables == <<row, caseRow>>
told   == <<refused, unstored, untold>>
dbVars == <<reader, read, halfway, tables, due, told>>
vars   == <<harnessVars, dbVars>>

Cases == 1 .. NumCases
RowCounters == Runner!Counters \ {"total", "timeout_count"}

NoCaseRow == [status |-> "absent", cleanup |-> "absent"]

\* The statuses only run_finished brings.  ("CANCELLED" is StopTestRun's too.)
EndStatus == {"FINISHED", "FAIL", "CLEANUP_FAILED"}
RowStatus == EndStatus \cup {"PENDING", "RUNNING", "INTERRUPTED", "ERROR", "CANCELLED"}

TypeOK ==
    /\ reader \in {"on", "closed", "crashed"}
    /\ read \in 0 .. Len(events)
    /\ halfway \in BOOLEAN
    /\ row \in [status : RowStatus,
                total : 0 .. NumCases, progress : Nat, case : 0 .. NumCases,
                n : [RowCounters -> Nat]]
    /\ caseRow \in [Cases -> [status : Verdicts \cup {"absent", ""},
                              cleanup : {"absent", "", "PASS", "CLEANUP_FAILED"}]]
    /\ due \subseteq {"CANCELLED", "ERROR"}
    /\ refused \in 0 .. MaxRefused
    /\ unstored \subseteq Cases
    /\ untold \in BOOLEAN

\* The row as StartTestRun leaves it before the process is spawned, PENDING if
\* the UPDATE to RUNNING was refused.
Init ==
    /\ Runner!Init
    /\ reader = "on"
    /\ read = 0
    /\ halfway = FALSE
    /\ \E s \in {"PENDING", "RUNNING"} :
          row = [status |-> s, total |-> NumCases, progress |-> 0, case |-> 0,
                 n |-> [c \in RowCounters |-> 0]]
    /\ caseRow = [c \in Cases |-> NoCaseRow]
    /\ due = {}
    /\ refused = 0
    /\ unstored = {}
    /\ untold = FALSE

-----------------------------------------------------------------------------
(* What an event does to the tables *)

\* Mutant: the cleanup event fills the columns of the verdict.
CaseRowsMixed(e) ==
    IF e.type \in {"case_finished", "cleanup_finished"}
    THEN [caseRow EXCEPT ![e.case] = [status |-> e.status, cleanup |-> ""]]
    ELSE caseRow

\* UpsertCaseResult: every column is COALESCE(excluded.x, x), and a Go string
\* is never NULL, so each upsert writes all the columns, the empty ones too.
CaseRowsAfter(e) ==
    CASE e.type = "case_finished" ->
            [caseRow EXCEPT ![e.case] = [status |-> e.status, cleanup |-> ""]]
      [] e.type = "cleanup_finished" ->
            [caseRow EXCEPT ![e.case] = [status |-> "", cleanup |-> e.status]]
      [] OTHER -> caseRow

\* bumpCounters works on the patch of this event, which starts empty: the
\* columns it touches are set to 1.
Bumped(s) ==
    [row EXCEPT !.progress = 1,
                !.n = [c \in RowCounters |->
                          IF c = Runner!CounterOf[s] THEN 1 ELSE @[c]]]

\* The numbers run_finished carries.  Blocked and timed-out cases are not in
\* the progress, failed cleanups are.
Final(e) ==
    [row EXCEPT !.status = e.status,
                !.total = e.stats["total"],
                !.n = [c \in RowCounters |-> e.stats[c]],
                !.progress = e.stats["passed"] + e.stats["failed"] + e.stats["errors"]
                             + e.stats["skipped"] + e.stats["observed"]
                             + e.stats["measured"] + e.stats["cleanup_failed"]]

\* Mutant: every cleanup is counted.
RowCountsCleanups(e) ==
    CASE e.type = "run_started" ->
            [row EXCEPT !.status = "RUNNING", !.total = e.stats["total"], !.progress = 0]
      [] e.type = "case_started" -> [row EXCEPT !.case = e.case]
      [] e.type \in {"case_finished", "cleanup_finished"} -> Bumped(e.status)
      [] e.type = "run_finished" -> Final(e)

\* Mutant: run_finished is taken for a change of status only.
RowStatusOnly(e) ==
    CASE e.type = "run_started" ->
            [row EXCEPT !.status = "RUNNING", !.total = e.stats["total"], !.progress = 0]
      [] e.type = "case_started" -> [row EXCEPT !.case = e.case]
      [] e.type = "case_finished" -> Bumped(e.status)
      [] e.type = "cleanup_finished" ->
            IF e.status = "CLEANUP_FAILED" THEN Bumped(e.status) ELSE row
      [] e.type = "run_finished" -> [row EXCEPT !.status = e.status]

\* Mutant: any event of a case says that the run is running.
RowRevived(e) ==
    CASE e.type = "run_started" ->
            [row EXCEPT !.status = "RUNNING", !.total = e.stats["total"], !.progress = 0]
      [] e.type = "case_started" -> [row EXCEPT !.case = e.case, !.status = "RUNNING"]
      [] e.type = "case_finished" -> Bumped(e.status)
      [] e.type = "cleanup_finished" ->
            IF e.status = "CLEANUP_FAILED" THEN Bumped(e.status) ELSE row
      [] e.type = "run_finished" -> Final(e)

\* EventProjection and UpdateAutomationRun on the run's row.
RowAfter(e) ==
    CASE e.type = "run_started" ->
            [row EXCEPT !.status = "RUNNING", !.total = e.stats["total"], !.progress = 0]
      [] e.type = "case_started" -> [row EXCEPT !.case = e.case]
      [] e.type = "case_finished" -> Bumped(e.status)
      [] e.type = "cleanup_finished" ->
            IF e.status = "CLEANUP_FAILED" THEN Bumped(e.status) ELSE row
      [] e.type = "run_finished" -> Final(e)

-----------------------------------------------------------------------------
(* The reader *)

\* Inside EventProjection: the case tables.  An upsert may be refused.
StoreCase ==
    /\ reader = "on"
    /\ ~halfway
    /\ read < Len(events)
    /\ halfway' = TRUE
    /\ LET e == events[read + 1]
       IN  \/ /\ caseRow' = CaseRowsAfter(e)
              /\ UNCHANGED <<refused, unstored>>
           \/ /\ refused < MaxRefused
              /\ refused' = refused + 1
              /\ UNCHANGED caseRow
              /\ unstored' = IF e.type = "cleanup_finished"
                             THEN unstored \cup {e.case} ELSE unstored
    /\ UNCHANGED <<harnessVars, reader, read, row, due, untold>>

\* Mutant: an event with an empty patch ends the handler for good.
PatchRunStalls ==
    /\ reader # "crashed"
    /\ halfway
    /\ RowAfter(events[read + 1]) # row
    /\ halfway' = FALSE
    /\ read' = read + 1
    /\ row' = RowAfter(events[read + 1])
    /\ UNCHANGED <<harnessVars, reader, caseRow, due, told>>

\* Then the run's row, with the patch EventProjection returned; that UPDATE may
\* be refused as well.
PatchRun ==
    /\ reader # "crashed"
    /\ halfway
    /\ halfway' = FALSE
    /\ read' = read + 1
    /\ LET e == events[read + 1]
       IN  \/ /\ row' = RowAfter(e)
              /\ UNCHANGED <<refused, untold>>
           \/ /\ refused < MaxRefused
              /\ refused' = refused + 1
              /\ UNCHANGED row
              /\ untold' = (untold \/ e.type = "run_finished")
    /\ UNCHANGED <<harnessVars, reader, caseRow, due, unstored>>

\* The child has exited and cmd.Wait closes the pipe; the event in hand is
\* still handled.
PipeCloses ==
    /\ phase \in {"done", "killed"}
    /\ reader = "on"
    /\ reader' = "closed"
    /\ UNCHANGED <<harnessVars, read, halfway, tables, due, told>>

-----------------------------------------------------------------------------
(* The other writers of the row *)

\* Manager.Start fails for this run: there will be no child, and StartTestRun
\* is about to say so.
StartFails ==
    /\ phase = "start"
    /\ reader = "on"
    /\ Runner!Killed
    /\ reader' = "closed"
    /\ due' = due \cup {"ERROR"}
    /\ UNCHANGED <<read, halfway, tables, told>>

\* A StopTestRun of this row whose Stop was accepted: it has killed this run's
\* child, or, when there is none yet or no longer, found that child dead or
\* hit the one of another run, the row being without a key.
StopRow ==
    /\ reader # "crashed"
    /\ \/ Runner!Killed
       \/ phase \in {"start", "done", "killed"} /\ UNCHANGED harnessVars
    /\ due' = due \cup {"CANCELLED"}
    /\ UNCHANGED <<reader, read, halfway, tables, told>>

\* The UPDATE these calls end with, refused or not.
RecordStatus(s) ==
    /\ s \in due
    /\ due' = due \ {s}
    /\ row' \in {[row EXCEPT !.status = s], row}
    /\ UNCHANGED <<harnessVars, reader, read, halfway, caseRow, told>>

\* The application dies or quits, and the pipe's reader with it.
AppCrashes ==
    /\ reader # "crashed"
    /\ reader' = "crashed"
    /\ halfway' = FALSE
    /\ due' = {}
    /\ UNCHANGED <<harnessVars, read, tables, told>>

\* MarkInterruptedRuns, at the first later start that gets it through.
Recover ==
    /\ reader = "crashed"
    /\ row.status = "RUNNING"
    /\ row' = [row EXCEPT !.status = "INTERRUPTED"]
    /\ UNCHANGED <<harnessVars, reader, read, halfway, caseRow, due, told>>

\* A harness without a reader goes on until it writes: that raises, and ends it.
HarnessStep ==
    /\ Runner!Next
    /\ reader = "crashed" => UNCHANGED events
    /\ UNCHANGED dbVars

Next ==
    \/ HarnessStep
    \/ StoreCase \/ PatchRun
    \/ PipeCloses
    \/ StartFails \/ StopRow
    \/ \E s \in {"CANCELLED", "ERROR"} : RecordStatus(s)
    \/ AppCrashes \/ Recover

\* The reader runs while it has something to read.
Fairness ==
    /\ Runner!Fairness
    /\ WF_vars(StoreCase)
    /\ WF_vars(PatchRun)

Spec == Init /\ [][Next]_vars
FairSpec == Spec /\ Fairness

-----------------------------------------------------------------------------
(* Properties *)

\* A row with a status that only run_finished brings is the whole truth about
\* the run: the harness ended with that status, every counter is its counter,
\* and every case whose upsert was not refused has the row of its cleanup.
\* However the reader was cut off, and whichever statements were refused before,
\* a partial image never looks finished; it may look CANCELLED, which is what
\* StopTestRun writes over any counters.
FinishedRowExact ==
    row.status \in EndStatus =>
        /\ phase = "done"
        /\ row.status = Runner!OverallStatus(stats, results)
        /\ \A c \in RowCounters : row.n[c] = stats[c]
        /\ \A i \in 1 .. Len(results) :
              i \in unstored \/ caseRow[i].cleanup = results[i].cleanup

\* Such a row is also true of the cases themselves: each counter is the number
\* of cases that ended that way; FINISHED hides no failed case, no failed
\* cleanup, and no data source left in DataHub but those the case bodies
\* themselves lost sight of.  Every selected case has run, unless a stop signal
\* came: then the row says FINISHED or FAIL of a part of the selection, where
\* plan.md 5.1 would have the run end with 130.
EndedRowTellsCases ==
    row.status \in EndStatus =>
        /\ Len(results) = NumCases \/ token
        /\ row.total = Len(results)
        /\ \A v \in Verdicts \ {"CLEANUP_FAILED", "TIMEOUT", "CANCELLED"} :
              row.n[Runner!CounterOf[v]]
                  = Cardinality({i \in DOMAIN results : results[i].status = v})
        /\ row.status = "FINISHED" => \A i \in 1 .. Len(results) :
              results[i].status \notin {"FAIL", "ERROR"} /\ results[i].cleanup = "PASS"
        /\ row.status = "FINISHED" => env \cap DataSources \subseteq lost

\* StopTestRun's CANCELLED is written by another goroutine than the lines are.
\* A line takes it back only if the stop came before the first line was read,
\* or if the run had ended by itself: the lines a killed harness left behind do
\* not bring its row back to life.
CancelStands ==
    [][row.status = "CANCELLED" /\ row'.status # "CANCELLED"
          => read = 0 \/ phase = "done"]_vars

\* At any moment, with events unread or lost, no counter of the row exceeds
\* what the run has really seen.
RowNeverOverstates ==
    \A c \in RowCounters : row.n[c] <= stats[c]

\* Case rows are written for cases that are over, and say of each what its
\* result says or nothing.
RowsFollowResults ==
    \A i \in Cases : caseRow[i] # NoCaseRow =>
        /\ i <= Len(results)
        /\ caseRow[i].status \in {"", results[i].status}
        /\ caseRow[i].cleanup \in {"", results[i].cleanup}

\* While the pipe stays open the reader catches up with a finished run, unless
\* the store refuses the end of it or a StopTestRun has had the last word.
ReaderCatchesUp ==
    phase = "done" ~> \/ row.status \in {Runner!OverallStatus(stats, results), "CANCELLED"}
                      \/ untold
                      \/ reader # "on"

\* plan.md 0.1: "结果增量落盘，程序崩溃或关闭后可查看已完成部分": the verdict of a
\* completed case can be read from its row.
CaseVerdictKept ==
    \A i \in Cases : caseRow[i] # NoCaseRow => caseRow[i].status = results[i].status
=============================================================================
