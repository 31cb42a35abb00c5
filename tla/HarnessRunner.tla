--------------------------- MODULE HarnessRunner ---------------------------
(***************************************************************************)
(* The Python side of an automation run: Runner.run of ua_test_harness,     *)
(* which runs the selected cases one after another, with the per-case       *)
(* ResourceRegistry, its LIFO cleanup, the cancellation token set by         *)
(* SIGTERM/SIGINT, the statistics and the events it writes to stdout.       *)
(*                                                                         *)
(* A case body is any sequence of resource operations that ends by          *)
(* returning or raising.  DataHub, where the resources live, may perform a   *)
(* request whose answer is lost, and may accept a deletion it has not done.  *)
(***************************************************************************)
EXTENDS Naturals, Sequences, FiniteSets, SequencesExt

CONSTANTS
    NumCases,       \* length of the selection
    Resources,      \* the data sources and tags the cases may create
    DataSources,    \* the data sources among them
    Verdicts        \* what a case body may end with (CaseStatus)

CaseStatus == {"PASS", "FAIL", "ERROR", "SKIP", "BLOCKED", "OBSERVED",
               "MEASURED", "CANCELLED", "CLEANUP_FAILED", "TIMEOUT"}

ASSUME NumCasesAssumption == NumCases \in Nat
ASSUME ResourcesAssumption == DataSources \subseteq Resources
ASSUME VerdictsAssumption == Verdicts \subseteq CaseStatus
ASSUME ErrorsAssumption == {"FAIL", "ERROR"} \subseteq Verdicts

VARIABLES
    phase,      \* where Runner.run stands
    cur,        \* cases begun
    signalled,  \* a SIGTERM or SIGINT has arrived (history)
    token,      \* CancellationToken
    chosen,     \* when it was set: the cases begun or about to (history)
    stack,      \* the case's ResourceRegistry
    env,        \* the resources that exist in DataHub
    lost,       \* those the harness itself lost sight of (history)
    stuck,      \* those whose cleanup raised (history)
    verdict,    \* case_status of the open case
    dirty,      \* its cleanup has collected an error
    stats,      \* RunStats
    results,    \* Runner.results
    events,     \* what stdout received
    rc          \* the exit code of run(), -1 before it returns

bodyVars == <<stack, env, lost, stuck, verdict, dirty>>
outVars  == <<stats, results, events, rc>>
vars     == <<phase, cur, signalled, token, chosen, bodyVars, outVars>>

Counters == {"total", "passed", "failed", "errors", "skipped", "blocked",
             "observed", "measured", "cleanup_failed", "timeout_count"}

\* RunStats.add: the counter of a status; CANCELLED has none.
CounterOf ==
    [PASS |-> "passed", FAIL |-> "failed", ERROR |-> "errors",
     SKIP |-> "skipped", BLOCKED |-> "blocked", OBSERVED |-> "observed",
     MEASURED |-> "measured", CLEANUP_FAILED |-> "cleanup_failed",
     TIMEOUT |-> "timeout_count", CANCELLED |-> "none"]

ZeroStats == [c \in Counters |-> 0]

\* Mutant: a failed cleanup overwrites the verdict's counter.
AddOnlyCleanup(s, v, failedCleanup) ==
    [c \in Counters |->
        s[c] + (IF c = "total" \/ (~failedCleanup /\ c = CounterOf[v]) THEN 1 ELSE 0)
             + (IF c = "cleanup_failed" /\ failedCleanup THEN 1 ELSE 0)]

\* The statistics after a case: its cleanup is counted on top of its verdict.
Add(s, v, failedCleanup) ==
    [c \in Counters |->
        s[c] + (IF c = "total" \/ c = CounterOf[v] THEN 1 ELSE 0)
             + (IF c = "cleanup_failed" /\ failedCleanup THEN 1 ELSE 0)]

\* Mutant: only verdicts decide the status of the run.
VerdictStatus(s, rs) ==
    IF s["failed"] > 0 \/ s["errors"] > 0 THEN "FAIL" ELSE "FINISHED"

\* _overall_status.  It looks for a cancelled case, not at the token.
OverallStatus(s, rs) ==
    IF s["failed"] > 0 \/ s["errors"] > 0 THEN "FAIL"
    ELSE IF s["cleanup_failed"] > 0 THEN "CLEANUP_FAILED"
    ELSE IF \E i \in DOMAIN rs : rs[i].status = "CANCELLED" THEN "CANCELLED"
    ELSE "FINISHED"

ExitCode(status) ==
    CASE status = "CANCELLED" -> 130
      [] status \in {"FAIL", "CLEANUP_FAILED"} -> 1
      [] OTHER -> 0

Event(type, case, status, s) ==
    [type |-> type, case |-> case, status |-> status, stats |-> s]

EventTypes == {"run_started", "case_started", "case_finished",
               "cleanup_finished", "run_finished"}

TypeOK ==
    /\ phase \in {"start", "loop", "begin", "body", "cleanup", "hung", "done", "killed"}
    /\ cur \in 0 .. NumCases
    /\ signalled \in BOOLEAN
    /\ token \in BOOLEAN
    /\ chosen \in 0 .. NumCases
    /\ stack \in Seq(Resources)
    /\ env \subseteq Resources
    /\ lost \subseteq Resources
    /\ stuck \subseteq Resources
    /\ verdict \in Verdicts
    /\ dirty \in BOOLEAN
    /\ stats \in [Counters -> Nat]
    /\ results \in Seq([status : Verdicts, cleanup : {"PASS", "CLEANUP_FAILED"}])
    /\ rc \in {-1, 0, 1, 130}

Init ==
    /\ phase = "start"
    /\ cur = 0
    /\ signalled = FALSE
    /\ token = FALSE
    /\ chosen = 0
    /\ stack = <<>>
    /\ env = {}
    /\ lost = {}
    /\ stuck = {}
    /\ verdict = "ERROR"
    /\ dirty = FALSE
    /\ stats = ZeroStats
    /\ results = <<>>
    /\ events = <<>>
    /\ rc = -1

Running == phase \notin {"done", "killed"}
Registered == ToSet(stack)

-----------------------------------------------------------------------------
(* The run loop *)

StartRun ==
    /\ phase = "start"
    /\ phase' = "loop"
    /\ events' = Append(events, Event("run_started", 0, "", [ZeroStats EXCEPT !["total"] = NumCases]))
    /\ UNCHANGED <<cur, signalled, token, chosen, bodyVars, stats, results, rc>>

\* Mutant: the loop runs one case too many.
NextCaseBeyond ==
    /\ phase = "loop"
    /\ cur <= NumCases
    /\ ~token
    /\ phase' = "begin"
    /\ UNCHANGED <<cur, signalled, token, chosen, bodyVars, outVars>>

\* Mutant: the loop does not look at the token.
NextCaseDeaf ==
    /\ phase = "loop"
    /\ cur < NumCases
    /\ phase' = "begin"
    /\ UNCHANGED <<cur, signalled, token, chosen, bodyVars, outVars>>

\* The loop looks at the token, here and nowhere else.
NextCase ==
    /\ phase = "loop"
    /\ cur < NumCases
    /\ ~token
    /\ phase' = "begin"
    /\ UNCHANGED <<cur, signalled, token, chosen, bodyVars, outVars>>

\* _run_one: a handler that runs between the look and this is not noticed.
BeginCase ==
    /\ phase = "begin"
    /\ phase' = "body"
    /\ cur' = cur + 1
    /\ stack' = <<>>
    /\ dirty' = FALSE
    /\ events' = Append(events, Event("case_started", cur + 1, "", ZeroStats))
    /\ UNCHANGED <<signalled, token, chosen, env, lost, stuck, verdict, stats, results, rc>>

\* impl_func returns a status, or raises: AssertionError is FAIL, any other
\* Exception ERROR.
EndBody(v) ==
    /\ phase = "body"
    /\ phase' = "cleanup"
    /\ verdict' = v
    /\ UNCHANGED <<cur, signalled, token, chosen, stack, env, lost, stuck, dirty, outVars>>

\* Mutant: the case is closed with part of the registry uncleaned once a
\* cleanup has raised.
CloseEarly ==
    /\ phase = "cleanup"
    /\ stack = <<>> \/ dirty
    /\ phase' = "loop"
    /\ stats' = Add(stats, verdict, dirty)
    /\ LET cleanup == IF dirty THEN "CLEANUP_FAILED" ELSE "PASS"
       IN  /\ results' = Append(results, [status |-> verdict, cleanup |-> cleanup])
           /\ events' = events \o <<Event("case_finished", cur, verdict, ZeroStats),
                                    Event("cleanup_finished", cur, cleanup, ZeroStats)>>
    /\ stack' = <<>>
    /\ UNCHANGED <<cur, signalled, token, chosen, env, lost, stuck, verdict, dirty, rc>>

\* The end of _run_one, once cleanup_all has emptied the registry.
CloseCase ==
    /\ phase = "cleanup"
    /\ stack = <<>>
    /\ phase' = "loop"
    /\ stats' = Add(stats, verdict, dirty)
    /\ LET cleanup == IF dirty THEN "CLEANUP_FAILED" ELSE "PASS"
       IN  /\ results' = Append(results, [status |-> verdict, cleanup |-> cleanup])
           /\ events' = events \o <<Event("case_finished", cur, verdict, ZeroStats),
                                    Event("cleanup_finished", cur, cleanup, ZeroStats)>>
    /\ UNCHANGED <<cur, signalled, token, chosen, bodyVars, rc>>

\* Mutant: cancelled() skips the remaining cases without ending the loop.
FinishRunComplete ==
    /\ phase = "loop"
    /\ cur = NumCases
    /\ phase' = "done"
    /\ events' = Append(events, Event("run_finished", 0, OverallStatus(stats, results), stats))
    /\ rc' = ExitCode(OverallStatus(stats, results))
    /\ UNCHANGED <<cur, signalled, token, chosen, bodyVars, stats, results>>

\* The run-level registry is empty: during a case ctx.registry is the case's.
FinishRun ==
    /\ phase = "loop"
    /\ cur = NumCases \/ token
    /\ phase' = "done"
    /\ events' = Append(events, Event("run_finished", 0, OverallStatus(stats, results), stats))
    /\ rc' = ExitCode(OverallStatus(stats, results))
    /\ UNCHANGED <<cur, signalled, token, chosen, bodyVars, stats, results>>

-----------------------------------------------------------------------------
(* What a case body does with resources *)

\* create_datasource, create_tag, create_case_tag: the request is answered and
\* the cleanup is registered.  Names are unique to the run and the case, so the
\* removal of a stale namesake that comes first finds nothing.
Create(x) ==
    /\ phase = "body"
    /\ x \notin env
    /\ x \notin Registered
    /\ env' = env \cup {x}
    /\ stack' = Append(stack, x)
    /\ UNCHANGED <<phase, cur, signalled, token, chosen, lost, stuck, verdict, dirty, outVars>>

\* The request raises, or its answer has no id, before register is reached;
\* DataHub may have performed it all the same.
CreateRaises(x) ==
    /\ phase = "body"
    /\ x \notin env
    /\ x \notin Registered
    /\ phase' = "cleanup"
    /\ \E v \in {"FAIL", "ERROR"} : verdict' = v
    /\ \E done \in SUBSET {x} : env' = env \cup done /\ lost' = lost \cup done
    /\ UNCHANGED <<cur, signalled, token, chosen, stack, stuck, dirty, outVars>>

\* A case that deletes its own resource: the deletion is answered, then the
\* entry is popped without a look at whether the resource is gone.
ReleaseEarly(x) ==
    /\ phase = "body"
    /\ \E i \in DOMAIN stack : stack[i] = x /\ stack' = RemoveAt(stack, i)
    /\ \/ env' = env \ {x} /\ lost' = lost
       \/ x \in env /\ env' = env /\ lost' = lost \cup {x}
    /\ UNCHANGED <<phase, cur, signalled, token, chosen, stuck, verdict, dirty, outVars>>

\* The deletion raises: the entry stays for the runner's cleanup.
ReleaseRaises(x) ==
    /\ phase = "body"
    /\ x \in Registered
    /\ env' \in {env, env \ {x}}
    /\ UNCHANGED <<phase, cur, signalled, token, chosen, stack, lost, stuck, verdict, dirty, outVars>>

-----------------------------------------------------------------------------
(* ResourceRegistry.cleanup_all *)

\* Mutant: the cleanup of a resource is not verified.
CleanupUnverified ==
    /\ phase = "cleanup"
    /\ stack # <<>>
    /\ stack' = Front(stack)
    /\ env' \in {env, env \ {Last(stack)}}
    /\ UNCHANGED <<phase, cur, signalled, token, chosen, lost, stuck, verdict, dirty, outVars>>

\* What a cleanup that returns leaves: _safe_delete looks until the data source
\* is gone; the cleanup of a tag believes the answer to its deletion.
AfterCleanup(x) == IF x \in DataSources THEN {env \ {x}} ELSE {env, env \ {x}}

\* The last entry is popped, then its cleanup runs; when it raises, that is
\* recorded, and the resource may be gone even so.
CleanupNext ==
    /\ phase = "cleanup"
    /\ stack # <<>>
    /\ stack' = Front(stack)
    /\ \/ /\ env' \in AfterCleanup(Last(stack))
          /\ UNCHANGED <<dirty, stuck>>
       \/ /\ env' \in {env, env \ {Last(stack)}}
          /\ dirty' = TRUE
          /\ stuck' = stuck \cup {Last(stack)}
    /\ UNCHANGED <<phase, cur, signalled, token, chosen, lost, verdict, outVars>>

-----------------------------------------------------------------------------
(* Signals *)

\* The handler logs, which emits an event, and sets the token.
Signal ==
    /\ Running /\ phase \notin {"start", "hung"}
    /\ ~token
    /\ signalled' = TRUE
    /\ token' = TRUE
    /\ chosen' = IF phase = "begin" THEN cur + 1 ELSE cur
    /\ UNCHANGED <<phase, cur, bodyVars, outVars>>

\* The signal finds the main thread inside EventEmitter.emit: the handler runs
\* on that same thread, and its own emit waits for the _LOCK held below it.
SignalInEmit ==
    /\ Running /\ phase \notin {"start", "hung"}
    /\ signalled' = TRUE
    /\ phase' = "hung"
    /\ UNCHANGED <<cur, token, chosen, bodyVars, outVars>>

\* SIGKILL, which is how Manager.Stop cancels a run, a crash, or a write to
\* stdout that raises because the application, the reader, is gone.
Killed ==
    /\ Running
    /\ phase' = "killed"
    /\ UNCHANGED <<cur, signalled, token, chosen, bodyVars, outVars>>

-----------------------------------------------------------------------------
Terminated == ~Running /\ UNCHANGED vars

Next ==
    \/ StartRun \/ NextCase \/ BeginCase \/ CloseCase \/ FinishRun
    \/ \E v \in Verdicts : EndBody(v)
    \/ \E x \in Resources :
          Create(x) \/ CreateRaises(x) \/ ReleaseEarly(x) \/ ReleaseRaises(x)
    \/ CleanupNext
    \/ Signal \/ SignalInEmit \/ Killed
    \/ Terminated

\* The runner itself never waits.  A case body may: its requests and polls have
\* deadlines, but its loops over the pages of a listing have none.
Fairness ==
    /\ WF_vars(StartRun) /\ WF_vars(NextCase) /\ WF_vars(BeginCase) /\ WF_vars(FinishRun)
    /\ WF_vars(CleanupNext) /\ WF_vars(CloseCase)

Spec == Init /\ [][Next]_vars
FairSpec == Spec /\ Fairness

-----------------------------------------------------------------------------
(* Properties *)

\* Between cases no data source of a finished case is left in DataHub, where it
\* would occupy its endpoint, unless its cleanup raised or the case body itself
\* lost sight of it.  (A tag may be: its deletion is not verified.)
NoSilentLeak ==
    phase \in {"loop", "done"} => env \cap DataSources \subseteq lost \cup stuck

\* Exit code 0 hides nothing: every cleanup succeeded and no case failed.
ExitZeroIsClean ==
    rc = 0 => /\ stuck = {}
              /\ \A i \in DOMAIN results : results[i].status \notin {"FAIL", "ERROR"}

\* The closed cases with a verdict, and those whose cleanup failed.
WithVerdict(v) == {i \in DOMAIN results : results[i].status = v}
Uncleaned == {i \in DOMAIN results : results[i].cleanup = "CLEANUP_FAILED"}

\* The counters of run_finished are those of the results, case by case: one
\* verdict each, and cleanup failures on top.
StatsMatchResults ==
    /\ stats["total"] = Len(results)
    /\ \A v \in Verdicts \ {"CLEANUP_FAILED", "CANCELLED"} :
          stats[CounterOf[v]] = Cardinality(WithVerdict(v))
    /\ stats["cleanup_failed"]
          = Cardinality(Uncleaned) + Cardinality(WithVerdict("CLEANUP_FAILED"))

\* A case body is entered and never left.
BodyHangs == <>[](phase = "body")

\* A signal whose handler got through ends the run, unless another one hangs it
\* or the body under way never ends: that case is finished and cleaned up.
SignalEndsRun == (token ~> phase \in {"done", "killed", "hung"}) \/ BodyHangs

\* No case begins after the token is set but the one that run() had already
\* looked at the token for: a stop costs one case more than it should at most.
OnlyChosenCaseBegins == token => cur <= chosen

\* The runner keeps the contract of CaseCustody.
Contract == INSTANCE CaseCustody WITH
    open <- phase \in {"body", "cleanup"}
            \/ (phase \in {"hung", "killed"} /\ Len(results) < cur),
    custody <- Registered,
    faulty <- dirty,
    ledger <- [i \in DOMAIN results |-> results[i].cleanup = "PASS"]
KeepsCustody == Contract!Spec

\* plan.md 5.5: "无论用例 PASS、FAIL、ERROR 或取消，都必须执行清理".  Stopping a
\* run from the application kills this process wherever it is.
CleanedUpEvenWhenCancelled == ~Running => stack = <<>>

\* plan.md 5.1: "130：收到停止信号"; its phase 2 tests "SIGINT/SIGTERM 清理": a stop
\* signal makes the harness return, after cleaning up.  It fails even for bodies
\* that all end.
StopSignalEndsRun == (signalled ~> ~Running) \/ BodyHangs
=============================================================================
