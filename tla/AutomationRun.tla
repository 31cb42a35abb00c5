--------------------------- MODULE AutomationRun ---------------------------
(***************************************************************************)
(* The automation side of the desktop application: automation.Service      *)
(* (StartTestRun, StopTestRun, onEvent, recovery), the pytestrunner.Manager *)
(* that owns the Python child process, the automation_runs table, and the   *)
(* application's Startup, Shutdown and crash.                              *)
(*                                                                         *)
(* A run is named by the id its row gets (AUTOINCREMENT).  Calls of        *)
(* StartTestRun run concurrently (one goroutine per Wails call), and are   *)
(* split wherever the code releases a lock or goes to the database.  Each  *)
(* child process has the goroutines consumeStdout (ReadLine, ApplyLine)    *)
(* and waitProcess (WaitReturns).                                          *)
(***************************************************************************)
EXTENDS Naturals, Sequences

CONSTANTS
    MaxRuns,        \* bound: rows ever inserted into automation_runs
    MaxChecked,     \* bound: StartTestRun calls between Active() and INSERT
    Keys,           \* run keys a caller may pass
    NoKey,          \* the empty run key, which the frontend always passes
    HarnessStatus   \* statuses run_finished carries (Runner._overall_status)

ASSUME BoundsAssumption == MaxRuns \in Nat \ {0} /\ MaxChecked \in Nat \ {0}
ASSUME KeysAssumption == NoKey \in Keys
ASSUME StatusAssumption ==
    HarnessStatus \subseteq {"FINISHED", "FAIL", "CLEANUP_FAILED", "CANCELLED"}

RunId == 1 .. MaxRuns
None == 0

VARIABLES
    app,        \* the application process: up, in Shutdown, or how it ended
    quit,       \* the row Shutdown has found and is about to stop or cancel
    status,     \* automation_runs.status, "ABSENT" before the INSERT
    key,        \* automation_runs.run_key
    nextId,     \* the next AUTOINCREMENT id
    born,       \* nextId when this application process started (history)
    recovered,  \* did the last Startup's recovery reach the table (history)
    unmarked,   \* rows whose UPDATE to RUNNING was refused (history)
    checked,    \* StartTestRun calls that saw Active() = nil, before INSERT
    call,       \* how far the StartTestRun call of a row has got
    stopping,   \* StopTestRun calls past runner.Stop, before their UPDATE
    active,     \* Manager.active
    callback,   \* the run whose closure is in Manager.onEvent
    proc,       \* the child process of a run, by its output while it lives
    pipe,       \* lines written and not yet taken by consumeStdout
    hand        \* the event consumeStdout is handling, with its target run

life    == <<app, quit>>
table   == <<status, key, nextId>>
history == <<born, recovered, unmarked>>
calls   == <<checked, call, stopping>>
manager == <<active, callback>>
child   == <<proc, pipe, hand>>
vars    == <<life, table, history, calls, manager, child>>

\* A line is named by the row status that EventProjection derives from it:
\* run_started is "RUNNING", run_finished is the status it carries.  Lines
\* that change no status (case, step, log, metric events) are left out here.
Line == {"RUNNING"} \cup HarnessStatus
NoLine == [line |-> "none", run |-> None]

RunStatus == {"ABSENT", "PENDING", "RUNNING", "ERROR", "CANCELLED",
              "INTERRUPTED", "FINISHED", "FAIL", "CLEANUP_FAILED"}

\* A live child has written nothing yet, run_started, or run_finished too.
Alive == {"silent", "started", "finished"}
ProcState == Alive \cup {"none", "dead", "reaped", "orphan"}

TypeOK ==
    /\ app \in {"up", "quitting", "leaving", "closed", "crashed"}
    /\ quit \in RunId \cup {None}
    /\ status \in [RunId -> RunStatus]
    /\ key \in [RunId -> Keys]
    /\ nextId \in 1 .. MaxRuns + 1
    /\ born \in 1 .. MaxRuns + 1
    /\ recovered \in BOOLEAN
    /\ unmarked \subseteq RunId
    /\ checked \in 0 .. MaxChecked
    /\ call \in [RunId -> {"none", "created", "marked", "failed"}]
    /\ stopping \subseteq RunId
    /\ active \in RunId \cup {None}
    /\ callback \in RunId \cup {None}
    /\ proc \in [RunId -> ProcState]
    /\ pipe \in [RunId -> Seq(Line)]
    /\ hand \in [RunId -> [line : Line, run : RunId] \cup {NoLine}]

Init ==
    /\ app = "up"
    /\ quit = None
    /\ status = [r \in RunId |-> "ABSENT"]
    /\ key = [r \in RunId |-> NoKey]
    /\ nextId = 1
    /\ born = 1
    /\ recovered = TRUE
    /\ unmarked = {}
    /\ checked = 0
    /\ call = [r \in RunId |-> "none"]
    /\ stopping = {}
    /\ active = None
    /\ callback = None
    /\ proc = [r \in RunId |-> "none"]
    /\ pipe = [r \in RunId |-> <<>>]
    /\ hand = [r \in RunId |-> NoLine]

Rows == {r \in RunId : status[r] # "ABSENT"}

\* The process lives, with its goroutines and the calls in flight.  Shutdown
\* takes no lock and waits for none of them.
Up == app \in {"up", "quitting", "leaving"}

\* UpdateAutomationRun on a row's status.  It may fail, and every caller drops
\* the error and goes on as if it had not.
Update(r, s) == status' \in {[status EXCEPT ![r] = s], status}

-----------------------------------------------------------------------------
(* StartTestRun *)

\* The Active() check at the top of StartTestRun.  Nothing is held after it:
\* Service.mu is never taken.
CheckActive ==
    /\ Up
    /\ active = None
    /\ checked < MaxChecked
    /\ checked' = checked + 1
    /\ UNCHANGED <<life, table, history, call, stopping, manager, child>>

\* CreateAutomationRun inserts a PENDING row.
CreateRun(k) ==
    /\ Up
    /\ checked > 0
    /\ \A r \in Rows : key[r] # k
    /\ nextId \in RunId
    /\ status' = [status EXCEPT ![nextId] = "PENDING"]
    /\ key' = [key EXCEPT ![nextId] = k]
    /\ call' = [call EXCEPT ![nextId] = "created"]
    /\ nextId' = nextId + 1
    /\ checked' = checked - 1
    /\ UNCHANGED <<life, history, stopping, manager, child>>

\* A step between Active() and the row fails and the call returns the error: a
\* request that does not validate, the run directory, the configuration file,
\* or the INSERT itself (run_key is UNIQUE).
CreateRefused ==
    /\ Up
    /\ checked > 0
    /\ checked' = checked - 1
    /\ UNCHANGED <<life, table, history, call, stopping, manager, child>>

\* The UPDATE to RUNNING that precedes runner.Start; refused, the row stays
\* as it is and the call goes on to Start all the same.
MarkRunning(r) ==
    /\ call[r] = "created"
    /\ \/ /\ status' = [status EXCEPT ![r] = "RUNNING"]
          /\ UNCHANGED unmarked
       \/ /\ unmarked' = unmarked \cup {r}
          /\ UNCHANGED status
    /\ call' = [call EXCEPT ![r] = "marked"]
    /\ UNCHANGED <<life, key, nextId, born, recovered, checked, stopping,
                   manager, child>>

\* Manager.Start under its lock finds another process.
StartRefused(r) ==
    /\ call[r] = "marked"
    /\ active # None
    /\ call' = [call EXCEPT ![r] = "failed"]
    /\ UNCHANGED <<life, table, history, checked, stopping, manager, child>>

\* The pipes or the spawn fail, after onEvent has been replaced.
SpawnFails(r) ==
    /\ call[r] = "marked"
    /\ active = None
    /\ callback' = r
    /\ call' = [call EXCEPT ![r] = "failed"]
    /\ UNCHANGED <<life, table, history, checked, stopping, active, child>>

\* Mutant: Manager.Start trusts the caller's Active() check.
SpawnUnchecked(r) ==
    /\ call[r] = "marked"
    /\ active' = r
    /\ callback' = r
    /\ proc' = [proc EXCEPT ![r] = "silent"]
    /\ call' = [call EXCEPT ![r] = "none"]
    /\ UNCHANGED <<life, table, history, checked, stopping, pipe, hand>>

\* Mutant: the closures are stored only after the spawn has been reported.
SpawnWithoutCallback(r) ==
    /\ call[r] = "marked"
    /\ active = None
    /\ active' = r
    /\ proc' = [proc EXCEPT ![r] = "silent"]
    /\ call' = [call EXCEPT ![r] = "none"]
    /\ UNCHANGED <<life, table, history, checked, stopping, callback, pipe, hand>>

\* Mutant: Start may return an error after the process is running.
SpawnThenError(r) ==
    /\ call[r] = "marked"
    /\ active = None
    /\ active' = r
    /\ callback' = r
    /\ proc' = [proc EXCEPT ![r] = "silent"]
    /\ call' = [call EXCEPT ![r] = "failed"]
    /\ UNCHANGED <<life, table, history, checked, stopping, pipe, hand>>

\* Manager.Start spawns the process; StartTestRun then stores the pid, a
\* column nothing reads, and returns.
SpawnRunner(r) ==
    /\ call[r] = "marked"
    /\ active = None
    /\ active' = r
    /\ callback' = r
    /\ proc' = [proc EXCEPT ![r] = "silent"]
    /\ call' = [call EXCEPT ![r] = "none"]
    /\ UNCHANGED <<life, table, history, checked, stopping, pipe, hand>>

\* The error path of StartTestRun.
RecordStartError(r) ==
    /\ call[r] = "failed"
    /\ Update(r, "ERROR")
    /\ call' = [call EXCEPT ![r] = "none"]
    /\ UNCHANGED <<life, key, nextId, history, checked, stopping, manager, child>>

-----------------------------------------------------------------------------
(* The child process and the goroutines that serve it *)

\* Runner.run writes run_started, then run_finished; between them are the
\* lines that change no status.
EmitLine(r) ==
    /\ \/ /\ proc[r] = "silent"
          /\ proc' = [proc EXCEPT ![r] = "started"]
          /\ pipe' = [pipe EXCEPT ![r] = Append(@, "RUNNING")]
       \/ /\ proc[r] = "started"
          /\ proc' = [proc EXCEPT ![r] = "finished"]
          /\ \E s \in HarnessStatus : pipe' = [pipe EXCEPT ![r] = Append(@, s)]
    /\ UNCHANGED <<life, table, history, calls, manager, hand>>

\* The process exits: done, or crashed wherever it was.
ProcessExits(r) ==
    /\ proc[r] \in Alive
    /\ proc' = [proc EXCEPT ![r] = "dead"]
    /\ UNCHANGED <<life, table, history, calls, manager, pipe, hand>>

\* consumeStdout takes the next line and calls whatever closure m.onEvent
\* holds now; onEvent files the event under that closure's run.
ReadLine(r) ==
    /\ pipe[r] # <<>>
    /\ hand[r] = NoLine
    /\ hand' = [hand EXCEPT ![r] = [line |-> Head(pipe[r]), run |-> callback]]
    /\ pipe' = [pipe EXCEPT ![r] = Tail(@)]
    /\ UNCHANGED <<life, table, history, calls, manager, proc>>

\* EventProjection's patch reaches the row through UpdateAutomationRun.
ApplyLine(r) ==
    /\ hand[r] # NoLine
    /\ Update(hand[r].run, hand[r].line)
    /\ hand' = [hand EXCEPT ![r] = NoLine]
    /\ UNCHANGED <<life, key, nextId, history, calls, manager, proc, pipe>>

\* Mutant: the slot is freed only when no line is left to read.
WaitReturnsDrained(r) ==
    /\ Up
    /\ proc[r] = "dead"
    /\ proc' = [proc EXCEPT ![r] = "reaped"]
    /\ active' = IF active = r /\ pipe[r] = <<>> THEN None ELSE active
    /\ UNCHANGED <<life, table, history, calls, callback, pipe, hand>>

\* cmd.Wait returns and closes the read end of the pipe: what the scanner has
\* not buffered yet is lost, so some prefix of the unread lines remains.
\* The manager's slot is free from here on; the row is left as it is.
WaitReturns(r) ==
    /\ Up
    /\ proc[r] = "dead"
    /\ proc' = [proc EXCEPT ![r] = "reaped"]
    /\ \E n \in 0 .. Len(pipe[r]) :
          pipe' = [pipe EXCEPT ![r] = SubSeq(@, 1, n)]
    /\ active' = IF active = r THEN None ELSE active
    /\ UNCHANGED <<life, table, history, calls, callback, hand>>

-----------------------------------------------------------------------------
(* StopTestRun *)

\* Mutant: Stop does not look at the key.
StopTargetAny(r) == active

\* Manager.Stop takes the active entry unless the row's key says otherwise;
\* an empty key is not compared.
StopTarget(r) ==
    IF active # None /\ (key[r] = NoKey \/ key[active] = key[r])
    THEN active ELSE None

\* cancel() and SIGKILL of the process group: the child gets no chance to
\* write or to clean up.
Kill(p) == [proc EXCEPT ![p] = IF @ \in Alive THEN "dead" ELSE @]

\* Mutant: Stop frees the slot itself instead of leaving it to waitProcess.
StopRunFreesSlot(r) ==
    /\ Up
    /\ r \in Rows
    /\ StopTarget(r) # None
    /\ proc' = Kill(StopTarget(r))
    /\ active' = None
    /\ stopping' = stopping \cup {r}
    /\ UNCHANGED <<life, table, history, checked, call, callback, pipe, hand>>

StopRun(r) ==
    /\ Up
    /\ r \in Rows
    /\ StopTarget(r) # None
    /\ proc' = Kill(StopTarget(r))
    /\ stopping' = stopping \cup {r}
    /\ UNCHANGED <<life, table, history, checked, call, manager, pipe, hand>>

RecordCancelled(r) ==
    /\ r \in stopping
    /\ Update(r, "CANCELLED")
    /\ stopping' = stopping \ {r}
    /\ UNCHANGED <<life, key, nextId, history, checked, call, manager, child>>

-----------------------------------------------------------------------------
(* Startup, Shutdown and crash of the application *)

\* What the end of the application process leaves of its goroutines and of
\* the children: a live child keeps running in its own process group.
EndOfProcess ==
    /\ quit' = None
    /\ checked' = 0
    /\ call' = [r \in RunId |-> "none"]
    /\ stopping' = {}
    /\ active' = None
    /\ callback' = None
    /\ proc' = [r \in RunId |-> CASE proc[r] \in Alive -> "orphan"
                                  [] proc[r] = "dead" -> "reaped"
                                  [] OTHER -> proc[r]]
    /\ pipe' = [r \in RunId |-> <<>>]
    /\ hand' = [r \in RunId |-> NoLine]
    /\ UNCHANGED <<table, history>>

Crash ==
    /\ Up
    /\ app' = "crashed"
    /\ EndOfProcess

\* GetActiveTestRun: the newest row that says RUNNING.
NewestRunning(r) ==
    /\ status[r] = "RUNNING"
    /\ \A s \in RunId : s > r => status[s] # "RUNNING"

\* Container.Shutdown looks for a row to stop.  There may be none, and a query
\* that fails is taken for none.
ShutdownLook ==
    /\ app = "up"
    /\ \/ /\ app' = "quitting"
          /\ \E r \in RunId : NewestRunning(r) /\ quit' = r
       \/ /\ app' = "leaving"
          /\ UNCHANGED quit
    /\ UNCHANGED <<table, history, calls, manager, child>>

\* Its StopTestRun reads the row again and calls Stop.  Either may fail, and
\* Shutdown drops the error.
ShutdownStop ==
    /\ app = "quitting"
    /\ app' = "leaving"
    /\ \/ /\ StopTarget(quit) # None
          /\ proc' = Kill(StopTarget(quit))
          /\ UNCHANGED quit
       \/ /\ quit' = None
          /\ UNCHANGED proc
    /\ UNCHANGED <<table, history, calls, manager, pipe, hand>>

\* The UPDATE at the end of that StopTestRun.
ShutdownCancel ==
    /\ app = "leaving"
    /\ quit # None
    /\ Update(quit, "CANCELLED")
    /\ quit' = None
    /\ UNCHANGED <<app, key, nextId, history, calls, manager, child>>

\* The mocks are stopped, the store is closed and the process ends.  What
\* other goroutines did since the look is not looked at again.
ShutdownEnd ==
    /\ app = "leaving"
    /\ quit = None
    /\ app' = "closed"
    /\ EndOfProcess

\* Mutant: only the row GetActiveTestRun would show is recovered.
StartupNewestOnly ==
    /\ ~Up
    /\ app' = "up"
    /\ status' = [r \in RunId |-> IF NewestRunning(r) THEN "INTERRUPTED"
                                  ELSE status[r]]
    /\ recovered' = TRUE
    /\ born' = nextId
    /\ UNCHANGED <<quit, key, nextId, unmarked, calls, manager, child>>

\* Container.Startup: MarkInterruptedRuns(0).  Its error is dropped, and a
\* store that refuses it leaves every row as the last life did.
Startup ==
    /\ ~Up
    /\ app' = "up"
    /\ \/ /\ status' = [r \in RunId |-> IF status[r] = "RUNNING"
                                        THEN "INTERRUPTED" ELSE status[r]]
          /\ recovered' = TRUE
       \/ /\ UNCHANGED status
          /\ recovered' = FALSE
    /\ born' = nextId
    /\ UNCHANGED <<quit, key, nextId, unmarked, calls, manager, child>>

\* A child that outlived the application ends on its own, or at its next
\* write, which finds the pipe broken.
OrphanExits(r) ==
    /\ proc[r] = "orphan"
    /\ proc' = [proc EXCEPT ![r] = "reaped"]
    /\ UNCHANGED <<life, table, history, calls, manager, pipe, hand>>

-----------------------------------------------------------------------------
Next ==
    \/ CheckActive
    \/ (\E k \in Keys : CreateRun(k)) \/ CreateRefused
    \/ \E r \in RunId :
          \/ MarkRunning(r) \/ StartRefused(r) \/ SpawnFails(r)
          \/ SpawnRunner(r) \/ RecordStartError(r)
          \/ EmitLine(r) \/ ProcessExits(r)
          \/ ReadLine(r) \/ ApplyLine(r) \/ WaitReturns(r)
          \/ StopRun(r) \/ RecordCancelled(r)
          \/ OrphanExits(r)
    \/ ShutdownLook \/ ShutdownStop \/ ShutdownCancel \/ ShutdownEnd
    \/ Crash \/ Startup

\* waitProcess is called on every child: once the child is dead, cmd.Wait
\* returns and the goroutine runs to its end.  Nothing else need happen: a
\* live child may never finish, and a call may hang in the database.
Fairness == \A r \in RunId : WF_vars(WaitReturns(r))

Spec == Init /\ [][Next]_vars
FairSpec == Spec /\ Fairness

-----------------------------------------------------------------------------
(* Properties *)

Serving == {r \in RunId : proc[r] \in Alive \cup {"dead"}}

\* manager.go promises one active run at a time.  StartTestRun checks Active()
\* long before Manager.Start, so calls overlap; still no two children of this
\* application process are unreaped together, and the one there is is the one
\* the manager would stop.
OneRunner == \A r \in Serving : active = r

\* m.onEvent is shared and overwritten by the next Start.  A line is filed
\* under another run only when it is left over from a child that was already
\* waited for: lines of a running child always reach their own row.
ForeignLinesAreLeftovers ==
    \A r \in RunId : hand[r] # NoLine /\ hand[r].run # r => proc[r] = "reaped"

\* After a recovery that reached the table, every RUNNING row was inserted by
\* this process: recovery missed none, and no late write of an earlier life or
\* line of an earlier child turns an old row RUNNING again.  A PENDING row, which
\* recovery passes over, has had a process behind it only when its UPDATE to
\* RUNNING was refused; otherwise its call is about to make that UPDATE, or a
\* crash came between the INSERT and it.
OpenRowsAccounted ==
    Up => \A r \in Rows :
              /\ status[r] = "RUNNING" => r >= born \/ ~recovered
              /\ status[r] = "PENDING" =>
                     \/ r \in unmarked
                     \/ proc[r] = "none" /\ (r >= born => call[r] = "created")

\* ERROR tells the user the runner could not be started.  No run that ever
\* had a process ends so, whatever arrives late.
ErrorMeansNeverRan == \A r \in RunId : status[r] = "ERROR" => proc[r] = "none"

\* r's row is the one a StopTestRun, the user's or Shutdown's, is stopping.
Stops(r) ==
    \/ r \in stopping' \ stopping
    \/ app = "quitting" /\ app' = "leaving" /\ quit = r

\* StopTestRun of a row that has a key never kills the child of another row:
\* the comparison in Manager.Stop is as good as the uniqueness of run_key.
StopHitsOwnRun ==
    [][\A r \in RunId : Stops(r) /\ key[r] # NoKey
          => \A p \in RunId : proc'[p] # proc[p] => p = r]_vars

\* A child that has died, by itself or by StopTestRun, frees the manager's
\* slot, so that another run can be started.
DeadRunnerFreesSlot ==
    \A r \in RunId : (active = r /\ proc[r] = "dead") ~> (active # r)

\* plan.md 6.3: "Wails 退出时主动停止任务并等待清理", quitting stops the run.  So
\* the row that Shutdown finds is one whose StopTestRun reaches the child there
\* is, as long as no UPDATE was refused.  GetActiveTestRun asks the table and not
\* the manager, so this fails when calls of StartTestRun overlap.
ShutdownStopsRunner ==
    app = "quitting" /\ unmarked = {} =>
        \A r \in RunId : proc[r] \in Alive => StopTarget(quit) = r
=============================================================================
