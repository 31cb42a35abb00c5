----------------------- MODULE AutomationRun_proofs -----------------------
(***************************************************************************)
(* Type correctness and the safety of AutomationRun, for any number of     *)
(* rows, of overlapping StartTestRun calls, of keys and of final statuses. *)
(***************************************************************************)
EXTENDS AutomationRun, SequenceTheorems, TLAPS

-----------------------------------------------------------------------------
(* The inductive invariant *)

\* The manager's slot: an active entry is an unreaped child whose closure is
\* the one in m.onEvent, and there is no other unreaped child.
SlotInv ==
    /\ active # None => proc[active] \in Alive \cup {"dead"} /\ callback = active
    /\ OneRunner

\* When the application is down nothing volatile is left.
DownInv ==
    ~Up =>
           /\ checked = 0 /\ stopping = {} /\ active = None /\ callback = None
           /\ \A r \in RunId : /\ call[r] = "none"
                               /\ pipe[r] = <<>>
                               /\ hand[r] = NoLine

\* Ids are handed out in order: a row exists exactly below nextId.
IdInv ==
    /\ born <= nextId
    /\ \A r \in RunId : /\ status[r] = "ABSENT" <=> r >= nextId
                        /\ proc[r] # "none" => r < nextId
    /\ \A r \in stopping : r < nextId
    /\ quit # None => quit < nextId /\ app \in {"quitting", "leaving"}
    /\ app = "quitting" => quit # None

\* Everything that may still write a row writes one of this application life.
OwnInv ==
    /\ callback # None => born <= callback /\ callback < nextId
    /\ \A r \in RunId :
          /\ call[r] # "none" => born <= r /\ r < nextId
          /\ hand[r] # NoLine => born <= hand[r].run /\ hand[r].run < nextId

\* Output exists only for a child the application has spawned, so a closure is
\* installed; a call still in StartTestRun has no child yet.
ChildInv ==
    \A r \in RunId :
        /\ pipe[r] # <<>> => /\ proc[r] \in Alive \cup {"dead", "reaped"}
                             /\ callback # None
        /\ proc[r] \in Alive \/ proc[r] = "dead" => callback # None
        /\ call[r] # "none" => proc[r] = "none"
        /\ call[r] \in {"created", "marked"} => status[r] # "ERROR"
        /\ status[r] = "PENDING" => r \in unmarked \/ proc[r] = "none"

IInv ==
    /\ TypeOK
    /\ SlotInv
    /\ DownInv
    /\ IdInv
    /\ OwnInv
    /\ ChildInv
    /\ ForeignLinesAreLeftovers
    /\ OpenRowsAccounted
    /\ ErrorMeansNeverRan

-----------------------------------------------------------------------------
(* Type correctness *)

\* The sequence operators the pipes are built from stay within Seq(S).
LEMMA PipeOps ==
    ASSUME NEW S, NEW q \in Seq(S)
    PROVE  /\ \A x \in S : Append(q, x) \in Seq(S)
           /\ q # <<>> => Head(q) \in S /\ Tail(q) \in Seq(S)
           /\ \A n \in 0 .. Len(q) : SubSeq(q, 1, n) \in Seq(S)
<1>1. \A n \in 0 .. Len(q) : SubSeq(q, 1, n) \in Seq(S)
  BY SubSeqProperties, SMT
<1>2. QED
  BY <1>1, AppendProperties, HeadTailProperties

LEMMA TypeInit == Init => TypeOK
  BY BoundsAssumption, KeysAssumption
     DEF Init, TypeOK, RunId, RunStatus, NoLine, None, Line, ProcState, Alive

\* The steps take IInv, not TypeOK alone: ReadLine files a line under the run
\* in callback, and that there is one is ChildInv.
LEMMA TypeStep == IInv /\ [Next]_vars => TypeOK'
<1> SUFFICES ASSUME IInv, [Next]_vars PROVE TypeOK'
  OBVIOUS
<1> USE DEF TypeOK, IInv, life, table, history, calls, manager, child, ProcState, Alive, Update
<1>1. CASE CheckActive
  BY <1>1, BoundsAssumption DEF CheckActive
<1>2. ASSUME NEW k \in Keys, CreateRun(k) PROVE TypeOK'
  BY <1>2, BoundsAssumption DEF CreateRun, RunId, RunStatus
<1>3. CASE CreateRefused
  BY <1>3, BoundsAssumption DEF CreateRefused
<1>4. ASSUME NEW r \in RunId, MarkRunning(r) PROVE TypeOK'
  BY <1>4 DEF MarkRunning, RunStatus
<1>5. ASSUME NEW r \in RunId, StartRefused(r) PROVE TypeOK'
  BY <1>5 DEF StartRefused
<1>6. ASSUME NEW r \in RunId, SpawnFails(r) PROVE TypeOK'
  BY <1>6 DEF SpawnFails
<1>7. ASSUME NEW r \in RunId, SpawnRunner(r) PROVE TypeOK'
  BY <1>7 DEF SpawnRunner
<1>8. ASSUME NEW r \in RunId, RecordStartError(r) PROVE TypeOK'
  BY <1>8 DEF RecordStartError, RunStatus
<1>9. ASSUME NEW r \in RunId, EmitLine(r) PROVE TypeOK'
  <2>1. \A x \in Line : Append(pipe[r], x) \in Seq(Line)
    BY PipeOps
  <2>2. \E x \in Line : pipe' = [pipe EXCEPT ![r] = Append(pipe[r], x)]
    BY <1>9 DEF EmitLine, Line
  <2>3. pipe' \in [RunId -> Seq(Line)]
    BY <2>1, <2>2
  <2>4. proc' \in [RunId -> ProcState]
    BY <1>9 DEF EmitLine
  <2>5. QED
    BY <1>9, <2>3, <2>4 DEF EmitLine
<1>10. ASSUME NEW r \in RunId, ProcessExits(r) PROVE TypeOK'
  BY <1>10 DEF ProcessExits
<1>11. ASSUME NEW r \in RunId, ReadLine(r) PROVE TypeOK'
  <2>1. Head(pipe[r]) \in Line /\ Tail(pipe[r]) \in Seq(Line)
    BY <1>11, PipeOps DEF ReadLine
  <2>2. callback \in RunId
    BY <1>11 DEF ReadLine, ChildInv
  <2>3. QED
    BY <1>11, <2>1, <2>2 DEF ReadLine
<1>12. ASSUME NEW r \in RunId, ApplyLine(r) PROVE TypeOK'
  <2>1. hand[r] \in [line : Line, run : RunId]
    BY <1>12 DEF ApplyLine
  <2>2. hand[r].line \in RunStatus
    BY <2>1, StatusAssumption DEF Line, RunStatus
  <2>3. QED
    BY <1>12, <2>1, <2>2 DEF ApplyLine
<1>13. ASSUME NEW r \in RunId, WaitReturns(r) PROVE TypeOK'
  <2>1. \A n \in 0 .. Len(pipe[r]) : SubSeq(pipe[r], 1, n) \in Seq(Line)
    BY PipeOps
  <2>2. pipe' \in [RunId -> Seq(Line)]
    BY <1>13, <2>1 DEF WaitReturns
  <2>3. QED
    BY <1>13, <2>2 DEF WaitReturns, None
<1>14. ASSUME NEW r \in RunId, StopRun(r) PROVE TypeOK'
  BY <1>14 DEF StopRun, StopTarget, Kill
<1>15. ASSUME NEW r \in RunId, RecordCancelled(r) PROVE TypeOK'
  BY <1>15 DEF RecordCancelled, RunStatus
<1>16. ASSUME NEW r \in RunId, OrphanExits(r) PROVE TypeOK'
  BY <1>16 DEF OrphanExits
<1>17. ASSUME EndOfProcess, app' \in {"closed", "crashed"} PROVE TypeOK'
  <2>1. proc' \in [RunId -> ProcState]
    BY <1>17 DEF EndOfProcess
  <2>2. pipe' \in [RunId -> Seq(Line)]
    BY <1>17 DEF EndOfProcess
  <2>3. checked' \in 0 .. MaxChecked
    BY <1>17, BoundsAssumption DEF EndOfProcess
  <2>4. QED
    BY <1>17, <2>1, <2>2, <2>3 DEF EndOfProcess
<1>18. CASE Crash \/ ShutdownEnd
  BY <1>17, <1>18 DEF Crash, ShutdownEnd
<1>19. CASE ShutdownLook \/ ShutdownStop \/ ShutdownCancel
  <2>1. CASE ShutdownLook
    BY <2>1 DEF ShutdownLook
  <2>2. CASE ShutdownStop
    BY <2>2 DEF ShutdownStop, StopTarget, Kill
  <2>3. CASE ShutdownCancel
    BY <2>3 DEF ShutdownCancel, RunStatus
  <2>4. QED
    BY <1>19, <2>1, <2>2, <2>3
<1>20. CASE Startup
  BY <1>20 DEF Startup, RunStatus
<1>21. CASE UNCHANGED vars
  BY <1>21 DEF vars
<1>22. QED
  BY <1>1, <1>2, <1>3, <1>4, <1>5, <1>6, <1>7, <1>8, <1>9, <1>10, <1>11, <1>12,
     <1>13, <1>14, <1>15, <1>16, <1>18, <1>19, <1>20, <1>21 DEF Next

-----------------------------------------------------------------------------
(* The inductive step *)

\* What TypeStep leaves to prove.
Safe ==
    /\ SlotInv
    /\ DownInv
    /\ IdInv
    /\ OwnInv
    /\ ChildInv
    /\ ForeignLinesAreLeftovers
    /\ OpenRowsAccounted
    /\ ErrorMeansNeverRan

LEMMA SafeInit == Init => Safe
  BY BoundsAssumption
     DEF Init, Safe, SlotInv, DownInv, IdInv, OwnInv, ChildInv, OneRunner, Serving, Rows,
         ForeignLinesAreLeftovers, OpenRowsAccounted, ErrorMeansNeverRan, RunId, None, Up, Alive

LEMMA SafeStep == TypeOK /\ TypeOK' /\ Safe /\ [Next]_vars => Safe'
<1> SUFFICES ASSUME TypeOK, TypeOK', Safe, [Next]_vars PROVE Safe'
  OBVIOUS
<1> USE DEF life, table, history, calls, manager, child, Up, Alive, ProcState, Update, Safe, TypeOK, SlotInv, DownInv, IdInv, OwnInv, ChildInv,
            OneRunner, Serving, Rows, ForeignLinesAreLeftovers, OpenRowsAccounted, ErrorMeansNeverRan, RunId, None
<1>1. CASE CheckActive
  BY <1>1 DEF CheckActive
<1>2. ASSUME NEW k \in Keys, CreateRun(k) PROVE Safe'
  BY <1>2 DEF CreateRun
<1>3. CASE CreateRefused
  BY <1>3 DEF CreateRefused
<1>4. ASSUME NEW r \in RunId, MarkRunning(r) PROVE Safe'
  BY <1>4 DEF MarkRunning
<1>5. ASSUME NEW r \in RunId, StartRefused(r) PROVE Safe'
  BY <1>5 DEF StartRefused
<1>6. ASSUME NEW r \in RunId, SpawnFails(r) PROVE Safe'
  BY <1>6 DEF SpawnFails
<1>7. ASSUME NEW r \in RunId, SpawnRunner(r) PROVE Safe'
  BY <1>7 DEF SpawnRunner
<1>8. ASSUME NEW r \in RunId, RecordStartError(r) PROVE Safe'
  BY <1>8 DEF RecordStartError
<1>9. ASSUME NEW r \in RunId, EmitLine(r) PROVE Safe'
  BY <1>9 DEF EmitLine
<1>10. ASSUME NEW r \in RunId, ProcessExits(r) PROVE Safe'
  BY <1>10 DEF ProcessExits
<1>11. ASSUME NEW r \in RunId, ReadLine(r) PROVE Safe'
  BY <1>11 DEF ReadLine
<1>12. ASSUME NEW r \in RunId, ApplyLine(r) PROVE Safe'
  <2>1. hand[r] \in [line : Line, run : RunId]
    BY <1>12 DEF ApplyLine
  <2>2. hand[r].line \notin {"ABSENT", "ERROR", "PENDING"}
    BY <2>1, StatusAssumption DEF Line
  <2>3. /\ hand[r].run \in RunId
        /\ born <= hand[r].run /\ hand[r].run < nextId
    BY <1>12, <2>1 DEF ApplyLine
  <2>4. status' \in {[status EXCEPT ![hand[r].run] = hand[r].line], status}
    BY <1>12 DEF ApplyLine
  <2>5. IdInv' /\ OpenRowsAccounted' /\ ErrorMeansNeverRan'
    BY <1>12, <2>2, <2>3, <2>4 DEF ApplyLine
  <2>6. ChildInv'
    BY <1>12, <2>2, <2>3, <2>4 DEF ApplyLine
  <2>7. QED
    BY <1>12, <2>5, <2>6 DEF ApplyLine
<1>13. ASSUME NEW r \in RunId, WaitReturns(r) PROVE Safe'
  BY <1>13 DEF WaitReturns
<1>14. ASSUME NEW r \in RunId, StopRun(r) PROVE Safe'
  <2>1. StopTarget(r) = active /\ active \in RunId
    BY <1>14 DEF StopRun, StopTarget
  <2>2. proc[active] \in Alive \cup {"dead"}
    BY <2>1
  <2>3. proc' = [proc EXCEPT ![active] = "dead"]
    BY <1>14, <2>1, <2>2 DEF StopRun, Kill
  <2>4. QED
    BY <1>14, <2>1, <2>2, <2>3 DEF StopRun
<1>15. ASSUME NEW r \in RunId, RecordCancelled(r) PROVE Safe'
  BY <1>15 DEF RecordCancelled
<1>16. ASSUME NEW r \in RunId, OrphanExits(r) PROVE Safe'
  BY <1>16 DEF OrphanExits
<1>17. CASE Crash
  BY <1>17 DEF Crash, EndOfProcess
<1>18. CASE ShutdownLook \/ ShutdownStop \/ ShutdownCancel \/ ShutdownEnd
  <2>1. CASE ShutdownLook
    BY <2>1 DEF ShutdownLook, NewestRunning
  <2>2. CASE ShutdownStop
    <3>1. proc' = proc \/ (active \in RunId /\ proc' = [proc EXCEPT ![active] = "dead"])
      BY <2>2 DEF ShutdownStop, StopTarget, Kill
    <3>2. QED
      BY <2>2, <3>1 DEF ShutdownStop
  <2>3. CASE ShutdownCancel
    BY <2>3 DEF ShutdownCancel
  <2>4. CASE ShutdownEnd
    BY <2>4 DEF ShutdownEnd, EndOfProcess
  <2>5. QED
    BY <1>18, <2>1, <2>2, <2>3, <2>4
<1>19. CASE Startup
  BY <1>19 DEF Startup
<1>20. CASE UNCHANGED vars
  BY <1>20 DEF vars
<1>21. QED
  BY <1>1, <1>2, <1>3, <1>4, <1>5, <1>6, <1>7, <1>8, <1>9, <1>10, <1>11, <1>12, <1>13, <1>14, <1>15, <1>16, <1>17, <1>18, <1>19, <1>20 DEF Next

LEMMA Invariance == Spec => []IInv
<1>1. Init => IInv
  BY TypeInit, SafeInit DEF IInv, Safe
<1>2. IInv /\ [Next]_vars => IInv'
  BY TypeStep, SafeStep DEF IInv, Safe
<1>3. QED
  BY <1>1, <1>2, PTL DEF Spec

-----------------------------------------------------------------------------
(* The properties the run checks, for every value of the constants *)

\* The state of service, manager, table and children stays within its types:
\* in particular no event is ever applied without a run to apply it to.
THEOREM TypeCorrect == Spec => []TypeOK
<1>1. IInv => TypeOK
  BY DEF IInv
<1>2. QED
  BY <1>1, Invariance, PTL

\* Manager.Start and waitProcess keep the promise of manager.go, one active
\* run at a time, however StartTestRun calls overlap.
THEOREM OneRunnerHolds == Spec => []OneRunner
<1>1. IInv => OneRunner
  BY DEF IInv, SlotInv
<1>2. QED
  BY <1>1, Invariance, PTL

\* The closure in m.onEvent is the running child's own; only what a reaped
\* child left in the scanner can be filed under another run.
THEOREM ForeignLinesHold == Spec => []ForeignLinesAreLeftovers
<1>1. IInv => ForeignLinesAreLeftovers
  BY DEF IInv
<1>2. QED
  BY <1>1, Invariance, PTL

\* When its UPDATE succeeds, MarkInterruptedRuns leaves no RUNNING row of an
\* earlier application life, and none comes back; what it passes over, the
\* PENDING rows, never ran unless their own UPDATE to RUNNING was refused.
THEOREM RecoveryComplete == Spec => []OpenRowsAccounted
<1>1. IInv => OpenRowsAccounted
  BY DEF IInv
<1>2. QED
  BY <1>1, Invariance, PTL

\* A run reported as one that could not be started never had a process.
THEOREM ErrorHolds == Spec => []ErrorMeansNeverRan
<1>1. IInv => ErrorMeansNeverRan
  BY DEF IInv
<1>2. QED
  BY <1>1, Invariance, PTL

\* The UNIQUE constraint on run_key.
KeysUnique == \A r, s \in Rows : key[r] = key[s] => r = s

LEMMA KeysUniqueHolds == Spec => []KeysUnique
<1>1. Init => KeysUnique
  BY DEF Init, KeysUnique, Rows
<1>2. IInv /\ KeysUnique /\ [Next]_vars => KeysUnique'
  <2> SUFFICES ASSUME IInv, KeysUnique, [Next]_vars PROVE KeysUnique'
    OBVIOUS
  <2>1. ASSUME NEW k \in Keys, CreateRun(k) PROVE KeysUnique'
    BY <2>1 DEF CreateRun, KeysUnique, Rows, IInv, TypeOK, RunId
  <2>2. ASSUME key' = key,
               \A r \in RunId : status'[r] # "ABSENT" => status[r] # "ABSENT"
        PROVE  KeysUnique'
    BY <2>2 DEF KeysUnique, Rows
  <2>3. ASSUME NEW r \in RunId, ApplyLine(r) PROVE KeysUnique'
    <3>1. hand[r].run \in RunId /\ born <= hand[r].run /\ hand[r].run < nextId
      BY <2>3 DEF ApplyLine, IInv, TypeOK, OwnInv
    <3>2. status[hand[r].run] # "ABSENT"
      BY <3>1 DEF IInv, IdInv, TypeOK, RunId
    <3>3. QED
      BY <2>2, <2>3, <3>1, <3>2 DEF ApplyLine, IInv, TypeOK, Update
  <2>4. ASSUME NEW r \in RunId, MarkRunning(r) \/ RecordStartError(r) PROVE KeysUnique'
    <3>1. status[r] # "ABSENT"
      BY <2>4 DEF MarkRunning, RecordStartError, IInv, TypeOK, OwnInv, IdInv, RunId
    <3>2. QED
      BY <2>2, <2>4, <3>1 DEF MarkRunning, RecordStartError, IInv, TypeOK, Update
  <2>5. ASSUME NEW r \in RunId, RecordCancelled(r) PROVE KeysUnique'
    <3>1. status[r] # "ABSENT"
      BY <2>5 DEF RecordCancelled, IInv, TypeOK, IdInv, RunId
    <3>2. QED
      BY <2>2, <2>5, <3>1 DEF RecordCancelled, IInv, TypeOK, Update
  <2>6. CASE Startup \/ ShutdownCancel
    <3>1. CASE Startup
      BY <2>2, <3>1 DEF Startup, IInv, TypeOK
    <3>2. CASE ShutdownCancel
      <4>1. quit \in RunId /\ status[quit] # "ABSENT"
        BY <3>2 DEF ShutdownCancel, IInv, TypeOK, IdInv, RunId
      <4>2. QED
        BY <2>2, <3>2, <4>1 DEF ShutdownCancel, IInv, TypeOK, Update
    <3>3. QED
      BY <2>6, <3>1, <3>2
  <2>7. CASE UNCHANGED <<key, status>>
    BY <2>2, <2>7
  <2>8. QED
    BY <2>1, <2>3, <2>4, <2>5, <2>6, <2>7
       DEF Next, vars, table, CheckActive, CreateRefused, StartRefused, SpawnFails, SpawnRunner,
           EmitLine, ProcessExits, ReadLine, WaitReturns, StopRun, OrphanExits,
           ShutdownLook, ShutdownStop, ShutdownEnd, Crash, EndOfProcess
<1>3. QED
  BY <1>1, <1>2, Invariance, PTL DEF Spec

\* StopTestRun of a row with a key, the user's or the one Shutdown makes,
\* reaches no child but that row's.
THEOREM StopIsAimed == Spec => StopHitsOwnRun
<1>1. ASSUME IInv, KeysUnique, Next,
             NEW r \in RunId, Stops(r), key[r] # NoKey,
             NEW p \in RunId, proc'[p] # proc[p]
      PROVE  p = r
  <2> DEFINE Hit == /\ StopTarget(r) # None /\ proc' = Kill(StopTarget(r))
                    /\ r \in Rows
  <2>1. ASSUME r \in stopping' \ stopping PROVE Hit
    <3>1. StopRun(r)
      BY <1>1, <2>1 DEF Next, life, table, history, calls, manager, child, CheckActive,
           CreateRun, CreateRefused, MarkRunning, StartRefused, SpawnFails, SpawnRunner,
           RecordStartError, EmitLine, ProcessExits, ReadLine, ApplyLine, WaitReturns,
           RecordCancelled, OrphanExits, Crash, ShutdownLook, ShutdownStop, ShutdownCancel,
           ShutdownEnd, Startup, StopRun, EndOfProcess
    <3>2. QED
      BY <3>1 DEF StopRun
  <2>2. ASSUME app = "quitting", app' = "leaving", quit = r PROVE Hit
    <3>1. ShutdownStop
      BY <1>1, <2>2 DEF Next, life, CheckActive, CreateRun, CreateRefused, MarkRunning,
           StartRefused, SpawnFails, SpawnRunner, RecordStartError, EmitLine, ProcessExits,
           ReadLine, ApplyLine, WaitReturns, StopRun, RecordCancelled, OrphanExits, Crash,
           ShutdownLook, ShutdownCancel, ShutdownEnd, Startup
    <3>2. StopTarget(r) # None /\ proc' = Kill(StopTarget(r))
      BY <1>1, <2>2, <3>1 DEF ShutdownStop
    <3>3. r \in Rows
      BY <2>2 , <1>1 DEF IInv, IdInv, TypeOK, Rows, RunId, None
    <3>4. QED
      BY <3>2, <3>3
  <2>3. Hit
    BY <1>1, <2>1, <2>2 DEF Stops
  <2>4. active \in RunId /\ key[active] = key[r] /\ StopTarget(r) = active
    BY <1>1, <2>3 DEF StopTarget, IInv, TypeOK
  <2>5. active \in Rows
    BY <1>1, <2>4 DEF Rows, IInv, SlotInv, IdInv, TypeOK, RunId, None, Alive
  <2>6. active = r
    BY <1>1, <2>3, <2>4, <2>5 DEF KeysUnique
  <2>7. QED
    BY <1>1, <2>3, <2>4, <2>6 DEF Kill, IInv, TypeOK
<1>2. IInv /\ KeysUnique /\ [Next]_vars =>
        [\A r \in RunId : Stops(r) /\ key[r] # NoKey
            => \A p \in RunId : proc'[p] # proc[p] => p = r]_vars
  BY <1>1
<1>3. QED
  BY <1>2, Invariance, KeysUniqueHolds, PTL DEF Spec, StopHitsOwnRun

\* What a quit promises, given that it may leave a child running
\* (ShutdownStopsRunner fails).  A Stop that Shutdown has got accepted leaves
\* no live child in the application, so that a child that survives such a quit
\* was spawned after it, by a StartTestRun still in flight.  A Stop that is not
\* accepted (no child, another key, a row that cannot be read) touches none.
QuitStopEmptiesTheSlot ==
    [][app = "quitting" /\ app' = "leaving" =>
          IF quit' # None THEN \A r \in RunId : proc'[r] \notin Alive
                          ELSE proc' = proc]_vars

\* Shutdown stops one entry; that there is no other child is OneRunner.
THEOREM QuitStopsEveryChild == Spec => QuitStopEmptiesTheSlot
<1>1. ASSUME IInv, Next, app = "quitting", app' = "leaving"
      PROVE  IF quit' # None THEN \A r \in RunId : proc'[r] \notin Alive
                             ELSE proc' = proc
  <2>1. ShutdownStop
    BY <1>1 DEF Next, life, CheckActive, CreateRun, CreateRefused, MarkRunning,
           StartRefused, SpawnFails, SpawnRunner, RecordStartError, EmitLine, ProcessExits,
           ReadLine, ApplyLine, WaitReturns, StopRun, RecordCancelled, OrphanExits, Crash,
           ShutdownLook, ShutdownCancel, ShutdownEnd, Startup
  <2>2. CASE StopTarget(quit) # None /\ proc' = Kill(StopTarget(quit)) /\ UNCHANGED quit
    <3>1. StopTarget(quit) = active /\ active \in RunId
      BY <1>1, <2>2 DEF StopTarget, IInv, TypeOK
    <3>2. \A r \in RunId : r # active => proc[r] \notin Alive
      BY <1>1 DEF IInv, SlotInv, OneRunner, Serving
    <3>3. quit' # None
      BY <1>1, <2>2 DEF IInv, IdInv
    <3>4. \A r \in RunId : proc'[r] \notin Alive
      BY <1>1, <2>2, <3>1, <3>2 DEF Kill, IInv, TypeOK, Alive
    <3> QED
      BY <3>3, <3>4
  <2>3. CASE quit' = None /\ UNCHANGED proc
    BY <2>3
  <2> QED
    BY <2>1, <2>2, <2>3 DEF ShutdownStop
<1>2. IInv /\ [Next]_vars =>
        [app = "quitting" /\ app' = "leaving" =>
            IF quit' # None THEN \A r \in RunId : proc'[r] \notin Alive
                            ELSE proc' = proc]_vars
  BY <1>1
<1>3. QED
  BY <1>2, Invariance, PTL DEF Spec, QuitStopEmptiesTheSlot
=============================================================================
