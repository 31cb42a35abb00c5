---------------------------- MODULE MockManager ----------------------------
(***************************************************************************)
(* One mock server as pyworker.MockManager keeps it: Start, Stop, and the   *)
(* two goroutines of each entry, watchProcess and waitReadyAsync.  The      *)
(* manager is per key and its keys do not meet, so one key is modelled.      *)
(*                                                                         *)
(* A call of Start is named by a number, which is also the name of its entry *)
(* and of the process it spawns; process 0 is a mock that an earlier         *)
(* application process left running.  Steps are split where the code lets    *)
(* go of MockManager.mu or of the entry's mutex.  entry.cmd is not kept: it  *)
(* becomes nil only after the process was killed or reaped, so the kill of   *)
(* nil is the kill of a dead process.                                       *)
(***************************************************************************)
EXTENDS Naturals

CONSTANTS
    MaxStarts,      \* bound: calls of Start
    MaxStops        \* bound: calls of Stop

ASSUME BoundsAssumption == MaxStarts \in Nat /\ MaxStops \in Nat

Starts == 1 .. MaxStarts
Stops  == 1 .. MaxStops
Procs  == 0 .. MaxStarts
Leftover == 0
None == 0       \* no entry

VARIABLES
    run,        \* MockManager.run[key]
    start,      \* how far a call of Start has got
    raced,      \* the calls whose look at run raced with another (history)
    status,     \* entry.Status
    stopping,   \* entries whose stopping flag is set
    probe,      \* how far an entry's waitReadyAsync has got
    proc,       \* the processes
    listening,  \* those that accept connections on the port
    stop,       \* how far a call of Stop has got
    target      \* the entry it is about

startVars == <<start, raced>>
entryVars == <<status, stopping, probe>>
procVars  == <<proc, listening>>
stopVars  == <<stop, target>>
vars      == <<run, startVars, entryVars, procVars, stopVars>>

TypeOK ==
    /\ run \in Starts \cup {None}
    /\ start \in [Starts -> {"idle", "checked", "free", "spawned", "stored", "refused"}]
    /\ raced \subseteq Starts
    /\ status \in [Starts -> {"none", "starting", "ready", "failed", "stopped"}]
    /\ stopping \subseteq Starts
    /\ probe \in [Starts -> {"none", "wait", "ok", "err", "kill", "killed", "over"}]
    /\ proc \in [Procs -> {"none", "alive", "dead", "reaped"}]
    /\ listening \subseteq Procs
    /\ stop \in [Stops -> {"idle", "read", "marked", "killed", "done"}]
    /\ target \in [Stops -> Starts \cup {None}]

Init ==
    /\ run = None
    /\ start = [c \in Starts |-> "idle"]
    /\ raced = {}
    /\ status = [e \in Starts |-> "none"]
    /\ stopping = {}
    /\ probe = [e \in Starts |-> "none"]
    /\ listening \in SUBSET {Leftover}
    /\ proc = [p \in Procs |-> IF p \in listening THEN "alive" ELSE "none"]
    /\ stop = [s \in Stops |-> "idle"]
    /\ target = [s \in Stops |-> None]

InFlight == {c \in Starts : start[c] \in {"checked", "free", "spawned"}}

Exit(p) ==
    /\ proc' = [proc EXCEPT ![p] = IF @ = "alive" THEN "dead" ELSE @]
    /\ listening' = listening \ {p}

-----------------------------------------------------------------------------
(* Start *)

\* The look at the entry reads its Status without the entry's mutex, so it
\* may race with the write of "ready" and see neither value.
Torn(e) == probe[e] = "ok"

\* Mutant: only a mock that is ready is in the way.
StartCheckReadyOnly(c) ==
    /\ start[c] = "idle"
    /\ ~(run # None /\ status[run] = "ready")
    /\ start' = [start EXCEPT ![c] = "checked"]
    /\ raced' = IF InFlight # {} THEN raced \cup InFlight \cup {c} ELSE raced
    /\ UNCHANGED <<run, entryVars, procVars, stopVars>>

StartCheck(c) ==
    /\ start[c] = "idle"
    /\ ~(run # None /\ status[run] \in {"ready", "starting"} /\ ~Torn(run))
    /\ start' = [start EXCEPT ![c] = "checked"]
    /\ raced' = IF InFlight # {} THEN raced \cup InFlight \cup {c}
                ELSE IF run # None /\ Torn(run) THEN raced \cup {run, c}
                ELSE raced
    /\ UNCHANGED <<run, entryVars, procVars, stopVars>>

\* IsPortFree: can a connection be made?
StartPort(c) ==
    /\ start[c] = "checked"
    /\ start' = [start EXCEPT ![c] = IF listening = {} THEN "free" ELSE "refused"]
    /\ UNCHANGED <<run, raced, entryVars, procVars, stopVars>>

\* Everything up to cmd.Start, any step of which may fail.
StartFails(c) ==
    /\ start[c] = "free"
    /\ start' = [start EXCEPT ![c] = "refused"]
    /\ UNCHANGED <<run, raced, entryVars, procVars, stopVars>>

StartSpawn(c) ==
    /\ start[c] = "free"
    /\ start' = [start EXCEPT ![c] = "spawned"]
    /\ proc' = [proc EXCEPT ![c] = "alive"]
    /\ UNCHANGED <<run, raced, entryVars, listening, stopVars>>

\* The entry replaces whatever the map held, and its goroutines start.
StartStore(c) ==
    /\ start[c] = "spawned"
    /\ start' = [start EXCEPT ![c] = "stored"]
    /\ run' = c
    /\ status' = [status EXCEPT ![c] = "starting"]
    /\ probe' = [probe EXCEPT ![c] = "wait"]
    /\ UNCHANGED <<raced, stopping, procVars, stopVars>>

-----------------------------------------------------------------------------
(* The mock processes *)

\* A second server can listen on the same port (SO_REUSEADDR).
Listens(p) ==
    /\ proc[p] = "alive"
    /\ p \notin listening
    /\ listening' = listening \cup {p}
    /\ UNCHANGED <<run, startVars, entryVars, proc, stopVars>>

Dies(p) ==
    /\ proc[p] = "alive"
    /\ Exit(p)
    /\ UNCHANGED <<run, startVars, entryVars, stopVars>>

\* Mutant: every exit is a crash.
WatchAnyExit(e) ==
    /\ start[e] = "stored"
    /\ proc[e] = "dead"
    /\ proc' = [proc EXCEPT ![e] = "reaped"]
    /\ status' = [status EXCEPT ![e] = "failed"]
    /\ UNCHANGED <<run, startVars, stopping, probe, listening, stopVars>>

\* watchProcess: cmd.Wait returns; an exit nobody asked for is a crash.  The
\* automatic restart is never switched on.
Watch(e) ==
    /\ start[e] = "stored"
    /\ proc[e] = "dead"
    /\ proc' = [proc EXCEPT ![e] = "reaped"]
    /\ status' = [status EXCEPT ![e] = IF e \in stopping THEN @ ELSE "failed"]
    /\ UNCHANGED <<run, startVars, stopping, probe, listening, stopVars>>

-----------------------------------------------------------------------------
(* waitReadyAsync *)

\* waitReady finds the port open and a UA server that answers: whichever
\* process that is.
ProbeOk(e) ==
    /\ probe[e] = "wait"
    /\ listening # {}
    /\ probe' = [probe EXCEPT ![e] = "ok"]
    /\ UNCHANGED <<run, startVars, status, stopping, procVars, stopVars>>

\* The port never opens in time, or Connect or Discover fail.
ProbeErr(e) ==
    /\ probe[e] = "wait"
    /\ probe' = [probe EXCEPT ![e] = "err"]
    /\ UNCHANGED <<run, startVars, status, stopping, procVars, stopVars>>

\* Success is recorded whatever has happened to the entry since.
ProbeReady(e) ==
    /\ probe[e] = "ok"
    /\ probe' = [probe EXCEPT ![e] = "over"]
    /\ status' = [status EXCEPT ![e] = "ready"]
    /\ UNCHANGED <<run, startVars, stopping, procVars, stopVars>>

\* Failure looks whether the mock is being stopped, and lets go of the mutex.
ProbeLook(e) ==
    /\ probe[e] = "err"
    /\ probe' = [probe EXCEPT ![e] = IF e \in stopping THEN "over" ELSE "kill"]
    /\ UNCHANGED <<run, startVars, status, stopping, procVars, stopVars>>

\* killEntry
ProbeKill(e) ==
    /\ probe[e] = "kill"
    /\ probe' = [probe EXCEPT ![e] = "killed"]
    /\ stopping' = stopping \cup {e}
    /\ Exit(e)
    /\ UNCHANGED <<run, startVars, status, stopVars>>

\* Mutant: the failed start is cleaned up but not recorded.
ProbeFailedSilently(e) ==
    /\ probe[e] = "killed"
    /\ probe' = [probe EXCEPT ![e] = "over"]
    /\ UNCHANGED <<run, startVars, status, stopping, procVars, stopVars>>

\* The process has been waited for, at most 5 s; the entry is "failed".
ProbeFailed(e) ==
    /\ probe[e] = "killed"
    /\ probe' = [probe EXCEPT ![e] = "over"]
    /\ status' = [status EXCEPT ![e] = "failed"]
    /\ UNCHANGED <<run, startVars, stopping, procVars, stopVars>>

-----------------------------------------------------------------------------
(* Stop *)

StopRead(s) ==
    /\ stop[s] = "idle"
    /\ run # None
    /\ stop' = [stop EXCEPT ![s] = "read"]
    /\ target' = [target EXCEPT ![s] = run]
    /\ UNCHANGED <<run, startVars, entryVars, procVars>>

\* No entry: KillPort kills what it finds on the port, and when it finds
\* nothing, or cannot, its answer is dropped.
StopPort(s) ==
    /\ stop[s] = "idle"
    /\ run = None
    /\ stop' = [stop EXCEPT ![s] = "done"]
    /\ \/ \E p \in listening : Exit(p)
       \/ UNCHANGED procVars
    /\ UNCHANGED <<run, startVars, entryVars, target>>

\* Mutant: the map's entry is taken again instead of the one read before.
StopMarkLate(s) ==
    /\ stop[s] = "read"
    /\ stop' = [stop EXCEPT ![s] = "stopping"]
    /\ stopping' = stopping \cup {run}
    /\ status' = [status EXCEPT ![run] = "stopped"]
    /\ UNCHANGED <<run, startVars, probe, procVars, target>>

StopMark(s) ==
    /\ stop[s] = "read"
    /\ stop' = [stop EXCEPT ![s] = "marked"]
    /\ stopping' = stopping \cup {target[s]}
    /\ status' = [status EXCEPT ![target[s]] = "stopped"]
    /\ UNCHANGED <<run, startVars, probe, procVars, target>>

StopKill(s) ==
    /\ stop[s] = "marked"
    /\ stop' = [stop EXCEPT ![s] = "killed"]
    /\ Exit(target[s])
    /\ UNCHANGED <<run, startVars, entryVars, target>>

\* The process has been waited for, at most 5 s.
StopEnd(s) ==
    /\ stop[s] = "killed"
    /\ stop' = [stop EXCEPT ![s] = "done"]
    /\ UNCHANGED <<run, startVars, entryVars, procVars, target>>

-----------------------------------------------------------------------------
Next ==
    \/ \E c \in Starts :
          \/ StartCheck(c) \/ StartPort(c) \/ StartFails(c)
          \/ StartSpawn(c) \/ StartStore(c)
    \/ \E p \in Procs : Listens(p) \/ Dies(p)
    \/ \E e \in Starts :
          \/ Watch(e)
          \/ ProbeOk(e) \/ ProbeErr(e) \/ ProbeReady(e)
          \/ ProbeLook(e) \/ ProbeKill(e) \/ ProbeFailed(e)
    \/ \E s \in Stops :
          StopRead(s) \/ StopPort(s) \/ StopMark(s) \/ StopKill(s) \/ StopEnd(s)

\* Goroutines run, and waitReady has a deadline.
Fairness ==
    /\ \A e \in Starts :
          /\ WF_vars(Watch(e))
          /\ WF_vars(ProbeOk(e) \/ ProbeErr(e))
          /\ WF_vars(ProbeReady(e) \/ ProbeLook(e))
          /\ WF_vars(ProbeKill(e) \/ ProbeFailed(e))
    /\ \A s \in Stops : WF_vars(StopMark(s) \/ StopKill(s) \/ StopEnd(s))

Spec == Init /\ [][Next]_vars
FairSpec == Spec /\ Fairness

-----------------------------------------------------------------------------
(* Properties *)

BeingKilled(e) == \E s \in Stops : target[s] = e /\ stop[s] = "marked"

\* The map is the only way to a process: one that lives on without being the
\* map's entry can be neither stopped nor seen.  That happens only when the
\* check at the top of Start raced, with another Start (check and store are
\* two critical sections) or with the write it reads unlocked; otherwise a
\* Stop is about to kill it.
UnmanagedOnlyByRace ==
    \A e \in Starts :
        start[e] = "stored" /\ proc[e] = "alive" /\ run # e
            => e \in raced \/ BeingKilled(e)

\* A mock does not stay "starting": whatever fails, the probe or the watcher
\* decides, and the next Start is not refused for it.
StartingResolves ==
    \A e \in Starts : status[e] = "starting" ~> status[e] # "starting"

\* Once its probe is over, a mock the user stopped is not reported as crashed,
\* nor as anything else.
StopIsFinal ==
    [][\A e \in Starts : status[e] = "stopped" /\ probe[e] = "over"
                            => status'[e] = "stopped"]_vars

\* manager.go: "崩溃监听:go cmd.Wait() 检测非主动退出 -> failed".  When the
\* goroutines of an entry are over, a process that went by itself is "failed".
CrashShown ==
    \A e \in Starts : proc[e] = "reaped" /\ probe[e] = "over" /\ e \notin stopping
                        => status[e] = "failed"
=============================================================================
