------------------------ MODULE MockManager_proofs ------------------------
(***************************************************************************)
(* Type correctness and the safety of MockManager, for any number of calls *)
(* of Start and Stop.                                                      *)
(***************************************************************************)
EXTENDS MockManager, TLAPS

-----------------------------------------------------------------------------
(* The inductive invariant *)

\* An entry, its process and its goroutines come into being in order.
BirthInv ==
    /\ \A e \in Starts :
          /\ probe[e] # "none" <=> start[e] = "stored"
          /\ start[e] # "stored" => status[e] = "none" /\ e \notin stopping
          /\ start[e] = "stored" => status[e] # "none"
    /\ run # None => start[run] = "stored"
    /\ \A s \in Stops : stop[s] \in {"read", "marked", "killed"}
                           => target[s] \in Starts /\ start[target[s]] = "stored"

\* What a status says of the process: "failed" is written after its end, and
\* "stopped" by a Stop that goes on to kill it.
StatusInv ==
    \A e \in Starts :
        /\ probe[e] = "killed" => proc[e] # "alive"
        /\ status[e] = "failed" => proc[e] # "alive"
        /\ status[e] = "stopped" => /\ e \in stopping
                                    /\ proc[e] = "alive" => BeingKilled(e)

\* A call on its way to store an entry has raced with every other such call,
\* and has left a live process in the map only if that raced or is doomed.
FlightInv ==
    /\ \A c, d \in InFlight : c # d => c \in raced
    /\ InFlight # {} /\ run # None /\ proc[run] = "alive"
          => run \in raced \/ BeingKilled(run)

IInv ==
    /\ TypeOK
    /\ BirthInv
    /\ StatusInv
    /\ FlightInv
    /\ UnmanagedOnlyByRace
-----------------------------------------------------------------------------
(* Type correctness *)

LEMMA NoneIsNoStart == None \notin Starts /\ Starts \subseteq Procs
  BY BoundsAssumption DEF None, Starts, Procs

LEMMA TypeInit == Init => TypeOK
  BY NoneIsNoStart, BoundsAssumption DEF Init, TypeOK, Procs, Leftover, None

LEMMA TypeStep == IInv /\ [Next]_vars => TypeOK'
<1> SUFFICES ASSUME IInv, [Next]_vars PROVE TypeOK'
  OBVIOUS
<1> USE NoneIsNoStart DEF IInv, TypeOK, vars, startVars, entryVars, procVars, stopVars
<1>1. ASSUME NEW c \in Starts, StartCheck(c) PROVE TypeOK'
  BY <1>1 DEF StartCheck, InFlight
<1>2. ASSUME NEW c \in Starts, StartPort(c) PROVE TypeOK'
  BY <1>2 DEF StartPort
<1>3. ASSUME NEW c \in Starts, StartFails(c) PROVE TypeOK'
  BY <1>3 DEF StartFails
<1>4. ASSUME NEW c \in Starts, StartSpawn(c) PROVE TypeOK'
  BY <1>4 DEF StartSpawn
<1>5. ASSUME NEW c \in Starts, StartStore(c) PROVE TypeOK'
  BY <1>5 DEF StartStore
<1>6. ASSUME NEW p \in Procs, Listens(p) PROVE TypeOK'
  BY <1>6 DEF Listens
<1>7. ASSUME NEW p \in Procs, Dies(p) PROVE TypeOK'
  BY <1>7 DEF Dies, Exit
<1>8. ASSUME NEW e \in Starts, Watch(e) PROVE TypeOK'
  BY <1>8 DEF Watch
<1>9. ASSUME NEW e \in Starts, ProbeOk(e) PROVE TypeOK'
  BY <1>9 DEF ProbeOk
<1>10. ASSUME NEW e \in Starts, ProbeErr(e) PROVE TypeOK'
  BY <1>10 DEF ProbeErr
<1>11. ASSUME NEW e \in Starts, ProbeReady(e) PROVE TypeOK'
  BY <1>11 DEF ProbeReady
<1>12. ASSUME NEW e \in Starts, ProbeLook(e) PROVE TypeOK'
  BY <1>12 DEF ProbeLook
<1>13. ASSUME NEW e \in Starts, ProbeKill(e) PROVE TypeOK'
  BY <1>13 DEF ProbeKill, Exit
<1>14. ASSUME NEW e \in Starts, ProbeFailed(e) PROVE TypeOK'
  BY <1>14 DEF ProbeFailed
<1>15. ASSUME NEW s \in Stops, StopRead(s) PROVE TypeOK'
  BY <1>15 DEF StopRead
<1>16. ASSUME NEW s \in Stops, StopPort(s) PROVE TypeOK'
  BY <1>16 DEF StopPort, Exit
<1>17. ASSUME NEW s \in Stops, StopMark(s) PROVE TypeOK'
  BY <1>17 DEF StopMark, BirthInv
<1>18. ASSUME NEW s \in Stops, StopKill(s) PROVE TypeOK'
  BY <1>18 DEF StopKill, Exit
<1>19. ASSUME NEW s \in Stops, StopEnd(s) PROVE TypeOK'
  BY <1>19 DEF StopEnd
<1>20. CASE UNCHANGED vars
  BY <1>20
<1>21. QED
  BY <1>1, <1>2, <1>3, <1>4, <1>5, <1>6, <1>7, <1>8, <1>9, <1>10, <1>11, <1>12, <1>13, <1>14, <1>15, <1>16, <1>17, <1>18, <1>19, <1>20 DEF Next

-----------------------------------------------------------------------------
(* The four parts, each preserved by every step *)

LEMMA BirthStep == IInv /\ [Next]_vars => BirthInv'
<1> SUFFICES ASSUME IInv, [Next]_vars PROVE BirthInv'
  OBVIOUS
<1> USE NoneIsNoStart
    DEF IInv, BirthInv, TypeOK, vars, startVars, entryVars, procVars, stopVars
<1>1. ASSUME NEW c \in Starts, StartCheck(c) PROVE BirthInv'
  BY <1>1 DEF StartCheck
<1>2. ASSUME NEW c \in Starts, StartPort(c) PROVE BirthInv'
  BY <1>2 DEF StartPort
<1>3. ASSUME NEW c \in Starts, StartFails(c) PROVE BirthInv'
  BY <1>3 DEF StartFails
<1>4. ASSUME NEW c \in Starts, StartSpawn(c) PROVE BirthInv'
  BY <1>4 DEF StartSpawn
<1>5. ASSUME NEW c \in Starts, StartStore(c) PROVE BirthInv'
  BY <1>5 DEF StartStore
<1>6. ASSUME NEW p \in Procs, Listens(p) PROVE BirthInv'
  BY <1>6 DEF Listens
<1>7. ASSUME NEW p \in Procs, Dies(p) PROVE BirthInv'
  BY <1>7 DEF Dies, Exit
<1>8. ASSUME NEW e \in Starts, Watch(e) PROVE BirthInv'
  BY <1>8 DEF Watch
<1>9. ASSUME NEW e \in Starts, ProbeOk(e) PROVE BirthInv'
  BY <1>9 DEF ProbeOk
<1>10. ASSUME NEW e \in Starts, ProbeErr(e) PROVE BirthInv'
  BY <1>10 DEF ProbeErr
<1>11. ASSUME NEW e \in Starts, ProbeReady(e) PROVE BirthInv'
  BY <1>11 DEF ProbeReady
<1>12. ASSUME NEW e \in Starts, ProbeLook(e) PROVE BirthInv'
  BY <1>12 DEF ProbeLook
<1>13. ASSUME NEW e \in Starts, ProbeKill(e) PROVE BirthInv'
  BY <1>13 DEF ProbeKill, Exit
<1>14. ASSUME NEW e \in Starts, ProbeFailed(e) PROVE BirthInv'
  BY <1>14 DEF ProbeFailed
<1>15. ASSUME NEW s \in Stops, StopRead(s) PROVE BirthInv'
  BY <1>15 DEF StopRead
<1>16. ASSUME NEW s \in Stops, StopPort(s) PROVE BirthInv'
  BY <1>16 DEF StopPort, Exit
<1>17. ASSUME NEW s \in Stops, StopMark(s) PROVE BirthInv'
  BY <1>17 DEF StopMark
<1>18. ASSUME NEW s \in Stops, StopKill(s) PROVE BirthInv'
  BY <1>18 DEF StopKill, Exit
<1>19. ASSUME NEW s \in Stops, StopEnd(s) PROVE BirthInv'
  BY <1>19 DEF StopEnd
<1>20. CASE UNCHANGED vars
  BY <1>20
<1>21. QED
  BY <1>1, <1>2, <1>3, <1>4, <1>5, <1>6, <1>7, <1>8, <1>9, <1>10, <1>11, <1>12, <1>13, <1>14, <1>15, <1>16, <1>17, <1>18, <1>19, <1>20 DEF Next

\* What no step does to another entry: a process comes alive at its spawn only,
\* and the Stop that is about to kill one does not give up.
Frame(e) ==
    /\ proc'[e] = "alive" => proc[e] = "alive" \/ start'[e] = "spawned"
    /\ proc'[e] = "alive" /\ BeingKilled(e) => BeingKilled(e)'
    /\ raced \subseteq raced'

LEMMA FrameStep == IInv /\ [Next]_vars => \A e \in Starts : Frame(e)
<1> SUFFICES ASSUME IInv, [Next]_vars, NEW e0 \in Starts PROVE Frame(e0)
  OBVIOUS
<1> USE NoneIsNoStart
    DEF IInv, BirthInv, TypeOK, Frame, BeingKilled, vars, startVars, entryVars, procVars, stopVars
<1>1. ASSUME NEW c \in Starts, StartCheck(c) PROVE Frame(e0)
  BY <1>1 DEF StartCheck
<1>2. ASSUME NEW c \in Starts, StartPort(c) PROVE Frame(e0)
  BY <1>2 DEF StartPort
<1>3. ASSUME NEW c \in Starts, StartFails(c) PROVE Frame(e0)
  BY <1>3 DEF StartFails
<1>4. ASSUME NEW c \in Starts, StartSpawn(c) PROVE Frame(e0)
  BY <1>4 DEF StartSpawn
<1>5. ASSUME NEW c \in Starts, StartStore(c) PROVE Frame(e0)
  BY <1>5 DEF StartStore
<1>6. ASSUME NEW p \in Procs, Listens(p) PROVE Frame(e0)
  BY <1>6 DEF Listens
<1>7. ASSUME NEW p \in Procs, Dies(p) PROVE Frame(e0)
  BY <1>7 DEF Dies, Exit
<1>8. ASSUME NEW e \in Starts, Watch(e) PROVE Frame(e0)
  BY <1>8 DEF Watch
<1>9. ASSUME NEW e \in Starts, ProbeOk(e) PROVE Frame(e0)
  BY <1>9 DEF ProbeOk
<1>10. ASSUME NEW e \in Starts, ProbeErr(e) PROVE Frame(e0)
  BY <1>10 DEF ProbeErr
<1>11. ASSUME NEW e \in Starts, ProbeReady(e) PROVE Frame(e0)
  BY <1>11 DEF ProbeReady
<1>12. ASSUME NEW e \in Starts, ProbeLook(e) PROVE Frame(e0)
  BY <1>12 DEF ProbeLook
<1>13. ASSUME NEW e \in Starts, ProbeKill(e) PROVE Frame(e0)
  BY <1>13 DEF ProbeKill, Exit
<1>14. ASSUME NEW e \in Starts, ProbeFailed(e) PROVE Frame(e0)
  BY <1>14 DEF ProbeFailed
<1>15. ASSUME NEW s \in Stops, StopRead(s) PROVE Frame(e0)
  BY <1>15 DEF StopRead
<1>16. ASSUME NEW s \in Stops, StopPort(s) PROVE Frame(e0)
  BY <1>16 DEF StopPort, Exit
<1>17. ASSUME NEW s \in Stops, StopMark(s) PROVE Frame(e0)
  BY <1>17 DEF StopMark
<1>18. ASSUME NEW s \in Stops, StopKill(s) PROVE Frame(e0)
  BY <1>18 DEF StopKill, Exit
<1>19. ASSUME NEW s \in Stops, StopEnd(s) PROVE Frame(e0)
  BY <1>19 DEF StopEnd
<1>20. CASE UNCHANGED vars
  BY <1>20
<1>21. QED
  BY <1>1, <1>2, <1>3, <1>4, <1>5, <1>6, <1>7, <1>8, <1>9, <1>10, <1>11, <1>12, <1>13, <1>14, <1>15, <1>16, <1>17, <1>18, <1>19, <1>20 DEF Next

LEMMA StatusStep == IInv /\ [Next]_vars => StatusInv'
<1> SUFFICES ASSUME IInv, [Next]_vars PROVE StatusInv'
  OBVIOUS
<1>0. \A e \in Starts : Frame(e)
  BY FrameStep
<1> USE NoneIsNoStart, <1>0
    DEF IInv, BirthInv, StatusInv, Frame, TypeOK, vars, startVars, entryVars, procVars, stopVars
<1>1. ASSUME NEW c \in Starts, StartCheck(c) PROVE StatusInv'
  BY <1>1 DEF StartCheck
<1>2. ASSUME NEW c \in Starts, StartPort(c) PROVE StatusInv'
  BY <1>2 DEF StartPort
<1>3. ASSUME NEW c \in Starts, StartFails(c) PROVE StatusInv'
  BY <1>3 DEF StartFails
<1>4. ASSUME NEW c \in Starts, StartSpawn(c) PROVE StatusInv'
  BY <1>4 DEF StartSpawn
<1>5. ASSUME NEW c \in Starts, StartStore(c) PROVE StatusInv'
  BY <1>5 DEF StartStore
<1>6. ASSUME NEW p \in Procs, Listens(p) PROVE StatusInv'
  BY <1>6 DEF Listens
<1>7. ASSUME NEW p \in Procs, Dies(p) PROVE StatusInv'
  BY <1>7 DEF Dies, Exit
<1>8. ASSUME NEW e \in Starts, Watch(e) PROVE StatusInv'
  BY <1>8 DEF Watch
<1>9. ASSUME NEW e \in Starts, ProbeOk(e) PROVE StatusInv'
  BY <1>9 DEF ProbeOk
<1>10. ASSUME NEW e \in Starts, ProbeErr(e) PROVE StatusInv'
  BY <1>10 DEF ProbeErr
<1>11. ASSUME NEW e \in Starts, ProbeReady(e) PROVE StatusInv'
  BY <1>11 DEF ProbeReady
<1>12. ASSUME NEW e \in Starts, ProbeLook(e) PROVE StatusInv'
  BY <1>12 DEF ProbeLook
<1>13. ASSUME NEW e \in Starts, ProbeKill(e) PROVE StatusInv'
  BY <1>13 DEF ProbeKill, Exit
<1>14. ASSUME NEW e \in Starts, ProbeFailed(e) PROVE StatusInv'
  BY <1>14 DEF ProbeFailed
<1>15. ASSUME NEW s \in Stops, StopRead(s) PROVE StatusInv'
  BY <1>15 DEF StopRead
<1>16. ASSUME NEW s \in Stops, StopPort(s) PROVE StatusInv'
  BY <1>16 DEF StopPort, Exit
<1>17. ASSUME NEW s \in Stops, StopMark(s) PROVE StatusInv'
  <2>1. BeingKilled(target[s])'
    BY <1>17 DEF StopMark, BeingKilled
  <2>2. QED
    BY <1>17, <2>1 DEF StopMark
<1>18. ASSUME NEW s \in Stops, StopKill(s) PROVE StatusInv'
  BY <1>18 DEF StopKill, Exit
<1>19. ASSUME NEW s \in Stops, StopEnd(s) PROVE StatusInv'
  BY <1>19 DEF StopEnd
<1>20. CASE UNCHANGED vars
  BY <1>20
<1>21. QED
  BY <1>1, <1>2, <1>3, <1>4, <1>5, <1>6, <1>7, <1>8, <1>9, <1>10, <1>11, <1>12, <1>13, <1>14, <1>15, <1>16, <1>17, <1>18, <1>19, <1>20 DEF Next

\* Steps of the probes, the watchers, the processes and Stop touch neither the
\* map nor a call of Start: the two properties of reachability survive.
LEMMA MapUntouched ==
    ASSUME IInv, UNCHANGED <<run, startVars>>, \A e \in Starts : Frame(e)
    PROVE  FlightInv' /\ UnmanagedOnlyByRace'
<1> USE DEF IInv, TypeOK, BirthInv, startVars, Frame
<1>1. FlightInv'
  BY NoneIsNoStart DEF FlightInv, InFlight
<1>2. UnmanagedOnlyByRace'
  BY NoneIsNoStart DEF UnmanagedOnlyByRace
<1>3. QED
  BY <1>1, <1>2

\* A call passes the check with a live process in the map only if the read of
\* its status raced or if a Stop is about to kill it.
LEMMA CheckedMap ==
    ASSUME IInv, NEW c \in Starts, StartCheck(c), run # None, proc[run] = "alive"
    PROVE  run \in raced' \/ BeingKilled(run)
<1> USE DEF IInv, TypeOK, StartCheck
<1>1. CASE InFlight # {}
  BY <1>1 DEF FlightInv
<1>2. CASE InFlight = {} /\ Torn(run)
  BY <1>2
<1>3. CASE ~Torn(run)
  <2>1. status[run] \in {"failed", "stopped"}
    BY <1>3 DEF BirthInv
  <2>2. QED
    BY <2>1 DEF StatusInv
<1>4. QED
  BY <1>1, <1>2, <1>3

LEMMA ReachStep == IInv /\ [Next]_vars => FlightInv' /\ UnmanagedOnlyByRace'
<1> SUFFICES ASSUME IInv, [Next]_vars PROVE FlightInv' /\ UnmanagedOnlyByRace'
  OBVIOUS
<1>0. \A e \in Starts : Frame(e)
  BY FrameStep
<1> USE NoneIsNoStart, <1>0
    DEF IInv, TypeOK, BirthInv, Frame, FlightInv, UnmanagedOnlyByRace, InFlight,
        startVars, entryVars, procVars, stopVars
<1>1. ASSUME NEW c \in Starts, StartCheck(c) PROVE FlightInv' /\ UnmanagedOnlyByRace'
  <2>1. run # None /\ proc[run] = "alive" => run \in raced' \/ BeingKilled(run)
    BY <1>1, CheckedMap
  <2>2. (run # None /\ proc[run] = "alive" => run \in raced \/ BeingKilled(run))'
    BY <1>1, <2>1 DEF StartCheck, BeingKilled
  <2>3. \A d \in InFlight' : d = c \/ d \in InFlight
    BY <1>1 DEF StartCheck
  <2>4. InFlight # {} => InFlight \cup {c} \subseteq raced'
    BY <1>1 DEF StartCheck
  <2>5. \A d1, d2 \in InFlight' : d1 # d2 => d1 \in raced'
    BY <2>3, <2>4
  <2>6. UnmanagedOnlyByRace'
    BY <1>1 DEF StartCheck
  <2>7. QED
    BY <2>2, <2>5, <2>6
<1>2. ASSUME NEW c \in Starts, StartPort(c) PROVE FlightInv' /\ UnmanagedOnlyByRace'
  BY <1>2 DEF StartPort
<1>3. ASSUME NEW c \in Starts, StartFails(c) PROVE FlightInv' /\ UnmanagedOnlyByRace'
  BY <1>3 DEF StartFails
<1>4. ASSUME NEW c \in Starts, StartSpawn(c) PROVE FlightInv' /\ UnmanagedOnlyByRace'
  BY <1>4 DEF StartSpawn
<1>5. ASSUME NEW c \in Starts, StartStore(c) PROVE FlightInv' /\ UnmanagedOnlyByRace'
  BY <1>5 DEF StartStore
<1>6. ASSUME NEW p \in Procs, Listens(p) PROVE FlightInv' /\ UnmanagedOnlyByRace'
  BY <1>6, <1>0, MapUntouched DEF Listens
<1>7. ASSUME NEW p \in Procs, Dies(p) PROVE FlightInv' /\ UnmanagedOnlyByRace'
  BY <1>7, <1>0, MapUntouched DEF Dies
<1>8. ASSUME NEW e \in Starts, Watch(e) PROVE FlightInv' /\ UnmanagedOnlyByRace'
  BY <1>8, <1>0, MapUntouched DEF Watch
<1>9. ASSUME NEW e \in Starts, ProbeOk(e) PROVE FlightInv' /\ UnmanagedOnlyByRace'
  BY <1>9, <1>0, MapUntouched DEF ProbeOk
<1>10. ASSUME NEW e \in Starts, ProbeErr(e) PROVE FlightInv' /\ UnmanagedOnlyByRace'
  BY <1>10, <1>0, MapUntouched DEF ProbeErr
<1>11. ASSUME NEW e \in Starts, ProbeReady(e) PROVE FlightInv' /\ UnmanagedOnlyByRace'
  BY <1>11, <1>0, MapUntouched DEF ProbeReady
<1>12. ASSUME NEW e \in Starts, ProbeLook(e) PROVE FlightInv' /\ UnmanagedOnlyByRace'
  BY <1>12, <1>0, MapUntouched DEF ProbeLook
<1>13. ASSUME NEW e \in Starts, ProbeKill(e) PROVE FlightInv' /\ UnmanagedOnlyByRace'
  BY <1>13, <1>0, MapUntouched DEF ProbeKill
<1>14. ASSUME NEW e \in Starts, ProbeFailed(e) PROVE FlightInv' /\ UnmanagedOnlyByRace'
  BY <1>14, <1>0, MapUntouched DEF ProbeFailed
<1>15. ASSUME NEW s \in Stops, StopRead(s) PROVE FlightInv' /\ UnmanagedOnlyByRace'
  BY <1>15, <1>0, MapUntouched DEF StopRead
<1>16. ASSUME NEW s \in Stops, StopPort(s) PROVE FlightInv' /\ UnmanagedOnlyByRace'
  BY <1>16, <1>0, MapUntouched DEF StopPort
<1>17. ASSUME NEW s \in Stops, StopMark(s) PROVE FlightInv' /\ UnmanagedOnlyByRace'
  BY <1>17, <1>0, MapUntouched DEF StopMark
<1>18. ASSUME NEW s \in Stops, StopKill(s) PROVE FlightInv' /\ UnmanagedOnlyByRace'
  BY <1>18, <1>0, MapUntouched DEF StopKill
<1>19. ASSUME NEW s \in Stops, StopEnd(s) PROVE FlightInv' /\ UnmanagedOnlyByRace'
  BY <1>19, <1>0, MapUntouched DEF StopEnd
<1>20. CASE UNCHANGED vars
  BY <1>20, <1>0, MapUntouched DEF vars
<1>21. QED
  BY <1>1, <1>2, <1>3, <1>4, <1>5, <1>6, <1>7, <1>8, <1>9, <1>10, <1>11, <1>12, <1>13, <1>14, <1>15, <1>16, <1>17, <1>18, <1>19, <1>20 DEF Next

-----------------------------------------------------------------------------
(* The theorems *)

LEMMA InvInit == Init => IInv
<1> SUFFICES ASSUME Init PROVE IInv
  OBVIOUS
<1>1. TypeOK
  BY TypeInit
<1>2. BirthInv /\ StatusInv /\ UnmanagedOnlyByRace
  BY NoneIsNoStart DEF Init, BirthInv, StatusInv, UnmanagedOnlyByRace
<1>3. FlightInv
  BY DEF Init, FlightInv, InFlight
<1>4. QED
  BY <1>1, <1>2, <1>3 DEF IInv

LEMMA Invariance == Spec => []IInv
<1>1. IInv /\ [Next]_vars => IInv'
  BY TypeStep, BirthStep, StatusStep, ReachStep DEF IInv
<1>2. QED
  BY InvInit, <1>1, PTL DEF Spec

\* The variables of the mock manager keep their types, whatever the number of
\* calls of Start and Stop.
THEOREM TypeCorrect == Spec => []TypeOK
<1>1. IInv => TypeOK
  BY DEF IInv
<1>2. QED
  BY Invariance, <1>1, PTL

\* A live mock process the map does not lead to comes only from a call of Start
\* whose check raced, or is about to be killed by a Stop.
THEOREM UnmanagedHolds == Spec => []UnmanagedOnlyByRace
<1>1. IInv => UnmanagedOnlyByRace
  BY DEF IInv
<1>2. QED
  BY Invariance, <1>1, PTL

\* A mock the user stopped stays "stopped" once its probe is over: neither the
\* watcher nor a failed start reports it as crashed.
THEOREM StopHolds == Spec => StopIsFinal
<1>1. ASSUME IInv, [Next]_vars, NEW e0 \in Starts, status[e0] = "stopped", probe[e0] = "over"
      PROVE  status'[e0] = "stopped"
  <2> USE <1>1, NoneIsNoStart
      DEF IInv, TypeOK, BirthInv, StatusInv, vars, startVars, entryVars, procVars, stopVars
  <2>1. ASSUME NEW c \in Starts, StartCheck(c) PROVE status'[e0] = "stopped"
    BY <2>1 DEF StartCheck
  <2>2. ASSUME NEW c \in Starts, StartPort(c) PROVE status'[e0] = "stopped"
    BY <2>2 DEF StartPort
  <2>3. ASSUME NEW c \in Starts, StartFails(c) PROVE status'[e0] = "stopped"
    BY <2>3 DEF StartFails
  <2>4. ASSUME NEW c \in Starts, StartSpawn(c) PROVE status'[e0] = "stopped"
    BY <2>4 DEF StartSpawn
  <2>5. ASSUME NEW c \in Starts, StartStore(c) PROVE status'[e0] = "stopped"
    BY <2>5 DEF StartStore
  <2>6. ASSUME NEW p \in Procs, Listens(p) PROVE status'[e0] = "stopped"
    BY <2>6 DEF Listens
  <2>7. ASSUME NEW p \in Procs, Dies(p) PROVE status'[e0] = "stopped"
    BY <2>7 DEF Dies
  <2>8. ASSUME NEW e \in Starts, Watch(e) PROVE status'[e0] = "stopped"
    BY <2>8 DEF Watch
  <2>9. ASSUME NEW e \in Starts, ProbeOk(e) PROVE status'[e0] = "stopped"
    BY <2>9 DEF ProbeOk
  <2>10. ASSUME NEW e \in Starts, ProbeErr(e) PROVE status'[e0] = "stopped"
    BY <2>10 DEF ProbeErr
  <2>11. ASSUME NEW e \in Starts, ProbeReady(e) PROVE status'[e0] = "stopped"
    BY <2>11 DEF ProbeReady
  <2>12. ASSUME NEW e \in Starts, ProbeLook(e) PROVE status'[e0] = "stopped"
    BY <2>12 DEF ProbeLook
  <2>13. ASSUME NEW e \in Starts, ProbeKill(e) PROVE status'[e0] = "stopped"
    BY <2>13 DEF ProbeKill
  <2>14. ASSUME NEW e \in Starts, ProbeFailed(e) PROVE status'[e0] = "stopped"
    BY <2>14 DEF ProbeFailed
  <2>15. ASSUME NEW s \in Stops, StopRead(s) PROVE status'[e0] = "stopped"
    BY <2>15 DEF StopRead
  <2>16. ASSUME NEW s \in Stops, StopPort(s) PROVE status'[e0] = "stopped"
    BY <2>16 DEF StopPort
  <2>17. ASSUME NEW s \in Stops, StopMark(s) PROVE status'[e0] = "stopped"
    BY <2>17 DEF StopMark
  <2>18. ASSUME NEW s \in Stops, StopKill(s) PROVE status'[e0] = "stopped"
    BY <2>18 DEF StopKill
  <2>19. ASSUME NEW s \in Stops, StopEnd(s) PROVE status'[e0] = "stopped"
    BY <2>19 DEF StopEnd
  <2>20. CASE UNCHANGED vars
    BY <2>20
  <2>21. QED
    BY <2>1, <2>2, <2>3, <2>4, <2>5, <2>6, <2>7, <2>8, <2>9, <2>10, <2>11, <2>12, <2>13, <2>14, <2>15, <2>16, <2>17, <2>18, <2>19, <2>20 DEF Next
<1>2. IInv /\ [Next]_vars =>
        [\A e \in Starts : status[e] = "stopped" /\ probe[e] = "over"
                            => status'[e] = "stopped"]_vars
  BY <1>1
<1>3. QED
  BY Invariance, <1>2, PTL DEF Spec, StopIsFinal

\* How a crash can be hidden, given that it can (CrashShown fails): an exit
\* nobody asked for that is no longer reported although the entry's goroutines
\* are over.
CrashHidden(e) ==
    /\ proc[e] = "reaped" /\ probe[e] = "over" /\ e \notin stopping
    /\ status[e] # "failed"
HiddenByLateProbeOnly ==
    [][\A e \in Starts : ~CrashHidden(e) /\ CrashHidden(e)'
                            => ProbeReady(e) /\ proc[e] = "reaped"]_vars

\* A crash the watcher has reported is hidden by one thing only, a probe that
\* found the port answering before the exit and writes "ready" after it: no
\* other Start, no Stop, no failed probe and no death of another mock does it.
THEOREM OnlyALateProbeHides == Spec => HiddenByLateProbeOnly
<1>1. ASSUME IInv, [Next]_vars, NEW e0 \in Starts, ~CrashHidden(e0), CrashHidden(e0)'
      PROVE  ProbeReady(e0) /\ proc[e0] = "reaped"
  <2> USE <1>1, NoneIsNoStart
      DEF IInv, TypeOK, BirthInv, CrashHidden, vars, startVars, entryVars, procVars, stopVars
  <2>1. ASSUME NEW c \in Starts, StartCheck(c) PROVE FALSE
    BY <2>1 DEF StartCheck
  <2>2. ASSUME NEW c \in Starts, StartPort(c) PROVE FALSE
    BY <2>2 DEF StartPort
  <2>3. ASSUME NEW c \in Starts, StartFails(c) PROVE FALSE
    BY <2>3 DEF StartFails
  <2>4. ASSUME NEW c \in Starts, StartSpawn(c) PROVE FALSE
    BY <2>4 DEF StartSpawn
  <2>5. ASSUME NEW c \in Starts, StartStore(c) PROVE FALSE
    BY <2>5 DEF StartStore
  <2>6. ASSUME NEW p \in Procs, Listens(p) PROVE FALSE
    BY <2>6 DEF Listens
  <2>7. ASSUME NEW p \in Procs, Dies(p) PROVE FALSE
    BY <2>7 DEF Dies, Exit
  <2>8. ASSUME NEW e \in Starts, Watch(e) PROVE FALSE
    BY <2>8 DEF Watch
  <2>9. ASSUME NEW e \in Starts, ProbeOk(e) PROVE FALSE
    BY <2>9 DEF ProbeOk
  <2>10. ASSUME NEW e \in Starts, ProbeErr(e) PROVE FALSE
    BY <2>10 DEF ProbeErr
  <2>11. ASSUME NEW e \in Starts, ProbeLook(e) PROVE FALSE
    BY <2>11 DEF ProbeLook
  <2>12. ASSUME NEW e \in Starts, ProbeKill(e) PROVE FALSE
    BY <2>12 DEF ProbeKill, Exit
  <2>13. ASSUME NEW e \in Starts, ProbeFailed(e) PROVE FALSE
    BY <2>13 DEF ProbeFailed
  <2>14. ASSUME NEW s \in Stops, StopRead(s) PROVE FALSE
    BY <2>14 DEF StopRead
  <2>15. ASSUME NEW s \in Stops, StopPort(s) PROVE FALSE
    BY <2>15 DEF StopPort, Exit
  <2>16. ASSUME NEW s \in Stops, StopMark(s) PROVE FALSE
    BY <2>16 DEF StopMark
  <2>17. ASSUME NEW s \in Stops, StopKill(s) PROVE FALSE
    BY <2>17 DEF StopKill, Exit
  <2>18. ASSUME NEW s \in Stops, StopEnd(s) PROVE FALSE
    BY <2>18 DEF StopEnd
  <2>19. ASSUME NEW e \in Starts, ProbeReady(e) PROVE ProbeReady(e0) /\ proc[e0] = "reaped"
    BY <2>19 DEF ProbeReady
  <2>20. CASE UNCHANGED vars
    BY <2>20
  <2> QED
    BY <2>1, <2>2, <2>3, <2>4, <2>5, <2>6, <2>7, <2>8, <2>9, <2>10, <2>11, <2>12, <2>13, <2>14, <2>15, <2>16, <2>17, <2>18, <2>19, <2>20 DEF Next
<1>2. IInv /\ [Next]_vars =>
        [\A e \in Starts : ~CrashHidden(e) /\ CrashHidden(e)'
                            => ProbeReady(e) /\ proc[e] = "reaped"]_vars
  BY <1>1
<1>3. QED
  BY Invariance, <1>2, PTL DEF Spec, HiddenByLateProbeOnly
=============================================================================
