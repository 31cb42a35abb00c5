------------------------- MODULE VerifyRun_proofs -------------------------
(***************************************************************************)
(* Type correctness and the safety of VerifyRun, for any number of tags and *)
(* of calls.                                                               *)
(***************************************************************************)
EXTENDS VerifyRun, FiniteSetTheorems, TLAPS

-----------------------------------------------------------------------------
(* The inductive invariant *)

\* A call that is not at work has no variables; the counts of one that is
\* cannot exceed its position.
CallInv ==
    \A c \in Calls :
        /\ c \notin AtWork => pos[c] = 0 /\ done[c] = {}
        /\ c \in AtWork => up /\ status # "none"
        /\ call[c] \in {"judged", "added"} => pos[c] \in Tags
        /\ passed[c] + failed[c] <= pos[c]

\* Nothing happens before the run has its row.
FreshInv == status = "none" => Stored = {} /\ AtWork = {}

\* What a call has passed by is stored or was refused by the store.
ScanInv ==
    \A c \in AtWork :
        /\ done[c] \subseteq Stored
        /\ \A t \in Tags : t < pos[c] \/ (t = pos[c] /\ call[c] # "judged")
                              => t \in Stored \cup unsaved \cup done[c]

\* As long as calls did not overlap and DoneTags did not fail, one call is at
\* work and everything that is stored is known to it or behind it.
SoleInv ==
    ~overlapped /\ ~misread =>
        \A c \in AtWork :
            /\ \A d \in AtWork : d = c
            /\ \A t \in Stored : t \in done[c] \/ t <= pos[c]
            /\ call[c] = "judged" => pos[c] \notin Stored

IInv ==
    /\ TypeOK
    /\ CallInv
    /\ FreshInv
    /\ ScanInv
    /\ SoleInv
    /\ NoTagTwice
    /\ FinishedMeansAll
-----------------------------------------------------------------------------
(* Type correctness *)

LEMMA Bounds ==
    /\ 0 \in 0 .. NumTags
    /\ \A t \in Tags : t \in 1 .. NumTags /\ t \in 0 .. NumTags /\ t \in Nat
    /\ \A n \in 0 .. NumTags : n \in Nat
    /\ \A m, n \in Nat, k \in 0 .. NumTags :
          m + n <= k => m \in 0 .. NumTags /\ n \in 0 .. NumTags /\ m + n \in 0 .. NumTags
  BY NumTagsAssumption DEF Tags

LEMMA LeqSplit == \A m, n \in Nat : m <= n => m < n \/ m = n
  OBVIOUS

LEMMA TypeInit == Init => TypeOK
<1> SUFFICES ASSUME Init PROVE TypeOK
  OBVIOUS
<1>1. up \in BOOLEAN /\ overlapped \in BOOLEAN /\ misread \in BOOLEAN
  BY DEF Init
<1>2. /\ rowPassed \in 0 .. NumTags /\ rowFailed \in 0 .. NumTags
      /\ progress \in 0 .. NumTags /\ pos \in [Calls -> 0 .. NumTags]
      /\ passed \in [Calls -> 0 .. NumTags] /\ failed \in [Calls -> 0 .. NumTags]
  BY Bounds DEF Init
<1>3. ok \in [Tags -> Nat] /\ bad \in [Tags -> Nat] /\ unsaved \subseteq Tags
  BY DEF Init
<1>4. done \in [Calls -> SUBSET Tags]
  BY DEF Init
<1>5. /\ call \in [Calls -> {"idle", "loop", "judged", "added", "over"}]
      /\ verdict \in [Calls -> {"ok", "bad"}]
      /\ status \in {"none", "running", "finished"}
  BY DEF Init
<1>6. QED
  BY <1>1, <1>2, <1>3, <1>4, <1>5 DEF TypeOK

LEMMA TypeStep == IInv /\ [Next]_vars => TypeOK'
<1> SUFFICES ASSUME IInv, [Next]_vars PROVE TypeOK'
  OBVIOUS
<1> USE Bounds DEF IInv, TypeOK, CallInv, AtWork, vars, row, local, results, history
<1>1. ASSUME NEW c \in Calls, CreateRun(c) PROVE TypeOK'
  BY <1>1 DEF CreateRun, NextCall
<1>2. ASSUME NEW c \in Calls, Resume(c) PROVE TypeOK'
  <2>1. PICK d \in SUBSET Stored : /\ done' = [done EXCEPT ![c] = d]
                                   /\ misread' = (misread \/ d # Stored)
    BY <1>2 DEF Resume
  <2>2. Stored \subseteq Tags
    BY DEF Stored
  <2>3. done' \in [Calls -> SUBSET Tags]
    BY <2>1, <2>2
  <2>4. misread' \in BOOLEAN /\ overlapped' \in BOOLEAN
    BY <1>2, <2>1 DEF Resume
  <2>5. QED
    BY <1>2, <2>3, <2>4 DEF Resume
<1>3. ASSUME NEW c \in Calls, JudgeTag(c) PROVE TypeOK'
  BY <1>3 DEF JudgeTag, Todo
<1>4. ASSUME NEW c \in Calls, AddTagResult(c) PROVE TypeOK'
  <2>1. pos[c] \in Tags
    BY <1>4 DEF AddTagResult
  <2>2. ok' \in [Tags -> Nat] /\ bad' \in [Tags -> Nat]
    BY <1>4, <2>1 DEF AddTagResult
  <2>3. unsaved' \subseteq Tags
    BY <1>4, <2>1 DEF AddTagResult
  <2>4. QED
    BY <1>4, <2>2, <2>3 DEF AddTagResult
<1>5. ASSUME NEW c \in Calls, UpdateRunProgress(c) PROVE TypeOK'
  BY <1>5 DEF UpdateRunProgress
<1>6. ASSUME NEW c \in Calls, FinishRun(c) PROVE TypeOK'
  BY <1>6 DEF FinishRun, Return, Todo
<1>7. CASE Crash
  BY <1>7 DEF Crash
<1>8. CASE Restart
  BY <1>8 DEF Restart
<1>9. CASE UNCHANGED vars
  BY <1>9
<1>10. QED
  BY <1>1, <1>2, <1>3, <1>4, <1>5, <1>6, <1>7, <1>8, <1>9 DEF Next

-----------------------------------------------------------------------------
(* The parts of the invariant *)

\* What an INSERT does to the set of stored tags.
LEMMA AddEffect ==
    ASSUME IInv, NEW c \in Calls, AddTagResult(c)
    PROVE  /\ pos[c] \in Tags
           /\ Stored \subseteq Stored' /\ unsaved \subseteq unsaved'
           /\ Stored' \subseteq Stored \cup {pos[c]}
           /\ pos[c] \in Stored' \cup unsaved'
           /\ \A t \in Tags : ok'[t] + bad'[t] <= ok[t] + bad[t] + (IF t = pos[c] THEN 1 ELSE 0)
<1> USE DEF IInv, TypeOK
<1>1. pos[c] \in Tags
  BY DEF AddTagResult, CallInv
<1>2. CASE UNCHANGED results /\ unsaved' = unsaved \cup {pos[c]}
  BY <1>1, <1>2 DEF Stored, results
<1>3. CASE unsaved' = unsaved /\ ok' = [ok EXCEPT ![pos[c]] = @ + 1] /\ bad' = bad
  <2>1. \A t \in Tags : ok'[t] + bad'[t] = ok[t] + bad[t] + (IF t = pos[c] THEN 1 ELSE 0)
    BY <1>1, <1>3
  <2>2. \A t \in Tags : ok[t] \in Nat /\ bad[t] \in Nat
    OBVIOUS
  <2>3. QED
    BY <1>1, <1>3, <2>1, <2>2 DEF Stored
<1>4. CASE unsaved' = unsaved /\ bad' = [bad EXCEPT ![pos[c]] = @ + 1] /\ ok' = ok
  <2>1. \A t \in Tags : ok'[t] + bad'[t] = ok[t] + bad[t] + (IF t = pos[c] THEN 1 ELSE 0)
    BY <1>1, <1>4
  <2>2. \A t \in Tags : ok[t] \in Nat /\ bad[t] \in Nat
    OBVIOUS
  <2>3. QED
    BY <1>1, <1>4, <2>1, <2>2 DEF Stored
<1>5. QED
  BY <1>2, <1>3, <1>4 DEF AddTagResult

\* Results are never taken back, and only an INSERT adds any.
LEMMA StoredGrows ==
    ASSUME IInv, [Next]_vars
    PROVE  /\ Stored \subseteq Stored' /\ unsaved \subseteq unsaved'
           /\ (\E c \in Calls : AddTagResult(c)) \/ Stored' = Stored
<1>1. ASSUME NEW c \in Calls, AddTagResult(c)
      PROVE  Stored \subseteq Stored' /\ unsaved \subseteq unsaved'
  BY <1>1, AddEffect
<1>2. CASE UNCHANGED <<ok, bad, unsaved>>
  BY <1>2 DEF Stored
<1>3. (\E c \in Calls : AddTagResult(c)) \/ UNCHANGED <<ok, bad, unsaved>>
  BY DEF Next, vars, results, history, CreateRun, Resume, JudgeTag, UpdateRunProgress,
         FinishRun, Crash, Restart
<1>4. QED
  BY <1>1, <1>2, <1>3 DEF Stored

LEMMA CallStep == IInv /\ [Next]_vars => CallInv'
<1> SUFFICES ASSUME IInv, [Next]_vars PROVE CallInv'
  OBVIOUS
<1> USE Bounds DEF IInv, TypeOK, CallInv, AtWork, vars, row, local, results, history
<1>1. ASSUME NEW c \in Calls, CreateRun(c) PROVE CallInv'
  BY <1>1 DEF CreateRun, NextCall
<1>2. ASSUME NEW c \in Calls, Resume(c) PROVE CallInv'
  BY <1>2 DEF Resume, NextCall
<1>3. ASSUME NEW c \in Calls, JudgeTag(c) PROVE CallInv'
  BY <1>3 DEF JudgeTag, Todo
<1>4. ASSUME NEW c \in Calls, AddTagResult(c) PROVE CallInv'
  BY <1>4 DEF AddTagResult
<1>5. ASSUME NEW c \in Calls, UpdateRunProgress(c) PROVE CallInv'
  BY <1>5 DEF UpdateRunProgress
<1>6. ASSUME NEW c \in Calls, FinishRun(c) PROVE CallInv'
  BY <1>6 DEF FinishRun, Return, Todo
<1>7. CASE Crash
  BY <1>7 DEF Crash
<1>8. CASE Restart
  BY <1>8 DEF Restart
<1>9. CASE UNCHANGED vars
  BY <1>9
<1>10. QED
  BY <1>1, <1>2, <1>3, <1>4, <1>5, <1>6, <1>7, <1>8, <1>9 DEF Next

LEMMA ScanStep == IInv /\ [Next]_vars => ScanInv'
<1> SUFFICES ASSUME IInv, [Next]_vars PROVE ScanInv'
  OBVIOUS
<1>a. done' \in [Calls -> SUBSET Tags]
  BY TypeStep DEF TypeOK
<1> SUFFICES ASSUME NEW e \in Calls, e \in AtWork', NEW t \in Tags
             PROVE  /\ t \in done'[e] => t \in Stored'
                    /\ t < pos'[e] \/ (t = pos'[e] /\ call'[e] # "judged")
                          => t \in Stored' \cup unsaved' \cup done'[e]
  BY <1>a DEF ScanInv, AtWork
<1>b. t \in Nat /\ t > 0
  BY Bounds
<1>c. Stored \subseteq Stored' /\ unsaved \subseteq unsaved'
  BY StoredGrows
<1> USE Bounds, <1>b, <1>c DEF IInv, TypeOK, CallInv, ScanInv, AtWork
<1>1. ASSUME NEW c \in Calls, CreateRun(c) PROVE pos'[c] = 0 /\ done'[c] = {}
  BY <1>1 DEF CreateRun, NextCall
<1>2. ASSUME NEW c \in Calls, CreateRun(c), e # c PROVE e \in AtWork
  BY <1>2 DEF CreateRun
<1>3. ASSUME NEW c \in Calls, Resume(c) PROVE pos'[c] = 0 /\ done'[c] \subseteq Stored
  BY <1>3 DEF Resume, NextCall
<1>4. ASSUME NEW c \in Calls, JudgeTag(c), e = c
      PROVE  pos'[e] \in Todo(c) /\ \A u \in Todo(c) : pos'[e] <= u
  BY <1>4 DEF JudgeTag
<1>5. ASSUME NEW c \in Calls, JudgeTag(c), e = c, t < pos'[e]
      PROVE  t <= pos[e] \/ t \in done[e]
  <2>0. pos'[e] \in Nat /\ pos[e] \in Nat
    BY <1>4, <1>5 DEF Todo
  <2>1. t \notin Todo(c)
    <3>1. \A u \in Todo(c) : pos'[e] <= u
      BY <1>4, <1>5
    <3>2. QED
      BY <1>5, <2>0, <3>1
  <2>2. QED
    BY <1>5, <2>0, <2>1 DEF Todo
<1>6. CASE \E c \in Calls : CreateRun(c)
  <2>1. PICK c \in Calls : CreateRun(c)
    BY <1>6
  <2>2. CASE e = c
    BY <1>1, <2>1, <2>2
  <2>3. CASE e # c
    BY <1>2, <2>1, <2>3 DEF CreateRun
  <2>4. QED
    BY <2>2, <2>3
<1>7. CASE \E c \in Calls : Resume(c)
  <2>1. PICK c \in Calls : Resume(c)
    BY <1>7
  <2>2. CASE e = c
    BY <1>3, <2>1, <2>2
  <2>3. CASE e # c
    BY <2>1, <2>3 DEF Resume
  <2>4. QED
    BY <2>2, <2>3
<1>8. CASE \E c \in Calls : JudgeTag(c)
  <2>1. PICK c \in Calls : JudgeTag(c)
    BY <1>8
  <2>2. CASE e = c
    <3>1. call[e] = "loop" /\ call'[e] = "judged" /\ done' = done
      BY <2>1, <2>2 DEF JudgeTag
    <3>2. t < pos'[e] => t \in Stored \cup unsaved \cup done[e]
      <4>1. t < pos'[e] => t <= pos[e] \/ t \in done[e]
        BY <1>5, <2>1, <2>2
      <4>2. pos[e] \in Nat
        OBVIOUS
      <4>3. e \in AtWork
        BY <3>1
      <4>4. QED
        <5>1. t <= pos[e] => t < pos[e] \/ t = pos[e]
          BY <4>2, <1>b, LeqSplit
        <5>2. t \in done[e] => t \in Stored
          BY <4>3
        <5>3. t < pos[e] \/ t = pos[e] => t \in Stored \cup unsaved \cup done[e]
          BY <3>1, <4>3
        <5>4. QED
          BY <4>1, <5>1, <5>2, <5>3
    <3>3. QED
      BY <2>2, <3>1, <3>2
  <2>3. CASE e # c
    BY <2>1, <2>3 DEF JudgeTag
  <2>4. QED
    BY <2>2, <2>3
<1>9. CASE \E c \in Calls : AddTagResult(c)
  <2>1. PICK c \in Calls : AddTagResult(c)
    BY <1>9
  <2>2. e \in AtWork /\ pos'[e] = pos[e] /\ done'[e] = done[e]
    BY <2>1 DEF AddTagResult
  <2>3. pos[c] \in Stored' \cup unsaved'
    BY <2>1, AddEffect DEF IInv
  <2>4. e # c => call'[e] = call[e]
    BY <2>1 DEF AddTagResult
  <2>5. QED
    BY <2>2, <2>3, <2>4
<1>10. CASE \E c \in Calls : UpdateRunProgress(c)
  BY <1>10 DEF UpdateRunProgress
<1>11. CASE \E c \in Calls : FinishRun(c)
  BY <1>11 DEF FinishRun, Return
<1>12. CASE Crash
  BY <1>12 DEF Crash
<1>13. CASE Restart \/ UNCHANGED vars
  BY <1>13 DEF Restart, vars, local
<1>14. QED
  BY <1>6, <1>7, <1>8, <1>9, <1>10, <1>11, <1>12, <1>13 DEF Next

LEMMA FreshStep == IInv /\ [Next]_vars => FreshInv'
<1> SUFFICES ASSUME IInv, [Next]_vars, status' = "none" PROVE Stored' = {} /\ AtWork' = {}
  BY DEF FreshInv
<1> USE DEF IInv, TypeOK, FreshInv, AtWork
<1>1. status = "none" /\ AtWork' = {}
  BY DEF Next, vars, row, local, CreateRun, Resume, JudgeTag, AddTagResult, UpdateRunProgress,
         FinishRun, Return, Crash, Restart
<1>2. ~ \E c \in Calls : AddTagResult(c)
  BY <1>1 DEF AddTagResult
<1>3. QED
  BY <1>1, <1>2, StoredGrows

\* The tag a call turns to is neither known to it nor behind it.
LEMMA JudgeEffect ==
    ASSUME IInv, NEW c \in Calls, JudgeTag(c)
    PROVE  /\ pos'[c] \in Tags /\ pos'[c] > pos[c] /\ pos'[c] \notin done[c]
           /\ AtWork' = AtWork /\ c \in AtWork /\ Stored' = Stored /\ done' = done
  BY DEF IInv, TypeOK, JudgeTag, Todo, AtWork, Stored, results

LEMMA SoleStep == IInv /\ [Next]_vars => SoleInv'
<1> SUFFICES ASSUME IInv, [Next]_vars, ~overlapped', ~misread' PROVE SoleInv'
  BY DEF SoleInv
<1>0. /\ ~overlapped /\ ~misread
      /\ \A c \in Calls : Resume(c) => AtWork = {} /\ done'[c] = Stored
  BY DEF IInv, TypeOK, Next, vars, history, CreateRun, Resume, JudgeTag, AddTagResult,
         UpdateRunProgress, FinishRun, Crash, Restart
<1> SUFFICES ASSUME NEW e \in Calls, e \in AtWork'
             PROVE  /\ \A d \in AtWork' : d = e
                    /\ \A t \in Stored' : t \in done'[e] \/ t <= pos'[e]
                    /\ call'[e] = "judged" => pos'[e] \notin Stored'
  BY DEF SoleInv, AtWork
<1>a. \A t \in Stored : t \in Tags /\ t \in Nat
  BY Bounds DEF Stored
<1>b. \A c \in Calls : pos[c] \in Nat
  BY Bounds DEF IInv, TypeOK
<1>c. \A c, d \in AtWork : d = c
  BY <1>0 DEF IInv, SoleInv
<1>1. ASSUME NEW c \in Calls, CreateRun(c) \/ Resume(c)
      PROVE  AtWork = {} /\ AtWork' = {c} /\ call'[c] = "loop" /\ Stored' = Stored /\ Stored \subseteq done'[c]
  BY <1>0, <1>1 DEF IInv, TypeOK, FreshInv, CreateRun, Resume, AtWork, Stored, results
<1>2. CASE \E c \in Calls : CreateRun(c) \/ Resume(c)
  BY <1>1, <1>2
<1>3. CASE \E c \in Calls : JudgeTag(c)
  <2>1. PICK c \in Calls : JudgeTag(c)
    BY <1>3
  <2>2. e = c /\ AtWork' = AtWork
    BY <2>1, <1>c, JudgeEffect
  <2>3. \A t \in Stored : t \in done[e] \/ t <= pos[e]
    BY <1>0, <2>1, <2>2, JudgeEffect DEF IInv, SoleInv
  <2>4. pos'[e] \in Nat /\ pos'[e] > pos[e] /\ pos'[e] \notin done[e] /\ Stored' = Stored /\ done' = done
    BY <2>1, <2>2, JudgeEffect, Bounds
  <2>5. QED
    BY <1>a, <1>b, <1>c, <2>2, <2>3, <2>4
<1>4. CASE \E c \in Calls : AddTagResult(c)
  <2>1. PICK c \in Calls : AddTagResult(c)
    BY <1>4
  <2>2. /\ AtWork' = AtWork /\ c \in AtWork /\ pos' = pos /\ done' = done
        /\ call'[c] = "added"
    BY <2>1 DEF IInv, TypeOK, AddTagResult, AtWork
  <2>3. e = c /\ Stored' \subseteq Stored \cup {pos[e]}
    BY <2>1, <2>2, <1>c, AddEffect
  <2>4. \A t \in Stored : t \in done[e] \/ t <= pos[e]
    BY <1>0, <2>2, <2>3 DEF IInv, SoleInv
  <2>5. QED
    BY <1>b, <1>c, <2>2, <2>3, <2>4
<1>5. CASE UNCHANGED <<results, pos, done>> /\ \A c \in AtWork' : c \in AtWork /\ (call'[c] = "judged" => call[c] = "judged")
  <2>1. Stored' = Stored
    BY <1>5 DEF Stored, results
  <2>2. e \in AtWork
    BY <1>5
  <2>3. /\ \A t \in Stored : t \in done[e] \/ t <= pos[e]
        /\ call[e] = "judged" => pos[e] \notin Stored
    BY <1>0, <2>2 DEF IInv, SoleInv
  <2>4. QED
    BY <1>5, <1>c, <2>1, <2>2, <2>3
<1>6. CASE \E c \in Calls : UpdateRunProgress(c)
  BY <1>5, <1>6 DEF IInv, TypeOK, UpdateRunProgress, AtWork
<1>7. CASE \E c \in Calls : FinishRun(c)
  <2>1. AtWork' = {}
    BY <1>7, <1>c DEF IInv, TypeOK, FinishRun, Return, AtWork
  <2>2. QED
    BY <2>1
<1>8. CASE Crash
  <2>1. AtWork' = {}
    BY <1>8 DEF Crash, AtWork
  <2>2. QED
    BY <2>1
<1>9. CASE Restart \/ UNCHANGED vars
  BY <1>5, <1>9 DEF Restart, vars, local, AtWork
<1>10. QED
  BY <1>2, <1>3, <1>4, <1>6, <1>7, <1>8, <1>9 DEF Next

LEMMA OnceStep == IInv /\ [Next]_vars => NoTagTwice'
<1> SUFFICES ASSUME IInv, [Next]_vars PROVE NoTagTwice'
  OBVIOUS
<1> USE Bounds DEF IInv, TypeOK, CallInv, SoleInv, NoTagTwice, AtWork, Stored, vars, row, local, results, history
<1>1. ASSUME NEW c \in Calls, CreateRun(c) PROVE NoTagTwice'
  BY <1>1 DEF CreateRun, NextCall
<1>2. ASSUME NEW c \in Calls, Resume(c) PROVE NoTagTwice'
  BY <1>2 DEF Resume, NextCall
<1>3. ASSUME NEW c \in Calls, JudgeTag(c) PROVE NoTagTwice'
  BY <1>3 DEF JudgeTag, Todo
<1>4. ASSUME NEW c \in Calls, AddTagResult(c) PROVE NoTagTwice'
  <2>1. ~overlapped /\ ~misread => pos[c] \notin Stored
    BY <1>4 DEF AddTagResult
  <2>2. overlapped' = overlapped /\ misread' = misread
    BY <1>4 DEF AddTagResult
  <2>3. \A t \in Tags : /\ ok[t] \in Nat /\ bad[t] \in Nat
                        /\ ok'[t] + bad'[t] <= ok[t] + bad[t] + (IF t = pos[c] THEN 1 ELSE 0)
    BY <1>4, AddEffect DEF IInv
  <2>4. \A t \in Tags : t \notin Stored => ok[t] + bad[t] = 0
    BY <2>3 DEF Stored
  <2>5. ok' \in [Tags -> Nat] /\ bad' \in [Tags -> Nat]
    BY TypeStep DEF TypeOK
  <2>6. ASSUME ~overlapped, ~misread, NEW t \in Tags PROVE ok'[t] + bad'[t] <= 1
    <3>1. ok[t] + bad[t] <= 1 /\ (t = pos[c] => ok[t] + bad[t] = 0)
      BY <2>1, <2>4, <2>6
    <3>2. QED
      BY <2>3, <2>5, <3>1
  <2>7. QED
    BY <2>2, <2>6
<1>5. ASSUME NEW c \in Calls, UpdateRunProgress(c) PROVE NoTagTwice'
  BY <1>5 DEF UpdateRunProgress
<1>6. ASSUME NEW c \in Calls, FinishRun(c) PROVE NoTagTwice'
  BY <1>6 DEF FinishRun, Return, Todo
<1>7. CASE Crash
  BY <1>7 DEF Crash
<1>8. CASE Restart
  BY <1>8 DEF Restart
<1>9. CASE UNCHANGED vars
  BY <1>9
<1>10. QED
  BY <1>1, <1>2, <1>3, <1>4, <1>5, <1>6, <1>7, <1>8, <1>9 DEF Next

LEMMA FinishStep == IInv /\ [Next]_vars => FinishedMeansAll'
<1> SUFFICES ASSUME IInv, [Next]_vars PROVE FinishedMeansAll'
  OBVIOUS
<1>0. Stored \subseteq Stored' /\ unsaved \subseteq unsaved'
  BY StoredGrows
<1> USE Bounds, <1>0 DEF IInv, TypeOK, CallInv, ScanInv, FinishedMeansAll, AtWork, vars, row, local, results, history
<1>1. ASSUME NEW c \in Calls, CreateRun(c) PROVE FinishedMeansAll'
  BY <1>1 DEF CreateRun, NextCall
<1>2. ASSUME NEW c \in Calls, Resume(c) PROVE FinishedMeansAll'
  BY <1>2 DEF Resume, NextCall
<1>3. ASSUME NEW c \in Calls, JudgeTag(c) PROVE FinishedMeansAll'
  BY <1>3 DEF JudgeTag, Todo
<1>4. ASSUME NEW c \in Calls, AddTagResult(c) PROVE FinishedMeansAll'
  BY <1>4 DEF AddTagResult
<1>5. ASSUME NEW c \in Calls, UpdateRunProgress(c) PROVE FinishedMeansAll'
  BY <1>5 DEF UpdateRunProgress
<1>6. ASSUME NEW c \in Calls, FinishRun(c) PROVE FinishedMeansAll'
  <2>1. \A t \in Tags : t <= pos[c] \/ t \in done[c]
    BY <1>6 DEF FinishRun, Todo
  <2>2. c \in AtWork /\ call[c] = "loop"
    BY <1>6 DEF FinishRun
  <2>3. Tags \subseteq Stored \cup unsaved
    <3>1. \A t \in Tags : t <= pos[c] => t < pos[c] \/ t = pos[c]
      BY LeqSplit
    <3>2. done[c] \subseteq Stored
      BY <2>2 DEF ScanInv
    <3>3. \A t \in Tags : t < pos[c] \/ t = pos[c] => t \in Stored \cup unsaved \cup done[c]
      BY <2>2 DEF ScanInv
    <3>4. QED
      BY <2>1, <3>1, <3>2, <3>3
  <2>4. QED
    BY <2>3
<1>7. CASE Crash
  BY <1>7 DEF Crash
<1>8. CASE Restart
  BY <1>8 DEF Restart
<1>9. CASE UNCHANGED vars
  BY <1>9
<1>10. QED
  BY <1>1, <1>2, <1>3, <1>4, <1>5, <1>6, <1>7, <1>8, <1>9 DEF Next

-----------------------------------------------------------------------------
(* Counting *)

LEMMA TagSets ==
    ASSUME NEW B \in SUBSET Tags, NEW A \in SUBSET B
    PROVE  Cardinality(A) \in Nat /\ Cardinality(B) \in Nat /\ Cardinality(A) <= Cardinality(B)
<1>1. IsFiniteSet(Tags)
  BY NumTagsAssumption, FS_Interval DEF Tags
<1>2. IsFiniteSet(B)
  BY <1>1, FS_Subset
<1>3. IsFiniteSet(A) /\ Cardinality(A) <= Cardinality(B)
  BY <1>2, FS_Subset
<1>4. QED
  BY <1>2, <1>3, FS_CardinalityType

LEMMA TagSetsAdd ==
    ASSUME NEW A \in SUBSET Tags, NEW t \in Tags
    PROVE  /\ t \notin A => Cardinality(A \cup {t}) = Cardinality(A) + 1
           /\ Cardinality(A \cup {t}) <= Cardinality(A) + 1
<1>1. IsFiniteSet(Tags)
  BY NumTagsAssumption, FS_Interval DEF Tags
<1>2. IsFiniteSet(A) /\ Cardinality(A) \in Nat
  BY <1>1, FS_Subset, FS_CardinalityType
<1>3. Cardinality(A \cup {t}) = IF t \in A THEN Cardinality(A) ELSE Cardinality(A) + 1
  BY <1>2, FS_AddElement
<1>4. \A n \in Nat : n <= n + 1 /\ n + 1 <= n + 1
  OBVIOUS
<1>5. QED
  BY <1>2, <1>3, <1>4

\* The tags a call can have counted: it is at pos, which it has looked at but
\* not stored while it is "judged".
Looked == Stored \cup unsaved
Behind(c) == {t \in Looked : t < pos[c] \/ (t = pos[c] /\ call[c] # "judged")}

\* A call has counted no more than what is behind it, and the tag in its hands.
CountInv ==
    /\ ProgressNeverOverstates
    /\ \A c \in AtWork :
          passed[c] + failed[c] <= Cardinality(Behind(c)) + (IF call[c] = "judged" THEN 1 ELSE 0)

LEMMA BehindGrows ==
    ASSUME IInv, [Next]_vars
    PROVE  /\ Looked \subseteq Looked' /\ Looked' \subseteq Tags
           /\ \A c \in Calls : /\ Cardinality(Behind(c)) \in Nat /\ Cardinality(Behind(c)') \in Nat
                               /\ Cardinality(Looked) \in Nat /\ Cardinality(Looked') \in Nat
                               /\ Cardinality(Behind(c)) <= Cardinality(Looked)
                               /\ Cardinality(Looked) <= Cardinality(Looked')
                               /\ Behind(c) \subseteq Behind(c)'
                                     => Cardinality(Behind(c)) <= Cardinality(Behind(c)')
<1>1. Looked \subseteq Looked'
  BY StoredGrows DEF Looked
<1>2. Looked' \subseteq Tags
  BY TypeStep DEF Looked, Stored, TypeOK
<1>3. \A c \in Calls : Behind(c) \in SUBSET Looked /\ Behind(c)' \in SUBSET Looked'
  BY DEF Behind
<1>4. ASSUME NEW c \in Calls
      PROVE  /\ Cardinality(Behind(c)) \in Nat /\ Cardinality(Behind(c)') \in Nat
             /\ Cardinality(Looked) \in Nat /\ Cardinality(Looked') \in Nat
             /\ Cardinality(Behind(c)) <= Cardinality(Looked)
             /\ Cardinality(Looked) <= Cardinality(Looked')
             /\ Behind(c) \subseteq Behind(c)' => Cardinality(Behind(c)) <= Cardinality(Behind(c)')
  <2>1. Looked \in SUBSET Tags /\ Looked' \in SUBSET Tags /\ Looked \in SUBSET Looked'
    BY <1>1, <1>2
  <2>2. Behind(c) \in SUBSET Looked /\ Behind(c)' \in SUBSET Looked' /\ Behind(c)' \in SUBSET Tags
    BY <1>2, <1>3
  <2>3. /\ Cardinality(Behind(c)) \in Nat /\ Cardinality(Looked) \in Nat
        /\ Cardinality(Behind(c)) <= Cardinality(Looked)
    BY <2>1, <2>2, TagSets
  <2>4. Cardinality(Looked') \in Nat /\ Cardinality(Looked) <= Cardinality(Looked')
    BY <2>1, TagSets
  <2>5. Cardinality(Behind(c)') \in Nat
    BY <2>1, <2>2, TagSets
  <2>6. Behind(c) \subseteq Behind(c)' => Cardinality(Behind(c)) <= Cardinality(Behind(c)')
    BY <2>2, TagSets
  <2>7. QED
    BY <2>3, <2>4, <2>5, <2>6
<1>5. QED
  BY <1>1, <1>2, <1>4

LEMMA CountStep == IInv /\ CountInv /\ [Next]_vars => CountInv'
<1> SUFFICES ASSUME IInv, CountInv, [Next]_vars PROVE CountInv'
  OBVIOUS
<1>1. \A c \in Calls : pos[c] \in Nat /\ passed[c] \in Nat /\ failed[c] \in Nat
  BY Bounds DEF IInv, TypeOK
<1>2. \A t \in Looked : t \in Nat
  BY Bounds DEF IInv, TypeOK, Looked, Stored
\* A call that stays where it is.
<1>3. ASSUME NEW e \in Calls, e \in AtWork, pos'[e] = pos[e], call[e] = "judged" <=> call'[e] = "judged",
             passed'[e] = passed[e], failed'[e] = failed[e]
      PROVE  passed'[e] + failed'[e] <= Cardinality(Behind(e)') + (IF call'[e] = "judged" THEN 1 ELSE 0)
  <2>1. Behind(e) \subseteq Behind(e)'
    BY <1>3, BehindGrows DEF Behind
  <2>2. Cardinality(Behind(e)) <= Cardinality(Behind(e)') /\ Cardinality(Behind(e)) \in Nat
        /\ Cardinality(Behind(e)') \in Nat
    BY <2>1, BehindGrows
  <2>3. passed[e] + failed[e] <= Cardinality(Behind(e)) + (IF call[e] = "judged" THEN 1 ELSE 0)
    BY <1>3 DEF CountInv
  <2>4. QED
    BY <1>1, <1>3, <2>2, <2>3
\* The other calls, and all of them in a step that moves none.
<1>4. ASSUME NEW e \in Calls, e \in AtWork', ~ \E c \in Calls : c = e /\ (JudgeTag(c) \/ AddTagResult(c))
      PROVE  passed'[e] + failed'[e] <= Cardinality(Behind(e)') + (IF call'[e] = "judged" THEN 1 ELSE 0)
  <2>1. CASE e \in AtWork
    <3>1. /\ pos'[e] = pos[e] /\ passed'[e] = passed[e] /\ failed'[e] = failed[e]
          /\ call[e] = "judged" <=> call'[e] = "judged"
      BY <1>4, <2>1 DEF IInv, TypeOK, Next, vars, local, AtWork, CreateRun, NextCall, Resume, JudgeTag,
                        AddTagResult, UpdateRunProgress, FinishRun, Return, Crash, Restart
    <3>2. QED
      BY <1>3, <2>1, <3>1
  <2>2. CASE e \notin AtWork
    <3>1. passed'[e] = passed[e] /\ failed'[e] = failed[e]
      BY <1>4, <2>2 DEF IInv, TypeOK, Next, vars, local, AtWork, CreateRun, NextCall, Resume, JudgeTag,
                        AddTagResult, UpdateRunProgress, FinishRun, Return, Crash, Restart
    <3>2. passed[e] + failed[e] <= 0
      BY <2>2 DEF IInv, CallInv
    <3>3. Cardinality(Behind(e)') \in Nat
      BY BehindGrows
    <3>4. QED
      BY <1>1, <3>1, <3>2, <3>3
  <2>3. QED
    BY <2>1, <2>2
<1>5. ASSUME NEW e \in Calls, JudgeTag(e)
      PROVE  passed'[e] + failed'[e] <= Cardinality(Behind(e)') + (IF call'[e] = "judged" THEN 1 ELSE 0)
  <2>1. /\ call[e] = "loop" /\ call'[e] = "judged" /\ e \in AtWork
        /\ passed'[e] + failed'[e] = passed[e] + failed[e] + 1
    BY <1>1, <1>5 DEF IInv, TypeOK, JudgeTag, AtWork
  <2>2. pos'[e] > pos[e] /\ pos'[e] \in Nat
    BY <1>5, JudgeEffect, Bounds
  <2>3. Behind(e) \subseteq Behind(e)'
    BY <1>1, <1>2, <2>1, <2>2, BehindGrows DEF Behind
  <2>4. Cardinality(Behind(e)) <= Cardinality(Behind(e)') /\ Cardinality(Behind(e)) \in Nat
        /\ Cardinality(Behind(e)') \in Nat
    BY <2>3, BehindGrows
  <2>5. passed[e] + failed[e] <= Cardinality(Behind(e))
    BY <1>1, <2>1, <2>4 DEF CountInv
  <2>6. QED
    BY <1>1, <2>1, <2>4, <2>5
<1>6. ASSUME NEW e \in Calls, AddTagResult(e)
      PROVE  passed'[e] + failed'[e] <= Cardinality(Behind(e)') + (IF call'[e] = "judged" THEN 1 ELSE 0)
  <2>1. /\ call[e] = "judged" /\ call'[e] = "added" /\ e \in AtWork
        /\ passed' = passed /\ failed' = failed /\ pos' = pos
    BY <1>6 DEF IInv, TypeOK, AddTagResult, AtWork
  <2>2. pos[e] \in Tags /\ pos[e] \in Looked'
    BY <1>6, AddEffect DEF Looked
  <2>3. Behind(e) \cup {pos[e]} \subseteq Behind(e)' /\ pos[e] \notin Behind(e)
    BY <1>1, <2>1, <2>2, BehindGrows DEF Behind
  <2>4. Behind(e)' \in SUBSET Tags /\ Behind(e) \in SUBSET Tags
    BY <2>3, BehindGrows DEF Behind
  <2>5. Cardinality(Behind(e)) + 1 <= Cardinality(Behind(e)') /\ Cardinality(Behind(e)) \in Nat
        /\ Cardinality(Behind(e)') \in Nat
    <3>1. Cardinality(Behind(e) \cup {pos[e]}) = Cardinality(Behind(e)) + 1
      BY <2>2, <2>3, <2>4, TagSetsAdd
    <3>2. Cardinality(Behind(e) \cup {pos[e]}) <= Cardinality(Behind(e)')
      BY <2>3, <2>4, TagSets
    <3>3. QED
      BY <3>1, <3>2, BehindGrows
  <2>6. passed[e] + failed[e] <= Cardinality(Behind(e)) + 1
    BY <2>1 DEF CountInv
  <2>7. QED
    BY <1>1, <2>1, <2>5, <2>6
<1>7. ProgressNeverOverstates'
  <2>1. SUFFICES progress' <= Cardinality(Looked')
    BY DEF ProgressNeverOverstates, Looked
  <2>2. progress <= Cardinality(Looked) /\ progress \in Nat
    BY Bounds DEF CountInv, ProgressNeverOverstates, Looked, IInv, TypeOK
  <2>3. Cardinality(Looked) \in Nat /\ Cardinality(Looked') \in Nat /\ Cardinality(Looked) <= Cardinality(Looked')
    <3>1. Looked \in SUBSET Looked' /\ Looked' \in SUBSET Tags
      BY BehindGrows
    <3>2. QED
      BY <3>1, TagSets
  <2>4. CASE progress' = progress
    BY <2>2, <2>3, <2>4
  <2>5. CASE \E c \in Calls : UpdateRunProgress(c)
    <3>1. PICK c \in Calls : UpdateRunProgress(c)
      BY <2>5
    <3>2. c \in AtWork /\ call[c] = "added" /\ progress' \in {progress, passed[c] + failed[c]}
      BY <3>1 DEF UpdateRunProgress, AtWork
    <3>3. passed[c] + failed[c] <= Cardinality(Behind(c)) /\ Cardinality(Behind(c)) <= Cardinality(Looked)
          /\ Cardinality(Behind(c)) \in Nat
      BY <1>1, <3>2, BehindGrows DEF CountInv
    <3>4. QED
      BY <1>1, <2>2, <2>3, <3>2, <3>3
  <2>6. QED
    BY <2>4, <2>5 DEF Next, vars, row, CreateRun, Resume, JudgeTag, AddTagResult, FinishRun, Crash, Restart
<1>8. QED
  BY <1>4, <1>5, <1>6, <1>7 DEF CountInv, AtWork

-----------------------------------------------------------------------------
(* A run finished in one go *)

Alone   == \A c, d \in Calls : call[c] # "idle" /\ call[d] # "idle" => c = d
OkTags  == {t \in Tags : ok[t] > 0}
BadTags == {t \in Tags : bad[t] > 0}
InHand(c, v) == IF call[c] = "judged" /\ verdict[c] = v THEN 1 ELSE 0

\* The only call there has been skips no tag and counts every result it stores.
AloneInv ==
    \A c \in AtWork :
        /\ status = "running" /\ done[c] = {}
        /\ passed[c] + failed[c] = pos[c]
        /\ Cardinality(OkTags) + InHand(c, "ok") <= passed[c]
        /\ Cardinality(BadTags) + InHand(c, "bad") <= failed[c]

SoloInv ==
    /\ status = "none" <=> \A c \in Calls : call[c] = "idle"
    /\ Alone => AloneInv
    /\ FreshTotalsExact

LEMMA OneMore ==
    ASSUME NEW A \in SUBSET Tags, NEW B \in SUBSET Tags, NEW t \in Tags, B \subseteq A \cup {t}
    PROVE  Cardinality(A) \in Nat /\ Cardinality(B) \in Nat /\ Cardinality(B) <= Cardinality(A) + 1
<1>1. Cardinality(A) \in Nat /\ Cardinality(A \cup {t}) \in Nat /\ Cardinality(B) \in Nat
      /\ Cardinality(B) <= Cardinality(A \cup {t})
  <2>1. A \cup {t} \in SUBSET Tags /\ B \in SUBSET (A \cup {t}) /\ A \in SUBSET A
    OBVIOUS
  <2>2. QED
    BY <2>1, TagSets
<1>2. Cardinality(A \cup {t}) <= Cardinality(A) + 1
  BY TagSetsAdd
<1>3. QED
  BY <1>1, <1>2

LEMMA SoloStep == IInv /\ SoloInv /\ [Next]_vars => SoloInv'
<1> SUFFICES ASSUME IInv, SoloInv, [Next]_vars PROVE SoloInv'
  OBVIOUS
<1>0. /\ \A c \in Calls : pos[c] \in Nat /\ passed[c] \in Nat /\ failed[c] \in Nat
      /\ OkTags \in SUBSET Tags /\ BadTags \in SUBSET Tags
      /\ Cardinality(OkTags) \in Nat /\ Cardinality(BadTags) \in Nat
  <2>1. OkTags \in SUBSET Tags /\ BadTags \in SUBSET Tags /\ OkTags \in SUBSET OkTags /\ BadTags \in SUBSET BadTags
    BY DEF OkTags, BadTags
  <2>2. Cardinality(OkTags) \in Nat /\ Cardinality(BadTags) \in Nat
    BY <2>1, TagSets
  <2>3. QED
    BY Bounds, <2>1, <2>2 DEF IInv, TypeOK
\* A step after which the counts and the results are as they were.
<1>1. ASSUME UNCHANGED <<status, rowPassed, rowFailed, ok, bad>>,
             \A c \in Calls : call'[c] = "idle" <=> call[c] = "idle",
             \A c \in AtWork' : /\ c \in AtWork /\ done'[c] = done[c] /\ pos'[c] = pos[c]
                                /\ passed'[c] = passed[c] /\ failed'[c] = failed[c]
                                /\ call'[c] # "judged"
      PROVE  SoloInv'
  <2>1. Alone' = Alone
    BY <1>1 DEF Alone
  <2>2. OkTags' = OkTags /\ BadTags' = BadTags
    BY <1>1 DEF OkTags, BadTags
  <2>3. Alone => AloneInv'
    <3>1. \A c \in Calls : InHand(c, "ok") \in {0, 1} /\ InHand(c, "bad") \in {0, 1}
      BY DEF InHand
    <3>2. SUFFICES ASSUME Alone, NEW c \in Calls, c \in AtWork'
                   PROVE  /\ status' = "running" /\ done'[c] = {}
                          /\ passed'[c] + failed'[c] = pos'[c]
                          /\ Cardinality(OkTags') + InHand(c, "ok")' <= passed'[c]
                          /\ Cardinality(BadTags') + InHand(c, "bad")' <= failed'[c]
      BY DEF AloneInv, AtWork
    <3>3. /\ status = "running" /\ done[c] = {}
          /\ passed[c] + failed[c] = pos[c]
          /\ Cardinality(OkTags) + InHand(c, "ok") <= passed[c]
          /\ Cardinality(BadTags) + InHand(c, "bad") <= failed[c]
      BY <1>1, <3>2 DEF SoloInv, AloneInv
    <3>4. InHand(c, "ok")' = 0 /\ InHand(c, "bad")' = 0
      BY <1>1, <3>2 DEF InHand
    <3>5. Cardinality(OkTags) <= passed[c] /\ Cardinality(BadTags) <= failed[c]
      BY <1>0, <3>1, <3>3
    <3>6. QED
      BY <1>0, <1>1, <2>2, <3>2, <3>3, <3>4, <3>5
  <2>4. FreshTotalsExact'
    BY <1>1, <2>1, <2>2 DEF SoloInv, FreshTotalsExact, Alone, OkTags, BadTags
  <2>5. (status = "none" <=> \A c \in Calls : call[c] = "idle")'
    BY <1>1 DEF SoloInv
  <2>6. QED
    BY <2>1, <2>3, <2>4, <2>5 DEF SoloInv
<1>2. ASSUME NEW c \in Calls, CreateRun(c) PROVE SoloInv'
  <2>1. /\ \A d \in Calls : call[d] = "idle"
        /\ status' = "running" /\ call' = [call EXCEPT ![c] = "loop"]
        /\ OkTags' = {} /\ BadTags' = {}
    BY <1>2 DEF CreateRun, SoloInv, IInv, TypeOK, FreshInv, Stored, OkTags, BadTags, results
  <2>2. call'[c] = "loop" /\ \A d \in Calls : d # c => call'[d] = "idle"
    BY <2>1 DEF IInv, TypeOK
  <2>3. pos'[c] = 0 /\ done'[c] = {} /\ passed'[c] = 0 /\ failed'[c] = 0
    <3>1. c \notin AtWork
      BY <2>1 DEF AtWork
    <3>2. pos[c] = 0 /\ done[c] = {} /\ passed[c] + failed[c] <= 0
      BY <3>1 DEF IInv, CallInv
    <3>3. passed[c] = 0 /\ failed[c] = 0
      BY <1>0, <3>2
    <3>4. QED
      BY <1>2, <3>2, <3>3 DEF CreateRun
  <2>4. AloneInv'
    <3>1. \A d \in AtWork' : d = c
      BY <2>2 DEF AtWork
    <3>2. InHand(c, "ok")' = 0 /\ InHand(c, "bad")' = 0
      BY <2>2 DEF InHand
    <3>3. Cardinality(OkTags') = 0 /\ Cardinality(BadTags') = 0
      BY <2>1, FS_EmptySet
    <3>4. QED
      BY <2>1, <2>3, <3>1, <3>2, <3>3 DEF AloneInv
  <2>5. FreshTotalsExact'
    BY <2>1 DEF FreshTotalsExact
  <2>6. QED
    BY <2>1, <2>2, <2>4, <2>5 DEF SoloInv
\* A second call: from then on the run is not one finished in one go.
<1>3. ASSUME NEW c \in Calls, Resume(c) PROVE SoloInv'
  <2>1. PICK d \in Calls : call[d] # "idle"
    BY <1>3 DEF Resume, SoloInv
  <2>2. d # c /\ call'[c] = "loop" /\ call'[d] # "idle"
    BY <1>3, <2>1 DEF Resume, NextCall, IInv, TypeOK
  <2>3. ~Alone' /\ FreshTotalsExact'
    BY <2>2 DEF Alone, FreshTotalsExact
  <2>4. status' # "none"
    BY <1>3 DEF Resume, row
  <2>5. QED
    BY <2>2, <2>3, <2>4 DEF SoloInv
<1>4. ASSUME NEW c \in Calls, JudgeTag(c) PROVE SoloInv'
  <2>1. /\ c \in AtWork /\ call[c] = "loop" /\ call'[c] = "judged"
        /\ \A d \in Calls : d # c => /\ call'[d] = call[d]
        /\ UNCHANGED <<status, rowPassed, rowFailed, ok, bad, done>>
    BY <1>4 DEF JudgeTag, AtWork, IInv, TypeOK, row, results
  <2>2. Alone' = Alone
    <3>1. \A d \in Calls : call'[d] = "idle" <=> call[d] = "idle"
      BY <2>1
    <3>2. QED
      BY <3>1 DEF Alone
  <2>3. OkTags' = OkTags /\ BadTags' = BadTags
    BY <2>1 DEF OkTags, BadTags
  <2>4. PICK t \in Todo(c) : (\A u \in Todo(c) : t <= u) /\ pos' = [pos EXCEPT ![c] = t]
    BY <1>4 DEF JudgeTag
  <2>5. PICK v \in {"ok", "bad"} :
              /\ verdict' = [verdict EXCEPT ![c] = v]
              /\ passed' = [passed EXCEPT ![c] = IF v = "ok" THEN @ + 1 ELSE @]
              /\ failed' = [failed EXCEPT ![c] = IF v = "ok" THEN @ ELSE @ + 1]
    BY <1>4 DEF JudgeTag
  <2>6. Alone => AloneInv'
    <3>1. SUFFICES ASSUME Alone
                   PROVE  /\ status' = "running" /\ done'[c] = {}
                          /\ passed'[c] + failed'[c] = pos'[c]
                          /\ Cardinality(OkTags') + InHand(c, "ok")' <= passed'[c]
                          /\ Cardinality(BadTags') + InHand(c, "bad")' <= failed'[c]
      <4>1. Alone => \A d \in AtWork' : d = c
        BY <2>1, <2>2 DEF Alone, AtWork
      <4>2. QED
        BY <3>1, <4>1 DEF AloneInv
    <3>2. /\ status = "running" /\ done[c] = {}
          /\ passed[c] + failed[c] = pos[c]
          /\ Cardinality(OkTags) <= passed[c] /\ Cardinality(BadTags) <= failed[c]
      <4>1. InHand(c, "ok") = 0 /\ InHand(c, "bad") = 0
        BY <2>1 DEF InHand
      <4>2. QED
        BY <1>0, <2>1, <3>1, <4>1 DEF SoloInv, AloneInv
    <3>3. pos'[c] = pos[c] + 1
      <4>1. t \in Tags /\ t > pos[c] /\ \A u \in Tags : u > pos[c] => t <= u
        BY <2>4, <3>2 DEF Todo
      <4>2. pos[c] + 1 \in Tags /\ pos[c] + 1 > pos[c] /\ t >= pos[c] + 1 /\ t \in Nat
        BY <1>0, <4>1, NumTagsAssumption DEF Tags
      <4>3. t = pos[c] + 1
        BY <1>0, <4>1, <4>2
      <4>4. QED
        BY <2>4, <4>3 DEF IInv, TypeOK
    <3>4. /\ passed'[c] = IF v = "ok" THEN passed[c] + 1 ELSE passed[c]
          /\ failed'[c] = IF v = "ok" THEN failed[c] ELSE failed[c] + 1
          /\ verdict'[c] = v
      BY <2>5 DEF IInv, TypeOK
    <3>5. /\ InHand(c, "ok")' = IF v = "ok" THEN 1 ELSE 0
          /\ InHand(c, "bad")' = IF v = "ok" THEN 0 ELSE 1
      BY <2>1, <2>5, <3>4 DEF InHand
    <3>6. QED
      BY <1>0, <2>1, <2>3, <3>2, <3>3, <3>4, <3>5
  <2>7. FreshTotalsExact'
    BY <2>1, <2>2, <2>3 DEF SoloInv, FreshTotalsExact, Alone, OkTags, BadTags
  <2>8. (status = "none" <=> \A d \in Calls : call[d] = "idle")'
    BY <2>1 DEF SoloInv
  <2>9. QED
    BY <2>2, <2>6, <2>7, <2>8 DEF SoloInv
<1>5. ASSUME NEW c \in Calls, AddTagResult(c) PROVE SoloInv'
  <2>1. /\ c \in AtWork /\ call[c] = "judged" /\ call'[c] = "added"
        /\ \A d \in Calls : d # c => call'[d] = call[d]
        /\ UNCHANGED <<status, rowPassed, rowFailed, pos, done, passed, failed>>
        /\ pos[c] \in Tags
    BY <1>5, AddEffect DEF AddTagResult, AtWork, IInv, TypeOK, row
  <2>2. Alone' = Alone
    <3>1. \A d \in Calls : call'[d] = "idle" <=> call[d] = "idle"
      BY <2>1
    <3>2. QED
      BY <3>1 DEF Alone
  <2>3. Alone => status = "running" /\ status' = "running"
    BY <2>1 DEF SoloInv, AloneInv
  <2>4. /\ Cardinality(OkTags') <= Cardinality(OkTags) + InHand(c, "ok")
        /\ Cardinality(BadTags') <= Cardinality(BadTags) + InHand(c, "bad")
        /\ Cardinality(OkTags') \in Nat /\ Cardinality(BadTags') \in Nat
    <3>1. verdict[c] \in {"ok", "bad"}
      BY DEF IInv, TypeOK
    <3>2. OkTags' \in SUBSET Tags /\ BadTags' \in SUBSET Tags
      BY DEF OkTags, BadTags
    <3>3. \/ OkTags' = OkTags /\ BadTags' = BadTags
          \/ verdict[c] = "ok" /\ OkTags' \subseteq OkTags \cup {pos[c]} /\ BadTags' = BadTags
          \/ verdict[c] = "bad" /\ BadTags' \subseteq BadTags \cup {pos[c]} /\ OkTags' = OkTags
      BY <1>5, <3>1 DEF AddTagResult, OkTags, BadTags, results, IInv, TypeOK
    <3>4. /\ verdict[c] = "ok" => InHand(c, "ok") = 1 /\ InHand(c, "bad") = 0
          /\ verdict[c] = "bad" => InHand(c, "ok") = 0 /\ InHand(c, "bad") = 1
      BY <2>1 DEF InHand
    <3>5. CASE OkTags' = OkTags /\ BadTags' = BadTags
      BY <1>0, <3>1, <3>4, <3>5
    <3>6. CASE verdict[c] = "ok" /\ OkTags' \subseteq OkTags \cup {pos[c]} /\ BadTags' = BadTags
      <4>1. Cardinality(OkTags') <= Cardinality(OkTags) + 1 /\ Cardinality(OkTags') \in Nat
        BY <1>0, <2>1, <3>2, <3>6, OneMore
      <4>2. QED
        BY <1>0, <3>4, <3>6, <4>1
    <3>7. CASE verdict[c] = "bad" /\ BadTags' \subseteq BadTags \cup {pos[c]} /\ OkTags' = OkTags
      <4>1. Cardinality(BadTags') <= Cardinality(BadTags) + 1 /\ Cardinality(BadTags') \in Nat
        BY <1>0, <2>1, <3>2, <3>7, OneMore
      <4>2. QED
        BY <1>0, <3>4, <3>7, <4>1
    <3>8. QED
      BY <3>3, <3>5, <3>6, <3>7
  <2>5. Alone => AloneInv'
    <3>1. Alone => \A d \in AtWork' : d = c
      BY <2>1, <2>2 DEF Alone, AtWork
    <3>2. InHand(c, "ok")' = 0 /\ InHand(c, "bad")' = 0
      BY <2>1 DEF InHand
    <3>3. InHand(c, "ok") \in Nat /\ InHand(c, "bad") \in Nat
      BY DEF InHand
    <3>4. Alone => /\ done[c] = {} /\ passed[c] + failed[c] = pos[c]
                   /\ Cardinality(OkTags) + InHand(c, "ok") <= passed[c]
                   /\ Cardinality(BadTags) + InHand(c, "bad") <= failed[c]
      BY <2>1 DEF SoloInv, AloneInv
    <3>5. Alone => /\ Cardinality(OkTags') + 0 <= passed[c]
                   /\ Cardinality(BadTags') + 0 <= failed[c]
      BY <1>0, <2>4, <3>3, <3>4
    <3>6. QED
      BY <2>1, <2>3, <3>1, <3>2, <3>4, <3>5 DEF AloneInv
  <2>6. FreshTotalsExact'
    BY <2>1, <2>2, <2>3 DEF FreshTotalsExact, Alone
  <2>7. (status = "none" <=> \A d \in Calls : call[d] = "idle")'
    BY <2>1 DEF SoloInv
  <2>8. QED
    BY <2>2, <2>5, <2>6, <2>7 DEF SoloInv
<1>6. ASSUME NEW c \in Calls, UpdateRunProgress(c) PROVE SoloInv'
  <2>1. /\ UNCHANGED <<status, rowPassed, rowFailed, ok, bad, done, pos, passed, failed>>
        /\ call[c] = "added" /\ call' = [call EXCEPT ![c] = "loop"]
    BY <1>6 DEF UpdateRunProgress, results
  <2>2. call'[c] = "loop" /\ \A d \in Calls : d # c => call'[d] = call[d]
    BY <2>1 DEF IInv, TypeOK
  <2>3. Alone' = Alone
    BY <2>1, <2>2 DEF Alone
  <2>4. OkTags' = OkTags /\ BadTags' = BadTags
    BY <2>1 DEF OkTags, BadTags
  <2>5. AtWork' = AtWork
    BY <2>1, <2>2 DEF AtWork
  <2>6. \A d \in Calls : InHand(d, "ok")' = InHand(d, "ok") /\ InHand(d, "bad")' = InHand(d, "bad")
    BY <1>6, <2>1, <2>2 DEF InHand, UpdateRunProgress
  <2>7. Alone => AloneInv'
    BY <2>1, <2>4, <2>5, <2>6 DEF SoloInv, AloneInv, AtWork
  <2>8. FreshTotalsExact'
    BY <2>1, <2>3, <2>4 DEF SoloInv, FreshTotalsExact, Alone, OkTags, BadTags
  <2>9. (status = "none" <=> \A d \in Calls : call[d] = "idle")'
    BY <2>1, <2>2 DEF SoloInv
  <2>10. QED
    BY <2>3, <2>7, <2>8, <2>9 DEF SoloInv
<1>7. ASSUME NEW c \in Calls, FinishRun(c) PROVE SoloInv'
  <2>1. /\ c \in AtWork /\ call[c] = "loop" /\ call'[c] = "over"
        /\ \A d \in Calls : d # c => call'[d] = call[d]
        /\ ok' = ok /\ bad' = bad /\ Todo(c) = {}
    BY <1>7 DEF FinishRun, Return, AtWork, IInv, TypeOK, results
  <2>2. Alone' = Alone
    <3>1. \A d \in Calls : call'[d] = "idle" <=> call[d] = "idle"
      BY <2>1
    <3>2. QED
      BY <3>1 DEF Alone
  <2>3. OkTags' = OkTags /\ BadTags' = BadTags
    BY <2>1 DEF OkTags, BadTags
  <2>4. status' # "none" /\ status # "none"
    BY <1>7, <2>1 DEF FinishRun, IInv, CallInv
  <2>5. Alone => AloneInv'
    <3>1. Alone => AtWork' = {}
      BY <2>1 DEF Alone, AtWork
    <3>2. QED
      BY <3>1 DEF AloneInv
  <2>6. ASSUME Alone, status' = "finished"
        PROVE  /\ rowPassed' + rowFailed' = NumTags
               /\ Cardinality(OkTags) <= rowPassed' /\ Cardinality(BadTags) <= rowFailed'
    <3>1. InHand(c, "ok") = 0 /\ InHand(c, "bad") = 0
      BY <2>1 DEF InHand
    <3>2. /\ status = "running" /\ done[c] = {} /\ passed[c] + failed[c] = pos[c]
          /\ Cardinality(OkTags) <= passed[c] /\ Cardinality(BadTags) <= failed[c]
      BY <1>0, <2>1, <2>6, <3>1 DEF SoloInv, AloneInv
    <3>3. rowPassed' = passed[c] /\ rowFailed' = failed[c]
      BY <1>7, <2>6, <3>2 DEF FinishRun
    <3>4. pos[c] = NumTags
      <4>1. \A t \in Tags : ~ t > pos[c]
        BY <2>1, <3>2 DEF Todo
      <4>2. pos[c] \in 0 .. NumTags
        BY DEF IInv, TypeOK
      <4>3. QED
        BY <4>1, <4>2, NumTagsAssumption DEF Tags
    <3>5. QED
      BY <3>2, <3>3, <3>4
  <2>7. FreshTotalsExact'
    BY <2>2, <2>3, <2>6 DEF FreshTotalsExact, Alone, OkTags, BadTags
  <2>8. QED
    BY <2>1, <2>2, <2>4, <2>5, <2>7 DEF SoloInv
<1>8. CASE Crash
  <2>1. \A c \in Calls : call'[c] = IF c \in AtWork THEN "over" ELSE call[c]
    BY <1>8 DEF Crash
  <2>2. AtWork' = {} /\ \A c \in Calls : call'[c] = "idle" <=> call[c] = "idle"
    BY <2>1 DEF AtWork
  <2>3. UNCHANGED <<status, rowPassed, rowFailed, ok, bad>>
    BY <1>8 DEF Crash, row, results
  <2>4. QED
    BY <1>1, <2>2, <2>3
<1>9. CASE Restart \/ UNCHANGED vars
  <2>1. UNCHANGED <<status, rowPassed, rowFailed, ok, bad, call, pos, done, verdict, passed, failed>>
    BY <1>9 DEF Restart, vars, row, results, local
  <2>2. QED
    BY <2>1 DEF SoloInv, Alone, AloneInv, FreshTotalsExact, OkTags, BadTags, AtWork, InHand
<1>10. QED
  BY <1>2, <1>3, <1>4, <1>5, <1>6, <1>7, <1>8, <1>9 DEF Next

-----------------------------------------------------------------------------
(* The theorems *)

LEMMA InvInit == Init => IInv
<1> SUFFICES ASSUME Init PROVE IInv
  OBVIOUS
<1>1. TypeOK
  BY TypeInit
<1>2. CallInv /\ FreshInv /\ ScanInv /\ SoleInv
  BY DEF Init, CallInv, FreshInv, ScanInv, SoleInv, AtWork, Stored
<1>3. NoTagTwice /\ FinishedMeansAll
  BY DEF Init, NoTagTwice, FinishedMeansAll
<1>4. QED
  BY <1>1, <1>2, <1>3 DEF IInv

LEMMA Invariance == Spec => []IInv
<1>1. IInv /\ [Next]_vars => IInv'
  BY TypeStep, CallStep, FreshStep, ScanStep, SoleStep, OnceStep, FinishStep DEF IInv
<1>2. QED
  BY InvInit, <1>1, PTL DEF Spec

\* Type correctness; in particular progress, passed and failed stay within the
\* number of tags, whatever resumes and overlaps.
THEOREM TypeCorrect == Spec => []TypeOK
<1>1. IInv => TypeOK
  BY DEF IInv
<1>2. QED
  BY Invariance, <1>1, PTL

\* Crashes and resumes one after the other never store two results of one tag.
THEOREM OnceHolds == Spec => []NoTagTwice
<1>1. IInv => NoTagTwice
  BY DEF IInv
<1>2. QED
  BY Invariance, <1>1, PTL

\* A finished run has a result of every tag, but for those the store refused.
THEOREM FinishedHolds == Spec => []FinishedMeansAll
<1>1. IInv => FinishedMeansAll
  BY DEF IInv
<1>2. QED
  BY Invariance, <1>1, PTL

\* Whatever fails, crashes, resumes or overlaps, progress is never more than the
\* tags with a result, stored or refused by the store.
THEOREM ProgressHolds == Spec => []ProgressNeverOverstates
<1>1. Init => CountInv
  <2> SUFFICES ASSUME Init PROVE CountInv
    OBVIOUS
  <2>1. progress = 0 /\ AtWork = {} /\ Looked \in SUBSET Tags
    BY DEF Init, AtWork, Looked, Stored
  <2>2. Looked \in SUBSET Looked
    OBVIOUS
  <2>3. Cardinality(Looked) \in Nat
    BY <2>1, <2>2, TagSets
  <2>4. ProgressNeverOverstates
    BY <2>1, <2>3 DEF ProgressNeverOverstates, Looked
  <2>5. QED
    BY <2>1, <2>4 DEF CountInv
<1>2. CountInv => ProgressNeverOverstates
  BY DEF CountInv
<1>3. QED
  BY Invariance, <1>1, <1>2, CountStep, PTL DEF Spec

\* A run that one call has created and finished counts every tag once, and at
\* least as many of each verdict as are stored.
THEOREM FreshTotalsHold == Spec => []FreshTotalsExact
<1>1. Init => SoloInv
  BY DEF Init, SoloInv, AloneInv, FreshTotalsExact, AtWork
<1>2. SoloInv => FreshTotalsExact
  BY DEF SoloInv
<1>3. QED
  BY Invariance, <1>1, <1>2, SoloStep, PTL DEF Spec

(***************************************************************************)
(* What is left of ProgressNeverFalls, which fails at every resume.        *)
(***************************************************************************)

\* As long as the run is in the hands of the call that created it, through
\* every crash and failing statement, progress does not fall.
ProgressFallsOnlyAfterResume == [][Alone' => progress' >= progress]_vars

\* The only call there has been has counted at least what it wrote.
WrittenInv ==
    /\ status = "none" => progress = 0
    /\ Alone => \A c \in AtWork : progress <= passed[c] + failed[c]

LEMMA WrittenStep ==
    ASSUME IInv, SoloInv, WrittenInv, [Next]_vars
    PROVE  WrittenInv' /\ (Alone' => progress' >= progress)
<1>0. /\ progress \in Nat
      /\ \A c \in Calls : passed[c] \in Nat /\ failed[c] \in Nat
  BY Bounds DEF IInv, TypeOK
<1>1. ASSUME NEW c \in Calls, CreateRun(c)
      PROVE  WrittenInv' /\ (Alone' => progress' >= progress)
  <2>1. /\ progress = 0 /\ progress' = 0 /\ status' = "running"
        /\ passed' = passed /\ failed' = failed
    BY <1>1 DEF CreateRun, WrittenInv
  <2>2. \A d \in Calls : passed'[d] + failed'[d] >= 0
    BY <1>0, <2>1
  <2> QED
    BY <1>0, <2>1, <2>2 DEF WrittenInv, AtWork
<1>2. ASSUME NEW c \in Calls, Resume(c)
      PROVE  WrittenInv' /\ (Alone' => progress' >= progress)
  <2>1. PICK d \in Calls : call[d] # "idle"
    BY <1>2 DEF Resume, SoloInv
  <2>2. d # c /\ call'[c] = "loop" /\ call'[d] # "idle"
    BY <1>2, <2>1 DEF Resume, NextCall, IInv, TypeOK
  <2>3. ~Alone' /\ status' # "none"
    BY <1>2, <2>2 DEF Alone, Resume, row
  <2> QED
    BY <2>3 DEF WrittenInv
<1>3. ASSUME NEW c \in Calls, JudgeTag(c) \/ AddTagResult(c) \/ UpdateRunProgress(c) \/ FinishRun(c)
      PROVE  WrittenInv' /\ (Alone' => progress' >= progress)
  <2>1. /\ c \in AtWork /\ status # "none" /\ status' # "none"
        /\ \A d \in Calls : d # c => call'[d] = call[d]
        /\ call[c] # "idle" /\ call'[c] # "idle"
    BY <1>3 DEF JudgeTag, AddTagResult, UpdateRunProgress, FinishRun, Return, AtWork, IInv,
                TypeOK, CallInv, row
  <2>2. Alone' = Alone
    <3>1. \A d \in Calls : call'[d] = "idle" <=> call[d] = "idle"
      BY <2>1
    <3> QED
      BY <3>1 DEF Alone
  <2>3. Alone => \A d \in AtWork' : d = c
    BY <2>1 DEF Alone, AtWork
  <2>4. Alone => progress <= passed[c] + failed[c]
    BY <2>1 DEF WrittenInv
  <2>5. CASE JudgeTag(c)
    <3>1. progress' = progress
      BY <2>5 DEF JudgeTag, row
    <3>2. PICK v \in {"ok", "bad"} :
                /\ passed' = [passed EXCEPT ![c] = IF v = "ok" THEN @ + 1 ELSE @]
                /\ failed' = [failed EXCEPT ![c] = IF v = "ok" THEN @ ELSE @ + 1]
      BY <2>5 DEF JudgeTag
    <3>3. passed'[c] + failed'[c] = passed[c] + failed[c] + 1
      BY <1>0, <3>2 DEF IInv, TypeOK
    <3>4. Alone => progress' <= passed'[c] + failed'[c]
      BY <1>0, <2>4, <3>1, <3>3
    <3> QED
      BY <1>0, <2>1, <2>2, <2>3, <3>1, <3>4 DEF WrittenInv
  <2>6. CASE AddTagResult(c)
    <3>1. progress' = progress /\ passed' = passed /\ failed' = failed
      BY <2>6 DEF AddTagResult, row
    <3> QED
      BY <1>0, <2>1, <2>2, <2>3, <2>4, <3>1 DEF WrittenInv
  <2>7. CASE UpdateRunProgress(c)
    <3>1. /\ progress' \in {progress, passed[c] + failed[c]}
          /\ passed' = passed /\ failed' = failed
      BY <2>7 DEF UpdateRunProgress
    <3>2. Alone => progress <= progress' /\ progress' <= passed'[c] + failed'[c]
      BY <1>0, <2>4, <3>1
    <3> QED
      BY <2>1, <2>2, <2>3, <3>2 DEF WrittenInv
  <2>8. CASE FinishRun(c)
    <3>1. progress' = progress /\ call'[c] = "over"
      BY <2>8 DEF FinishRun, Return, IInv, TypeOK
    <3>2. Alone => AtWork' = {}
      BY <2>3, <3>1 DEF AtWork
    <3> QED
      BY <1>0, <2>1, <2>2, <3>1, <3>2 DEF WrittenInv
  <2> QED
    BY <1>3, <2>5, <2>6, <2>7, <2>8
<1>4. CASE Crash
  <2>1. /\ \A c \in Calls : call'[c] = IF c \in AtWork THEN "over" ELSE call[c]
        /\ progress' = progress /\ status' = status
    BY <1>4 DEF Crash, row
  <2>2. AtWork' = {}
    BY <2>1 DEF AtWork
  <2> QED
    BY <1>0, <2>1, <2>2 DEF WrittenInv
<1>5. CASE Restart \/ UNCHANGED vars
  <2>1. UNCHANGED <<status, progress, call, passed, failed>>
    BY <1>5 DEF Restart, vars, row, local
  <2>2. Alone' = Alone /\ AtWork' = AtWork
    BY <2>1 DEF Alone, AtWork
  <2> QED
    BY <1>0, <2>1, <2>2 DEF WrittenInv
<1> QED
  BY <1>1, <1>2, <1>3, <1>4, <1>5 DEF Next

\* The code's UpdateRunProgress writes the count of its own call, which a
\* resume starts from zero: that is the one way progress falls.  However the
\* first call is interrupted, and whatever the store refuses, it only grows.
THEOREM ProgressGrowsUntilResumed == Spec => ProgressFallsOnlyAfterResume
<1>1. Init => SoloInv /\ WrittenInv
  BY DEF Init, SoloInv, AloneInv, FreshTotalsExact, AtWork, WrittenInv
<1>2. IInv /\ SoloInv /\ WrittenInv /\ [Next]_vars => WrittenInv' /\ [Alone' => progress' >= progress]_vars
  BY WrittenStep
<1>3. QED
  BY Invariance, <1>1, <1>2, SoloStep, PTL DEF Spec, ProgressFallsOnlyAfterResume
=============================================================================
