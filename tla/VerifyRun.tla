----------------------------- MODULE VerifyRun -----------------------------
(***************************************************************************)
(* One verification run: the row in runs, its rows in tag_results, and the  *)
(* calls of verify.RunVerification that work on it.  The first call creates *)
(* it, any later one resumes it, also while another is still at work; the   *)
(* application may crash and come back between two statements, and each     *)
(* statement of the store may fail, which the code logs or ignores.         *)
(*                                                                         *)
(* Tags are numbered in the order of mock.SupportedTypes.                   *)
(***************************************************************************)
EXTENDS Naturals, FiniteSets

CONSTANTS
    NumTags,        \* tags to verify: one for each type with a writable tag
    MaxCalls        \* bound: calls of RunVerification

ASSUME NumTagsAssumption == NumTags \in Nat
ASSUME MaxCallsAssumption == MaxCalls \in Nat

Tags  == 1 .. NumTags
Calls == 1 .. MaxCalls

VARIABLES
    up,         \* the application runs
    status,     \* the run's row: status, "none" before the INSERT,
    rowPassed,  \* passed,
    rowFailed,  \* failed
    progress,   \* and progress
    ok,         \* rows of tag_results that say ok, by tag
    bad,        \* and those that do not
    call,       \* how far a call has got
    pos,        \* the tag it is at
    done,       \* what DoneTags told it
    verdict,    \* its verdict on that tag
    passed,     \* result.Passed
    failed,     \* result.Failed
    unsaved,    \* tags with a result whose INSERT failed (history)
    overlapped, \* two calls have been at work together (history)
    misread     \* DoneTags has returned less than there is (history)

local   == <<call, pos, done, verdict, passed, failed>>
results == <<ok, bad>>
history == <<unsaved, overlapped, misread>>
row     == <<status, rowPassed, rowFailed, progress>>
vars    == <<up, row, results, local, history>>

TypeOK ==
    /\ up \in BOOLEAN
    /\ status \in {"none", "running", "finished"}
    /\ rowPassed \in 0 .. NumTags /\ rowFailed \in 0 .. NumTags
    /\ progress \in 0 .. NumTags
    /\ ok \in [Tags -> Nat] /\ bad \in [Tags -> Nat]
    /\ call \in [Calls -> {"idle", "loop", "judged", "added", "over"}]
    /\ pos \in [Calls -> 0 .. NumTags]
    /\ done \in [Calls -> SUBSET Tags]
    /\ verdict \in [Calls -> {"ok", "bad"}]
    /\ passed \in [Calls -> 0 .. NumTags] /\ failed \in [Calls -> 0 .. NumTags]
    /\ unsaved \subseteq Tags
    /\ overlapped \in BOOLEAN /\ misread \in BOOLEAN

Init ==
    /\ up = TRUE
    /\ status = "none"
    /\ rowPassed = 0 /\ rowFailed = 0 /\ progress = 0
    /\ ok = [t \in Tags |-> 0] /\ bad = [t \in Tags |-> 0]
    /\ call = [c \in Calls |-> "idle"]
    /\ pos = [c \in Calls |-> 0]
    /\ done = [c \in Calls |-> {}]
    /\ verdict = [c \in Calls |-> "bad"]
    /\ passed = [c \in Calls |-> 0] /\ failed = [c \in Calls |-> 0]
    /\ unsaved = {}
    /\ overlapped = FALSE /\ misread = FALSE

\* Calls are numbered in the order they are made.
NextCall(c) == call[c] = "idle" /\ \A b \in Calls : b < c => call[b] # "idle"

Stored == {t \in Tags : ok[t] + bad[t] > 0}
AtWork == {c \in Calls : call[c] \in {"loop", "judged", "added"}}

-----------------------------------------------------------------------------
(* RunVerification *)

\* CreateRun.  (When its INSERT fails the call goes on under run id 0, and
\* has nothing to do with this run.)
CreateRun(c) ==
    /\ up
    /\ NextCall(c)
    /\ status = "none"
    /\ status' = "running"
    /\ call' = [call EXCEPT ![c] = "loop"]
    /\ UNCHANGED <<up, rowPassed, rowFailed, progress, results, pos, done, verdict, passed, failed, history>>

\* Mutant: the tags to skip are taken from runs.progress.
ResumeByProgress(c) ==
    /\ up
    /\ NextCall(c)
    /\ status # "none"
    /\ done' = [done EXCEPT ![c] = 1 .. progress]
    /\ call' = [call EXCEPT ![c] = "loop"]
    /\ overlapped' = (overlapped \/ AtWork # {})
    /\ UNCHANGED <<up, row, results, pos, verdict, passed, failed, unsaved, misread>>

\* DoneTags swallows the errors of its query: the set may be too small.  The
\* row is not touched, and the counts of this call start from zero.
Resume(c) ==
    /\ up
    /\ NextCall(c)
    /\ status # "none"
    /\ \E d \in SUBSET Stored :
          /\ done' = [done EXCEPT ![c] = d]
          /\ misread' = (misread \/ d # Stored)
    /\ call' = [call EXCEPT ![c] = "loop"]
    /\ overlapped' = (overlapped \/ AtWork # {})
    /\ UNCHANGED <<up, row, results, pos, verdict, passed, failed, unsaved>>

Todo(c) == {t \in Tags : t > pos[c] /\ t \notin done[c]}

\* Mutant: progress is written before the result.
JudgeTagProgress(c) ==
    /\ call[c] = "loop"
    /\ \E t \in Todo(c) :
          /\ \A u \in Todo(c) : t <= u
          /\ pos' = [pos EXCEPT ![c] = t]
    /\ \E v \in {"ok", "bad"} :
          /\ verdict' = [verdict EXCEPT ![c] = v]
          /\ passed' = [passed EXCEPT ![c] = IF v = "ok" THEN @ + 1 ELSE @]
          /\ failed' = [failed EXCEPT ![c] = IF v = "ok" THEN @ ELSE @ + 1]
    /\ call' = [call EXCEPT ![c] = "judged"]
    /\ progress' = passed[c] + failed[c] + 1
    /\ UNCHANGED <<up, status, rowPassed, rowFailed, results, done, history>>

\* Mutant: only good verdicts are counted.
JudgeTagCountsGood(c) ==
    /\ call[c] = "loop"
    /\ \E t \in Todo(c) :
          /\ \A u \in Todo(c) : t <= u
          /\ pos' = [pos EXCEPT ![c] = t]
    /\ \E v \in {"ok", "bad"} :
          /\ verdict' = [verdict EXCEPT ![c] = v]
          /\ passed' = [passed EXCEPT ![c] = IF v = "ok" THEN @ + 1 ELSE @]
    /\ call' = [call EXCEPT ![c] = "judged"]
    /\ UNCHANGED <<up, row, results, done, failed, history>>

\* verifyOneTag, whose errors all end in a verdict, and the counts.
JudgeTag(c) ==
    /\ call[c] = "loop"
    /\ \E t \in Todo(c) :
          /\ \A u \in Todo(c) : t <= u
          /\ pos' = [pos EXCEPT ![c] = t]
    /\ \E v \in {"ok", "bad"} :
          /\ verdict' = [verdict EXCEPT ![c] = v]
          /\ passed' = [passed EXCEPT ![c] = IF v = "ok" THEN @ + 1 ELSE @]
          /\ failed' = [failed EXCEPT ![c] = IF v = "ok" THEN @ ELSE @ + 1]
    /\ call' = [call EXCEPT ![c] = "judged"]
    /\ UNCHANGED <<up, row, results, done, history>>

\* AddTagResult; a failing INSERT is logged, and the loop goes on.
AddTagResult(c) ==
    /\ call[c] = "judged"
    /\ \/ /\ ok'  = IF verdict[c] = "ok" THEN [ok EXCEPT ![pos[c]] = @ + 1] ELSE ok
          /\ bad' = IF verdict[c] = "ok" THEN bad ELSE [bad EXCEPT ![pos[c]] = @ + 1]
          /\ UNCHANGED unsaved
       \/ /\ unsaved' = unsaved \cup {pos[c]}
          /\ UNCHANGED results
    /\ call' = [call EXCEPT ![c] = "added"]
    /\ verdict' = [verdict EXCEPT ![c] = "bad"]
    /\ UNCHANGED <<up, row, pos, done, passed, failed, overlapped, misread>>

\* Mutant: the count of this call is added to what earlier calls wrote.
UpdateRunProgressAdds(c) ==
    /\ call[c] = "added"
    /\ call' = [call EXCEPT ![c] = "loop"]
    /\ progress' = progress + passed[c] + failed[c]
    /\ UNCHANGED <<up, status, rowPassed, rowFailed, results, pos, done, verdict, passed, failed, history>>

\* UpdateRunProgress(result.Total); the store drops its error.
UpdateRunProgress(c) ==
    /\ call[c] = "added"
    /\ call' = [call EXCEPT ![c] = "loop"]
    /\ progress' \in {progress, passed[c] + failed[c]}
    /\ UNCHANGED <<up, status, rowPassed, rowFailed, results, pos, done, verdict, passed, failed, history>>

\* The call is over and its variables are gone.
Return(c) ==
    /\ call' = [call EXCEPT ![c] = "over"]
    /\ pos' = [pos EXCEPT ![c] = 0]
    /\ done' = [done EXCEPT ![c] = {}]
    /\ passed' = [passed EXCEPT ![c] = 0]
    /\ failed' = [failed EXCEPT ![c] = 0]
    /\ UNCHANGED verdict

\* Mutant: the loop stops one type short.
FinishRunEarly(c) ==
    /\ call[c] = "loop"
    /\ Todo(c) \subseteq {NumTags}
    /\ status' = "finished"
    /\ rowPassed' = passed[c] /\ rowFailed' = failed[c]
    /\ Return(c)
    /\ UNCHANGED <<up, progress, results, history>>

\* FinishRun drops its error too.
FinishRun(c) ==
    /\ call[c] = "loop"
    /\ Todo(c) = {}
    /\ \/ status' = "finished" /\ rowPassed' = passed[c] /\ rowFailed' = failed[c]
       \/ UNCHANGED <<status, rowPassed, rowFailed>>
    /\ Return(c)
    /\ UNCHANGED <<up, progress, results, history>>

-----------------------------------------------------------------------------
\* The calls at work are lost; nothing is done for the run at the next start.
Crash ==
    /\ up
    /\ up' = FALSE
    /\ LET Lose(f, v) == [c \in Calls |-> IF c \in AtWork THEN v ELSE f[c]]
       IN  /\ call' = Lose(call, "over")
           /\ pos' = Lose(pos, 0)
           /\ done' = Lose(done, {})
           /\ verdict' = Lose(verdict, "bad")
           /\ passed' = Lose(passed, 0) /\ failed' = Lose(failed, 0)
    /\ UNCHANGED <<row, results, history>>

Restart ==
    /\ ~up
    /\ up' = TRUE
    /\ UNCHANGED <<row, results, local, history>>

Next ==
    \/ \E c \in Calls :
          \/ CreateRun(c) \/ Resume(c)
          \/ JudgeTag(c) \/ AddTagResult(c) \/ UpdateRunProgress(c) \/ FinishRun(c)
    \/ Crash \/ Restart

Spec == Init /\ [][Next]_vars

-----------------------------------------------------------------------------
(* Properties *)

\* Whatever crashed in between, a resumed run verifies no stored tag again:
\* two results of one tag need two calls at work together or a DoneTags that
\* failed.
NoTagTwice == ~overlapped /\ ~misread => \A t \in Tags : ok[t] + bad[t] <= 1

\* A run that says "finished" has looked at every tag: the result of each is
\* stored, or the store refused it.
FinishedMeansAll == status = "finished" => Tags \subseteq Stored \cup unsaved

\* progress never promises more than there is, under crashes, resumes and
\* overlapping calls.
ProgressNeverOverstates == progress <= Cardinality(Stored \cup unsaved)

\* The totals of a run finished in one go are those of its results.
FreshTotalsExact ==
    status = "finished" /\ (\A c, d \in Calls : call[c] # "idle" /\ call[d] # "idle" => c = d)
        => /\ rowPassed + rowFailed = NumTags
           /\ Cardinality({t \in Tags : ok[t] > 0}) <= rowPassed
           /\ Cardinality({t \in Tags : bad[t] > 0}) <= rowFailed

\* store.go: "崩溃恢复:runs.progress 记已验证 tag 数", progress is the number of
\* tags verified so far; results are never deleted, so it should not fall when
\* one call takes over from another.
ProgressNeverFalls ==
    [][~overlapped' /\ ~misread' => progress' >= progress]_vars
=============================================================================
