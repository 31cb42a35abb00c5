------------------------------ MODULE CasesUa3 ------------------------------
(***************************************************************************)
(* Chapter UA-3: values as they are collected, read, written and kept       *)
(* (ua3_runtime.py, ua3_precise.py, ua3_extra.py).  Half of these cases     *)
(* create their tag without a node, "loose", and then wait for a value.     *)
(***************************************************************************)
EXTENDS CasesCreate

LOCAL T == {"types", "mock"}
LOCAL Value(x) == Sample({x} \cup T)           \* rt_row of a tag on "types"
LOCAL Within(x, steps, v) == Body(<<Need(T), Born(x)>>, steps \o <<Return(v)>>, <<Cleanup(x)>>)
LOCAL Valued(x, steps, v) == Within(x, <<Value(x)>> \o steps, v)
LOCAL Pair(steps, v) ==
    Body(<<Need(T), Born("loose"), Born("loose2")>>, steps \o <<Return(v)>>,
         <<Cleanup("loose"), Cleanup("loose2")>>)
LOCAL OrBlocked(script) == [script EXCEPT !.onAssert = "BLOCKED"]
\* stop_mock and start_mock without the context, wait_ready with it.
LOCAL Stopped == Call("off", {"local"})
LOCAL Started == <<Call("on", {"local"}), See("active", {"mock"})>>
\* HistoryFixtureFactory: what is imported is not waited for, but verified.
CreateImportDataset == Read
CreateWriteDataset(x) == Call("write", {x})
VerifyHistory(x) == Look({x})
\* A query that has to be refused, like a write to nothing, changes nothing.
LOCAL RefusedQuery == <<Try("write", {"void"}), Refused>>

(***************************************************************************)
(* UA-3-1: collecting.                                                      *)
(***************************************************************************)
CollectChange ==
    Body(CreateRead("a"), <<Value("a"), Value("a"), Maybe(See("never", {"a"})), Return("PASS")>>, <<Cleanup("a")>>)
CollectStatic == Valued("a", <<Value("a"), Look({"a"})>>, "PASS")
Collect13Types ==
    Straight(CreateRead("a") \o <<Cleanup("a")>> \o CreateRead("b") \o <<Cleanup("b"), Return("PASS")>>)
\* precise_frequency knows the cases of UA-2-1 and no other.
FrequencyUnknown == Straight(<<Need(T), See("never", T)>>)
CollectMultiFrequency ==
    Body(<<Need(T), Born("a"), Born("b"), Born("c")>>,
         <<Value("a"), Value("a"), Value("a"), Look({"a"}), Value("b"), Value("b"), Value("b"), Look({"b"}),
           Value("c"), Value("c"), Value("c"), Look({"c"}), Return("PASS")>>,
         <<Cleanup("a"), Cleanup("b"), Cleanup("c")>>)
CollectBadNode == Within("loose", <<TryFind("loose"), Look({"loose"})>>, "PASS")
CollectTypeMismatch == Within("a", <<TryFind("a")>>, "OBSERVED")
CollectOfflineOnline ==
    LET Do(steps) == Body(<<Need(T), Born("a")>>, <<Value("a")>> \o steps \o <<Value("a"), Return("PASS")>>,
                          <<Cleanup("a"), Call("on", {"types"})>>)
    IN  Each({"UA-3-1-013", "UA-3-1-014"}, Do(<<Stopped, Read>> \o Started))
     @@ Each({"UA-3-1-015", "UA-3-1-016"},
             Do(<<Call("off", {"types"}), See("active", {"a"}), Call("on", {"types"})>>))
CollectNodeIsolation ==
    Body(<<Need(T), Born("a"), Born("loose")>>, <<Value("a"), Value("a"), Look({"a"}), Return("PASS")>>,
         <<Cleanup("a"), Cleanup("loose")>>)
MultiDsIsolation ==
    Body(<<Need(T), Need({"empty"}), Born("a"), Born("b")>>,
         <<Value("a"), Sample({"b", "empty"}), Stopped, Sample({"b", "empty"}), Look({"b"})>>
         \o Started \o <<Return("OBSERVED")>>,
         <<Cleanup("a"), Cleanup("b")>>)
CollectDeleteHistory ==
    OrBlocked(Within("loose",
        <<CreateImportDataset, VerifyHistory("loose"), Call("soft", {"loose"}), Read, Read,
          Call("restore", {"loose"}), Value("loose"), CreateImportDataset, VerifyHistory("loose")>>, "OBSERVED"))
\* 3-1-019 and 3-3-019 stand in the dispatchers, under one `try` for an AssertFail.
Kept(dataset) ==
    OrBlocked(Body(<<>>, <<Need(T), Born("a"), dataset, VerifyHistory("a"), Return("PASS")>>, <<Cleanup("a")>>))

DispatchUa3_1 ==
    Each({"UA-3-1-001", "UA-3-1-005", "UA-3-1-006", "UA-3-1-010"}, ReadClosedLoop)
 @@ "UA-3-1-002" :> CollectChange @@ "UA-3-1-003" :> CollectStatic
 @@ "UA-3-1-004" :> Collect13Types @@ Each({"UA-3-1-007", "UA-3-1-009"}, FrequencyUnknown)
 @@ "UA-3-1-008" :> CollectMultiFrequency @@ "UA-3-1-011" :> CollectBadNode
 @@ "UA-3-1-012" :> CollectTypeMismatch @@ CollectOfflineOnline
 @@ "UA-3-1-017" :> CollectNodeIsolation @@ "UA-3-1-018" :> MultiDsIsolation
 @@ "UA-3-1-019" :> Kept(CreateImportDataset) @@ "UA-3-1-020" :> CollectDeleteHistory

(***************************************************************************)
(* UA-3-2: reading.  A selector of group "1" moves the tag to the group     *)
(* the recycle bin is listed under.                                         *)
(***************************************************************************)
RtGetByName == Valued("a", <<Look({"a"}), Read, Look({"a"})>>, "PASS")
RtGetById == Valued("a", <<Look({"a"})>>, "PASS")
RtByGroup == Valued("a", <<Call("update", {"a"}), Look({"a"})>>, "PASS")
RtCrossDs ==
    Body(<<Need(T), Need({"empty"}), Born("a"), Born("b")>>,
         <<Value("a"), Sample({"b", "empty"}), See("active", {"a", "b"}), Look({"a", "b"}), Return("PASS")>>,
         <<Cleanup("a"), Cleanup("b")>>)
RtInvalidName == Straight(<<Need({"mock"})>> \o RefusedQuery \o <<Return("PASS")>>)
RtInvalidId == Straight(<<Need({"mock"}), See("inactive", {"void"}), Return("PASS")>>)
RtMixedValidInvalid == Valued("a", <<See("active", {"a"})>>, "PASS")
RtEmptySelectors == Straight(<<Need({"mock"})>> \o RefusedQuery \o <<Return("PASS")>>)
RtDuplicateTargets == Valued("loose", <<Read>>, "OBSERVED")
RtMultiSelector == Valued("loose", <<Call("update", {"loose"}), Read>>, "OBSERVED")
RtBothModes == Valued("a", <<Read, Read, Look({"a"})>>, "PASS")
RtVisibilityLatency == Valued("a", <<Call("write", {"a"}), Read, Read>>, "OBSERVED")
RtOfflineDbDiff == Valued("loose", <<Read, Read, Stopped, Read, Read>> \o Started, "OBSERVED")
RtQueryTime == Valued("loose", <<Read>>, "OBSERVED")
RtDeleteRestore ==
    Valued("loose", <<Call("soft", {"loose"}), Read, Call("restore", {"loose"}), Value("loose")>>, "PASS")
RtStability == Valued("loose", <<Read, Look({"loose"})>>, "PASS")

DispatchUa3_2 ==
    Each({"UA-3-2-001", "UA-3-2-012"}, RtGetByName) @@ Each({"UA-3-2-002", "UA-3-2-013"}, RtGetById)
 @@ "UA-3-2-003" :> RtByGroup @@ "UA-3-2-004" :> RtCrossDs @@ "UA-3-2-005" :> Collect13Types
 @@ "UA-3-2-006" :> RtInvalidName @@ "UA-3-2-007" :> RtInvalidId
 @@ Each({"UA-3-2-008", "UA-3-2-019"}, RtMixedValidInvalid) @@ "UA-3-2-009" :> RtEmptySelectors
 @@ "UA-3-2-010" :> RtDuplicateTargets @@ "UA-3-2-011" :> RtMultiSelector
 @@ "UA-3-2-014" :> RtBothModes @@ "UA-3-2-015" :> RtVisibilityLatency
 @@ "UA-3-2-016" :> RtOfflineDbDiff @@ Each({"UA-3-2-017", "UA-3-2-018"}, RtQueryTime)
 @@ "UA-3-2-020" :> RtDeleteRestore @@ "UA-3-2-021" :> RtStability

(***************************************************************************)
(* UA-3-3: writing.                                                         *)
(***************************************************************************)
\* The loop's triple is handed to the runner as it is, and the tag left to it.
WriteSingle ==
    [WriteClosedLoop EXCEPT !.body =
        WriteAndCompare("a") \o <<Call("write", {"a"}), Read, Return("PASS")>>]
WriteBatch ==
    Pair(<<Call("write", {"loose"}), Call("write", {"loose2"}), Look({"loose"}), Look({"loose2"})>>, "PASS")
\* One type after the other, each restored on its own.
Write13Types ==
    [WriteClosedLoop EXCEPT !.body =
        WriteAndCompare("a") \o <<Call("write", {"a"}), Read, Cleanup("a"), Need(T), Born("b"),
        See("listed", {"b"}), Look({"b"})>> \o WriteAndCompare("b")
        \o <<Call("write", {"b"}), Read, Cleanup("b"), Return("PASS")>>]
WriteReadonlyRejected ==
    Within("a", <<Read, Try("write", {"a", "odd"}), Read, IfOk(Look({"a"}))>>, "PASS")
WriteMixedBatch ==
    Body(<<Need(T), Born("a"), Born("b")>>, <<Call("write", {"a", "b", "odd"}), Look({"a"}), Return("PASS")>>,
         <<Cleanup("a"), Cleanup("b")>>)
WriteDatetimeExplore ==
    [WriteClosedLoop EXCEPT !.body =
        WriteAndCompare("a") \o <<Call("write", {"a"}), Read, Cleanup("a"), Return("OBSERVED")>>]
WriteTypeMismatch ==
    Within("loose", <<Read, Try("write", {"loose", "odd"}), Read, IfOk(Look({"loose"}))>>, "PASS")
WriteOutOfRange ==
    Within("loose", <<Read, Try("write", {"loose", "odd"}), Read, Look({"loose"})>>, "PASS")
WriteEmptyValues ==
    Straight(<<Need({"mock"}), Try("write", {"odd"}), Try("write", {"odd"}), Try("write", {"odd"}),
               Return("OBSERVED")>>)
WriteQualityExplore == Within("loose", <<Try("write", {"loose", "odd"})>>, "OBSERVED")
WriteOpcuaSource ==
    [WriteDatetimeExplore EXCEPT !.pre = <<Need(T), Read>> \o @, !.body = <<Read>> \o @]
WriteConcurrent ==
    Body(<<Need(T), Need({"empty"}), Born("loose"), Born("loose2")>>,
         <<Call("write", {"loose"}), Read, Call("write", {"loose2"}), Read, Return("OBSERVED")>>,
         <<Cleanup("loose"), Cleanup("loose2")>>)
WriteOfflineDisabled ==
    Body(<<Need(T), Born("loose")>>,
         <<Value("loose"), Stopped, Try("write", {"loose"})>> \o Started
         \o <<Call("off", {"types"}), Try("write", {"loose"}), Call("on", {"types"}), Read, Return("OBSERVED")>>,
         <<Cleanup("loose"), Call("on", {"types"})>>)

DispatchUa3_3 ==
    Each({"UA-3-3-001", "UA-3-3-004", "UA-3-3-006", "UA-3-3-015"}, WriteSingle)
 @@ "UA-3-3-002" :> WriteBatch @@ "UA-3-3-003" :> Write13Types
 @@ Each({"UA-3-3-005", "UA-3-3-007"}, WriteClosedLoop) @@ "UA-3-3-008" :> WriteDatetimeExplore
 @@ "UA-3-3-009" :> WriteReadonlyRejected
 @@ Each({"UA-3-3-010", "UA-3-3-011", "UA-3-3-017"}, WriteMixedBatch)
 @@ "UA-3-3-012" :> WriteTypeMismatch @@ "UA-3-3-013" :> WriteOutOfRange
 @@ "UA-3-3-014" :> WriteEmptyValues @@ "UA-3-3-016" :> WriteQualityExplore
 @@ "UA-3-3-018" :> RtBothModes @@ "UA-3-3-019" :> Kept(CreateWriteDataset("a"))
 @@ "UA-3-3-020" :> WriteOpcuaSource @@ "UA-3-3-021" :> WriteOfflineDisabled
 @@ "UA-3-3-022" :> WriteConcurrent

(***************************************************************************)
(* UA-3-4 to UA-3-6: histories, how long it takes, and many at once.        *)
(***************************************************************************)
HistoryQueryPair ==
    OrBlocked(Within("a", <<CreateImportDataset, VerifyHistory("a"), Read, Read, Look({"a"})>>, "PASS"))
HistoryBoundary == OrBlocked(Within("loose", <<CreateImportDataset, VerifyHistory("loose")>>, "OBSERVED"))
HistoryEmptyWindow == Within("loose", <<Read, Read, Look({"loose"})>>, "PASS")
HistoryInvalidTime == Straight(<<Need({"mock"})>> \o RefusedQuery \o <<Return("PASS")>>)
DispatchUa3_4 ==
    Each({"UA-3-4-001", "UA-3-4-002", "UA-3-4-003", "UA-3-4-004", "UA-3-4-005"}, HistoryQueryPair)
 @@ "UA-3-4-006" :> HistoryBoundary @@ "UA-3-4-007" :> HistoryEmptyWindow
 @@ "UA-3-4-008" :> HistoryInvalidTime

MeasureRtSamples == Valued("loose", <<Read, Look({"loose"})>>, "PASS")
MeasureRtBatch ==
    Pair(<<Value("loose"), Value("loose2"), See("active", {"loose", "loose2"})>>, "OBSERVED")
MeasureWriteBatchLatency == Pair(<<Call("write", {"loose", "loose2"}), Read>>, "OBSERVED")
MeasureHistoryLatency ==
    OrBlocked(Pair(<<CreateImportDataset, VerifyHistory("loose"), CreateImportDataset, VerifyHistory("loose2"),
                     Read>>, "OBSERVED"))
MeasureHistoryPagination == MeasureHistoryLatency
MeasureOfflineVsOnline == Valued("loose", <<Read, Stopped>> \o Started, "OBSERVED")
MeasureColdWarm == Valued("loose", <<Read, Read>>, "OBSERVED")
DispatchUa3_5 ==
    Each({"UA-3-5-001", "UA-3-5-003"}, MeasureRtSamples) @@ Each({"UA-3-5-002", "UA-3-5-004"}, MeasureRtBatch)
 @@ "UA-3-5-005" :> WriteSingle @@ "UA-3-5-006" :> MeasureWriteBatchLatency
 @@ Each({"UA-3-5-007", "UA-3-5-008"}, MeasureHistoryLatency)
 @@ Each({"UA-3-5-009", "UA-3-5-010"}, MeasureHistoryPagination)
 @@ "UA-3-5-011" :> MeasureOfflineVsOnline @@ "UA-3-5-012" :> MeasureColdWarm

PerfConcurrentRead == Valued("loose", <<Look({"loose"})>>, "OBSERVED")
PerfBatchRead == MeasureRtBatch
WriteSameTagRace == Valued("loose", <<Call("write", {"loose"}), Read, Read>>, "OBSERVED")
PerfMixedLoad ==
    OrBlocked(Within("loose", <<CreateImportDataset, Value("loose"), Read, Call("write", {"loose"}), Read>>,
                     "OBSERVED"))
PerfOverloadRecovery == Valued("loose", <<Read, Look({"loose"})>>, "OBSERVED")
DispatchUa3_6 ==
    Each({"UA-3-6-001", "UA-3-6-002"}, PerfConcurrentRead) @@ "UA-3-6-003" :> PerfBatchRead
 @@ "UA-3-6-004" :> RtByGroup @@ "UA-3-6-005" :> MultiDsIsolation
 @@ Each({"UA-3-6-006", "UA-3-6-009"}, WriteConcurrent) @@ "UA-3-6-007" :> WriteBatch
 @@ "UA-3-6-008" :> WriteSameTagRace @@ "UA-3-6-010" :> HistoryQueryPair
 @@ Each({"UA-3-6-011", "UA-3-6-012"}, MeasureHistoryLatency) @@ "UA-3-6-013" :> HistoryBoundary
 @@ "UA-3-6-014" :> PerfMixedLoad @@ "UA-3-6-015" :> PerfOverloadRecovery

Ua3Cases ==
    DispatchUa3_1 @@ DispatchUa3_2 @@ DispatchUa3_3 @@ DispatchUa3_4 @@ DispatchUa3_5 @@ DispatchUa3_6
=============================================================================
