----------------------------- MODULE CasesQuery -----------------------------
(***************************************************************************)
(* Chapter UA-2-2: querying the configurations, the values and the nodes a  *)
(* data source offers (ua2_query_runtime.py, ua2_query_extra.py).           *)
(***************************************************************************)
EXTENDS CaseSteps, TLC

LOCAL T == {"types", "mock"}
LOCAL N == {"types"}       \* the bodies that do not ask for the server itself
LOCAL Listed(needs, steps) == Straight(<<Need(needs)>> \o steps \o <<Return("PASS")>>)
LOCAL One(needs, steps) ==
    Body(<<Need(needs), Born("a")>>, steps \o <<Return("PASS")>>, <<Cleanup("a")>>)
LOCAL Both == <<Need(T), Need({"empty"})>>
LOCAL Checked == <<See("active", {"a"}), Look({"a"})>>

(***************************************************************************)
(* What filters and pages of the configurations return.                     *)
(***************************************************************************)
ConfigFields == One(T, Checked)
RepeatStable == One(T, <<Read, Read, Look({"a"}), See("active", {"a"})>>)
MissingName == Listed(T, <<Look({"types"})>>)
ClearNameFilter ==
    Body(<<Need(T), Born("a"), Born("b")>>,
         <<See("active", {"a"}), See("active", {"a", "b"}), Return("PASS")>>,
         <<Cleanup("b"), Cleanup("a")>>)
BaseNameExact == One(T, Checked)
MissingBaseName == Listed(T, <<Page, Look({"types"})>>)
EmptyDatasource == Straight(<<Need({"empty", "mock"}), Look({"empty"}), Return("PASS")>>)
ListDefaultRange == Listed(T, <<Look({"types"}), Look({"types"})>>)
MultiDatasourceSet ==
    Body(Both \o <<Born("a"), Born("b")>>,
         <<Read, Read, See("active", {"a", "b"}), Read, See("active", {"a", "b"}), Read, Read,
           See("active", {"a", "b"}), Return("PASS")>>,
         <<Cleanup("a"), Cleanup("b")>>)
FullTagName == One(T, Checked)
FullBaseName == One(T, Checked)
CrossDsSameBase ==
    Body(Both \o <<Born("a")>>, Checked \o <<Look({"a"}), Look({"a"}), Return("PASS")>>, <<Cleanup("a")>>)
SingleDatasource == One(T, Checked)

\* SwitchDatasource reads both sources before it compares; the other two check
\* one query at a time.
TwoScopes(steps) == Body(Both \o <<Born("a")>>, steps \o <<Return("PASS")>>, <<Cleanup("a")>>)
SwitchDatasource == TwoScopes(<<Read, Read, See("active", {"a"}), Look({"a"})>>)
ComboDsAndName == TwoScopes(Checked \o <<Look({"a"})>>)
ContradictoryFilters == TwoScopes(<<Look({"a"}), See("active", {"a"})>>)

\* It returns nothing, which the runner takes for PASS.
DatasourceAttribution ==
    Body(<<Need(T), See("active", {"types"}), Look({"types"}), Born("a")>>,
         Checked \o <<Return("PASS")>>, <<Cleanup("a")>>)

NameQueries ==
    LET Probe(reads) == Body(<<Need(N), Born("a")>>, reads \o <<Return("OBSERVED")>>, <<Cleanup("a")>>)
    IN  Each({"UA-2-2-007", "UA-2-2-009"}, Probe(<<Read, Read, Read>>))
     @@ "UA-2-2-010" :>
            Body(<<Need(N), Born("a")>>,
                 <<Cleanup("a"), Born("b"), Read, Read, Read, Return("OBSERVED")>>, <<Cleanup("b")>>)
     @@ "UA-2-2-013" :> Probe(<<Fetch("a"), Read>>)

Pages ==
    Each({"UA-2-2-049", "UA-2-2-050"}, Listed(N, <<Look(N)>>))
 @@ "UA-2-2-051" :> Listed(N, <<Read, Read, Look(N)>>)
 @@ Each({"UA-2-2-052", "UA-2-2-054"}, Listed(N, <<Read, Look(N)>>))

Combined ==
    Each({"UA-2-2-027", "UA-2-2-028", "UA-2-2-029", "UA-2-2-031"}, One(N, <<See("active", {"a"})>>))
 @@ "UA-2-2-032" :> One(N, <<Read>>)
 @@ "UA-2-2-035" :> One(N, <<See("active", {"a"}), Look({"a"})>>)
 @@ "UA-2-2-036" :> One(N, <<See("active", {"a"}), Look({"a"})>>)
 @@ "UA-2-2-039" :> One(N, <<See("active", {"a"}), Fetch("a"), Look({"a"})>>)

\* The groups are noted before the tag is made and deleted after it.  025
\* leaves the restored tag to the runner's sweep.
GroupQueries ==
    LET Do(steps, fin) == Body(<<Need(N)>>, steps, fin)
        Grouped(steps) == Do(<<Call("group", {"grp"}), Note("grp"), Born("a")>> \o steps \o <<Return("PASS")>>,
                             <<Cleanup("a"), Discard("grp"), Discard("side")>>)
        Relate == Call("update", {"a"})
    IN  "UA-2-2-021" :> Do(<<Read, Call("group", {"grp"}), Note("grp"), Call("update", {"grp"}), Read,
                             Return("OBSERVED")>>, <<Discard("grp")>>)
     @@ "UA-2-2-022" :> Grouped(<<Relate, See("active", {"a"})>>)
     @@ "UA-2-2-023" :> Grouped(<<Call("group", {"side"}), Note("side"), Look({"side"})>>)
     @@ "UA-2-2-024" :> Grouped(<<Relate, See("active", {"a"}), Relate>>)
     @@ "UA-2-2-025" :>
            Do(<<Call("group", {"grp"}), Note("grp"), Born("a"), Call("soft", {"a"}), See("inactive", {"a"}),
                 See("recycled", {"a"}), Call("restore", {"a"}), Return("PASS")>>,
               <<IfFailed(Cleanup("a")), Discard("grp")>>)

(***************************************************************************)
(* Values while the server stops and starts.  The calls are not given the   *)
(* context, so it is "local" they stop and start; what is waited for is     *)
(* the server behind the source.  What 037 notes when it has stopped one is *)
(* that its inner finally has to start one.                                 *)
(***************************************************************************)
RuntimeOfflineOnline ==
    LET Do(steps, fin) == Body(<<Need(N), Born("a")>>, <<Sample({"a"} \cup T)>> \o steps \o <<Return("PASS")>>,
                               fin \o <<Cleanup("a")>>)
    IN  "UA-2-2-037" :>
            Do(<<Call("off", {"local"}), NoteAll({"local", "mock"}), See("active", {"a"}), Fetch("a")>>,
               <<IfHeld(Call("on", {"local"})), IfHeld(See("active", {"mock"}))>>)
     @@ "UA-2-2-038" :>
            Do(<<Call("off", {"local"}), Call("on", {"local"}), See("active", {"mock"}), Sample({"a"} \cup T),
                 Read>>, <<>>)
     @@ "UA-2-2-040" :> Do(<<Fetch("a"), Fetch("a"), Look({"a"})>>, <<>>)

BrowseOffline ==
    Body(<<Need(T), Call("off", {"local"})>>, <<Return("PASS")>>,
         <<Call("on", {"local"}), See("active", {"mock"})>>)
BrowseRecovery ==
    Straight(<<Need(T), Call("off", {"local"}), Call("on", {"local"}), See("active", {"mock"}), Page,
               Look({"types"}), Return("PASS")>>)

(***************************************************************************)
(* Browsing.  What a batch added is found again by name, for the finally.   *)
(***************************************************************************)
BrowseDsIsolation == Straight(Both \o <<Read, Page, Read, Page, Look({"types"}), Return("PASS")>>)
BrowseNodeInfo == Listed(T, <<Page, Look({"types"}), Read, Look({"types"})>>)
BrowseNameFilter == Straight(<<Need(T), Read, Read, Return("OBSERVED")>>)
BrowseRegisteredFilter == Straight(<<Need(T), Read, Page, Page, Return("OBSERVED")>>)
Refound == <<Find("a"), IfOk(Cleanup("a"))>>
BrowseCrossDs ==
    Body(Both \o <<Page, Look({"types"}), Call("batch", {"a"})>>,
         <<Read, Page, Read, Page, See("active", {"a"}), Return("PASS")>>, Refound)
BrowseToAdd ==
    Body(<<Need(N), Read, Page, Call("batch", {"a"})>>,
         <<See("listed", {"a"}), Look({"a"}), Sample({"a"} \cup T), Return("PASS")>>, Refound)
BrowseCursor == Listed(N, <<Look({"types"})>>)

(***************************************************************************)
(* What queries return after a change.                                      *)
(***************************************************************************)
ResultUpdates ==
    LET Do(steps, v, fin) == Body(<<Need(N)>>, steps \o <<Return(v)>>, fin)
        Tagged(steps, v) == Do(<<Born("a")>> \o steps, v, <<IfFailed(Cleanup("a"))>>)
        Kept(steps, v) == Do(<<Born("a")>> \o steps, v, <<Cleanup("a")>>)
    IN  "UA-2-2-056" :>
            Do(<<Read, Page, Call("batch", {"a"}), See("active", {"a"}), Fetch("a"), Note("a"), Cleanup("a")>>, "PASS", <<>>)
        \* The tag has another name by then, under which no fallback is found.
     @@ "UA-2-2-057" :>
            Tagged(<<Fetch("a"), Call("update", {"a"}), Look({"a"}), See("active", {"a"}), Try("purge", {"a"})>>, "PASS")
     @@ "UA-2-2-058" :>
            Do(<<Read, Page, Born("a"), Fetch("a"), Call("update", {"a"}), Look({"a"}), See("active", {"a"}),
                 See("listed", {"a"}), Sample({"a"} \cup T), Cleanup("a")>>, "PASS", <<IfFailed(Cleanup("a"))>>)
     @@ "UA-2-2-059" :>
            Do(<<Call("group", {"grp"}), Call("group", {"side"}), NoteAll({"grp", "side"}), Born("a"),
                 Call("update", {"a"}), Call("update", {"a"}), Read, Read, Look({"a"}), See("active", {"a"})>>,
               "PASS", <<Cleanup("a"), Discard("grp"), Discard("side")>>)
     @@ "UA-2-2-060" :> Kept(<<Call("update", {"a"}), See("active", {"a"}), Call("update", {"a"})>>, "PASS")
     @@ "UA-2-2-061" :> Tagged(<<Call("soft", {"a"}), See("inactive", {"a"}), Page, See("recycled", {"a"}),
                                 Retire({"a"})>>, "PASS")
     @@ "UA-2-2-062" :> Tagged(<<Call("soft", {"a"}), Retire({"a"}), See("inactive", {"a"}), Page,
                                 See("unbinned", {"a"})>>, "PASS")
     @@ "UA-2-2-063" :> Kept(<<Read, Page, Page, Read, Page>>, "OBSERVED")
        \* Should the last browse fail, the finally finds nothing left to purge.
     @@ "UA-2-2-064" :> Tagged(<<Read, Page, Call("soft", {"a"}), Read, Page, Retire({"a"}), Read, Page>>, "OBSERVED")

Stability ==
    "UA-2-2-065" :> Listed(N, <<Read, Look({"types"})>>)
 @@ "UA-2-2-066" :> Listed(N, <<Read, Need({"empty"}), Read, Look({"types", "empty"})>>)
 @@ "UA-2-2-067" :> One(N, <<Fetch("a"), Read, Read, Fetch("a"), Look({"a"})>>)

(***************************************************************************)
(* The chapter.                                                             *)
(***************************************************************************)
QueryCases ==
    Each({"UA-2-2-004", "UA-2-2-033"}, ConfigFields) @@ "UA-2-2-001" :> ListDefaultRange
 @@ "UA-2-2-003" :> MultiDatasourceSet @@ "UA-2-2-005" :> RepeatStable @@ "UA-2-2-006" :> FullTagName
 @@ "UA-2-2-008" :> MissingName @@ "UA-2-2-011" :> ClearNameFilter @@ "UA-2-2-012" :> FullBaseName
 @@ "UA-2-2-014" :> CrossDsSameBase @@ "UA-2-2-015" :> BaseNameExact @@ "UA-2-2-016" :> MissingBaseName
 @@ "UA-2-2-017" :> SingleDatasource @@ "UA-2-2-018" :> SwitchDatasource @@ "UA-2-2-019" :> EmptyDatasource
 @@ "UA-2-2-026" :> ComboDsAndName @@ "UA-2-2-030" :> ContradictoryFilters
 @@ "UA-2-2-034" :> DatasourceAttribution
 @@ "UA-2-2-002" :> Straight(<<Need({"empty"}), Look({"empty"}), Return("PASS")>>)
 @@ "UA-2-2-020" :> Straight(<<Read, Return("PASS")>>)
 @@ "UA-2-2-053" :> Straight(<<Return("BLOCKED")>>)
 @@ "UA-2-2-041" :> BrowseDsIsolation @@ "UA-2-2-042" :> BrowseNodeInfo @@ "UA-2-2-043" :> BrowseNameFilter
 @@ "UA-2-2-044" :> BrowseRegisteredFilter @@ "UA-2-2-045" :> BrowseCrossDs @@ "UA-2-2-046" :> BrowseOffline
 @@ "UA-2-2-047" :> BrowseRecovery @@ "UA-2-2-048" :> BrowseToAdd @@ "UA-2-2-055" :> BrowseCursor
 @@ NameQueries @@ Combined @@ GroupQueries @@ RuntimeOfflineOnline @@ Pages @@ ResultUpdates @@ Stability
=============================================================================
