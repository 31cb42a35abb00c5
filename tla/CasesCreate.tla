---------------------------- MODULE CasesCreate ----------------------------
(***************************************************************************)
(* Chapter UA-2-1: creating tags on the shared baseline sources             *)
(* (ua2_create_runtime.py, ua2_precise.py, ua2_helpers.py).                 *)
(***************************************************************************)
EXTENDS CaseSteps, TLC

LOCAL T == {"types", "mock"}
LOCAL One(x, body) == Body(<<Need(T), Born(x)>>, body, <<Cleanup(x)>>)

(***************************************************************************)
(* The closed loops of ua2_precise.py.                                      *)
(***************************************************************************)
CreateRead(x) ==
    <<Need(T), Born(x), See("listed", {x}), Sample({x} \cup T), Sample({x} \cup T), Look({x})>>
CreateNoCollect(x) == <<Need(T), Born(x), See("listed", {x}), Look({x})>>

ReadClosedLoop == Straight(CreateRead("a") \o <<Cleanup("a"), Return("PASS")>>)
NoCollectLoop == Straight(CreateNoCollect("loose") \o <<Cleanup("loose"), Return("PASS")>>)

WriteAndCompare(x) == <<Call("write", {x}), Sample({x} \cup T), Sample({x} \cup T), Look({x})>>

\* The original value is written back at the end, or when anything raised;
\* the tag is cleaned up only by what follows a success.
WriteClosedLoop ==
    Body(<<Need(T), Born("a"), See("listed", {"a"}), Look({"a"})>>,
         WriteAndCompare("a") \o <<Call("write", {"a"}), Read, Cleanup("a"), Return("PASS")>>,
         <<IfFailed(Try("write", {"a"}))>>)

ProbeWrite(x) == <<Read, Try("write", {x, "odd"}), Read, IfRefused(Look({x}))>>
WriteExplore(x) ==
    Body(<<>>, <<Need(T), Born(x)>> \o ProbeWrite(x) \o ProbeWrite(x) \o <<Return("PASS")>>,
         <<Cleanup(x)>>)

(***************************************************************************)
(* 004 to 007: creating while the server is down or the source disabled.    *)
(***************************************************************************)
MockOfflineCreate ==
    Body(<<Need(T), Call("off", {"mock"})>>,
         <<See("dead", T)>> \o CreateNoCollect("a") \o <<Return("PASS")>>,
         <<Cleanup("a"), Call("on", {"mock"}), See("active", {"mock"}), See("active", T)>>)

\* qtq_row waits for a quality other than 0; offline_quality_bad then asks
\* for the opposite of the row it returned.
MockRecovery ==
    Body(<<Need(T), Call("off", {"mock"}), Born("a")>>,
         <<See("dead", T), Sample({"a"} \cup T), Refused,
           Call("on", {"mock"}), See("active", {"mock"}), See("active", T),
           Sample({"a"} \cup T), Sample({"a"} \cup T), Return("PASS")>>,
         <<Cleanup("a"), Call("on", {"mock"})>>)

DsDisabledCreate ==
    Body(<<Need(T), Call("off", {"types"})>>,
         <<See("dead", T)>> \o CreateNoCollect("a") \o <<Return("PASS")>>,
         <<Cleanup("a"), Call("on", {"types"}), See("active", T)>>)

DsReenableCollect ==
    Body(<<Need(T), Born("a")>>,
         <<Call("off", {"types"}), See("dead", T), Call("on", {"types"}), See("active", T),
           Sample({"a"} \cup T), Return("PASS")>>,
         <<Cleanup("a"), Call("on", {"types"})>>)

CrossDsSameNode ==
    Body(<<Need(T), Need({"empty"}), Born("a"), Born("b")>>,
         <<Sample({"a"} \cup T), Sample({"b", "empty"}), Look({"a", "b"}), Return("PASS")>>,
         <<Cleanup("a"), Cleanup("b")>>)

(***************************************************************************)
(* Names and mappings the hub may refuse (ua2_create_runtime.py).           *)
(***************************************************************************)
DuplicateName ==
    One("a", <<See("active", {"a"}), Try("add", {"twin"}), Refused,
               See("active", {"a"}), Look({"a"}), Return("PASS")>>)

EmptyName ==
    Body(<<Need(T)>>,
         <<Try("add", {"void"}), Refused, See("inactive", {"void"}), Return("PASS")>>,
         <<IfOk(Try("purge", {"void"}))>>)

VerifyLength ==
    Body(<<Need(T), TryBorn("odd")>>,
         <<Find("odd"), IfOk(Look({"odd"})), Return("PASS")>>,
         <<Cleanup("odd")>>)

\* The row that is removed again is the last of those with the node.
DuplicateBase ==
    One("a", <<Try("add", {"odd"}), IfOk(Read), IfOk(Note("odd")), IfOk(CleanupOne({"a", "odd"})),
               IfRefused(See("active", {"a"})), Return("PASS")>>)

InvalidBase ==
    Straight(<<Need(T), Try("add", {"odd"}), IfOk(Find("odd")), IfOk(Cleanup("odd")),
               IfRefused(See("inactive", {"odd"})), Return("PASS")>>)

TryFindCleanup(x) == <<Try("add", {x}), Find(x), IfOk(Cleanup(x))>>
TypeMismatch ==
    Straight(<<Need(T), Try("add", {"odd"}), Find("odd"), IfOk(Read), IfOk(Cleanup("odd")),
               Return("OBSERVED")>>)

WhitespaceNames ==
    Straight(<<Need(T), Try("add", {"odd"}), IfOk(Find("odd")), IfOk(Cleanup("odd")),
               Try("add", {"odd2"}), IfOk(Find("odd2")), IfOk(Cleanup("odd2")), Return("OBSERVED")>>)

NameBoundary ==
    "UA-2-1-023" :> Straight(<<Need(T)>> \o TryFindCleanup("odd") \o <<Return("OBSERVED")>>)
 @@ "UA-2-1-024" :> TypeMismatch
 @@ "UA-2-1-025" :> Straight(<<Need(T)>> \o TryFindCleanup("odd") \o TryFindCleanup("odd2")
                             \o <<Return("OBSERVED")>>)

(***************************************************************************)
(* The bodies that stand in the dispatcher itself.                          *)
(***************************************************************************)
Dispatch1 ==
    "UA-2-1-003" :>
        Straight(<<Need(T), Try("add", {"void"}), Refused, See("inactive", {"void"}), Return("PASS")>>)
 @@ "UA-2-1-014" :>
        Straight(<<Need(T), Try("add", {"odd"}), Read, IfRefused(See("inactive", {"odd"})),
                   IfRefused(Return("PASS")), See("active", {"odd"}), Look({"odd"}), Note("odd"),
                   Cleanup("odd"), See("inactive", {"odd"}), Return("PASS")>>)
 @@ "UA-2-1-016" :>
        One("a", <<See("listed", {"a"}), Look({"a"}), Sample({"a"} \cup T), Return("PASS")>>)
 @@ "UA-2-1-018" :>
        Body(<<Need(T), Born("b"), Cleanup("b"), Born("a")>>,
             <<Need({"empty"}), Try("add", {"twin"}), Refused, Return("PASS")>>,
             <<Cleanup("a")>>)

\* A case that explores gives its first tag back and makes another; 073 is
\* content when one of its two dates is refused.
DispatchWrite ==
    LET Explore == Body(<<Need(T), Born("a")>>, <<Cleanup("a")>> \o WriteExplore("b").body,
                        WriteExplore("b").fin)
    IN  Each({"UA-2-1-041", "UA-2-1-043", "UA-2-1-045", "UA-2-1-047", "UA-2-1-049", "UA-2-1-051",
              "UA-2-1-053", "UA-2-1-056", "UA-2-1-059", "UA-2-1-062", "UA-2-1-065", "UA-2-1-069",
              "UA-2-1-070", "UA-2-1-075"}, Explore)
     @@ "UA-2-1-073" :>
            One("a", <<Try("write", {"a", "void"}), Also("write", {"a", "void"}), Refused, Return("PASS")>>)

(***************************************************************************)
(* Fields: unit and description, read only, frequency, limits, push.        *)
(***************************************************************************)
TryListedCleanup(x) ==
    <<Try("add", {x}), IfOk(See("listed", {x})), IfOk(Note(x)), IfOk(Cleanup(x))>>
TwoProbes ==
    Straight(<<Need(T)>> \o TryListedCleanup("odd") \o TryListedCleanup("odd2") \o <<Return("OBSERVED")>>)

FieldUnitDesc ==
    Each({"UA-2-1-076", "UA-2-1-077", "UA-2-1-079", "UA-2-1-080"},
         One("loose", <<See("listed", {"loose"}), Look({"loose"}), Sample({"loose"} \cup T), Return("PASS")>>))
 @@ Each({"UA-2-1-078", "UA-2-1-081"}, TwoProbes)

OnlyRead ==
    "UA-2-1-083" :> WriteClosedLoop
 @@ Each({"UA-2-1-082", "UA-2-1-084", "UA-2-1-085"},
         One("a", <<See("listed", {"a"}), Look({"a"}), Read, Try("write", {"a", "odd"}), Read,
                    Look({"a"}), Return("PASS")>>))

\* 086 sends the frequency 1 of create_case_tag and expects the default 10.
Frequency ==
    "UA-2-1-086" :>
        One("loose", <<See("listed", {"loose"}), See("never", {"loose"}), Sample({"loose"} \cup T),
                       Return("PASS")>>)
 @@ Each({"UA-2-1-087", "UA-2-1-088", "UA-2-1-089"}, One("loose", <<Read, Read, Return("OBSERVED")>>))
 @@ "UA-2-1-090" :> TwoProbes

Limits ==
    LET Listed(steps) == One("a", <<See("listed", {"a"})>> \o steps)
        Set == Call("update", {"a"})
    IN  "UA-2-1-091" :> Listed(<<Set, See("listed", {"a"}), Look({"a"}), Sample({"a"} \cup T), Return("PASS")>>)
     @@ "UA-2-1-092" :> Listed(<<Set>> \o WriteAndCompare("a") \o <<Return("PASS")>>)
     @@ "UA-2-1-093" :> Listed(<<Set, Try("write", {"a", "odd"}), Read, Try("write", {"a", "odd"}), Read,
                                 Return("OBSERVED")>>)
     @@ "UA-2-1-094" :> Listed(TryListedCleanup("odd") \o TryListedCleanup("odd2") \o <<Return("OBSERVED")>>)
     @@ "UA-2-1-095" :> Listed(<<Set, See("listed", {"a"}), Look({"a"}), Return("PASS")>>)
     @@ "UA-2-1-096" :> Listed(<<Try("add", {"odd"}), Return("OBSERVED")>>)
     @@ "UA-2-1-097" :> Listed(<<Set, See("listed", {"a"}), Return("OBSERVED")>>)

NeedPush ==
    LET Listed(steps) == One("loose", <<See("listed", {"loose"})>> \o steps)
    IN  "UA-2-1-098" :> Listed(<<Look({"loose"}), Return("PASS")>>)
     @@ "UA-2-1-099" :> Listed(<<Call("update", {"loose"}), See("listed", {"loose"}), Look({"loose"}),
                                 Return("PASS")>>)
     @@ Each({"UA-2-1-100", "UA-2-1-101"}, Listed(<<Look({"loose"}), Read, Return("OBSERVED")>>))

Availability ==
    "UA-2-1-102" :> ReadClosedLoop
 @@ "UA-2-1-103" :> WriteClosedLoop
 @@ "UA-2-1-104" :> One("a", WriteAndCompare("a") \o <<Look({"a"}), Return("PASS")>>)

(***************************************************************************)
(* Batches.  Nothing is registered; the finally cleans up what has been     *)
(* noted by then, and the explorations but 112 note nothing.                *)
(***************************************************************************)
Batch ==
    LET Do(steps, fin) == Body(<<Need(T)>>, <<Read, Page>> \o steps, fin)
        Check(x) == <<See("listed", {x}), Look({x}), Sample({x} \cup T), Note(x)>>
    IN  "UA-2-1-105" :>
            Do(<<Call("batch", {"a", "b"})>> \o Check("a") \o Check("b") \o <<Return("PASS")>>,
               <<Cleanup("a"), Cleanup("b")>>)
     @@ "UA-2-1-106" :>
            Do(<<Read, Page, Call("batch", {"a"}), See("listed", {"a"}), Note("a"), See("listed", {"a"}),
                 Call("batch", {"a", "b"}), See("listed", {"a"}), Look({"a"}), See("active", {"b"}),
                 See("listed", {"b"}), Note("b"), Return("PASS")>>,
               <<Cleanup("a"), Cleanup("b")>>)
     @@ "UA-2-1-107" :>
            Do(<<Call("batch", {"a"}), See("listed", {"a"}), Note("a"), Call("batch", {"a"}),
                 See("listed", {"a"}), Look({"a"}), Sample({"a"} \cup T), Return("PASS")>>,
               <<Cleanup("a")>>)
     @@ "UA-2-1-108" :> Body(<<Need(T)>>, <<Try("batch", {"stray"}), Return("OBSERVED")>>, <<>>)

BatchExplore ==
    LET Do(steps, fin) == Body(<<Need(T)>>, steps \o <<Return("OBSERVED")>>, fin)
    IN  "UA-2-1-109" :> Do(<<Read, Page, Try("batch", {"a", "b", "odd"})>>, <<>>)
     @@ "UA-2-1-110" :> Do(<<Read, Page, Try("batch", {"odd"})>>, <<>>)
     @@ "UA-2-1-111" :> Do(<<Read, Page, Call("batch", {"a", "b"}), Call("batch", {"a", "b"})>>, <<>>)
     @@ "UA-2-1-112" :> Do(<<TryPage, IfOk(Try("batch", {"a"})), IfOk(TryFind("a")), TryPage,
                             IfOk(Try("batch", {"b", "c"})), IfOk(TryFind("b")), IfOk(TryFind("c"))>>,
                           <<Cleanup("a"), Cleanup("b"), Cleanup("c")>>)

(***************************************************************************)
(* The chapter: CASE_READ_TYPE is 026 to 038, CASE_WRITE_VALUES the write   *)
(* cases with values to read back.                                          *)
(***************************************************************************)
FieldCases ==
    DispatchWrite @@ FieldUnitDesc @@ OnlyRead @@ Frequency @@ Limits @@ NeedPush @@ Availability
 @@ Batch @@ BatchExplore

ReadCases ==
    {"UA-2-1-001", "UA-2-1-002", "UA-2-1-008", "UA-2-1-026", "UA-2-1-027", "UA-2-1-028", "UA-2-1-029",
     "UA-2-1-030", "UA-2-1-031", "UA-2-1-032", "UA-2-1-033", "UA-2-1-034", "UA-2-1-035", "UA-2-1-036",
     "UA-2-1-037", "UA-2-1-038"}
WriteCases ==
    {"UA-2-1-039", "UA-2-1-040", "UA-2-1-042", "UA-2-1-044", "UA-2-1-046", "UA-2-1-048", "UA-2-1-050",
     "UA-2-1-052", "UA-2-1-054", "UA-2-1-055", "UA-2-1-057", "UA-2-1-058", "UA-2-1-060", "UA-2-1-061",
     "UA-2-1-063", "UA-2-1-064", "UA-2-1-066", "UA-2-1-067", "UA-2-1-068", "UA-2-1-071", "UA-2-1-072",
     "UA-2-1-074"}

CreateCases ==
    Each(ReadCases, ReadClosedLoop) @@ Each(WriteCases, WriteClosedLoop)
 @@ Each({"UA-2-1-009", "UA-2-1-013"}, NoCollectLoop)
 @@ "UA-2-1-004" :> MockOfflineCreate @@ "UA-2-1-005" :> MockRecovery
 @@ "UA-2-1-006" :> DsDisabledCreate @@ "UA-2-1-007" :> DsReenableCollect
 @@ "UA-2-1-010" :> CrossDsSameNode
 @@ "UA-2-1-011" :> DuplicateBase @@ "UA-2-1-012" :> InvalidBase
 @@ "UA-2-1-015" :> TypeMismatch @@ "UA-2-1-017" :> DuplicateName
 @@ "UA-2-1-019" :> EmptyName @@ "UA-2-1-020" :> WhitespaceNames
 @@ Each({"UA-2-1-021", "UA-2-1-022"}, VerifyLength)
 @@ NameBoundary @@ Dispatch1 @@ FieldCases
=============================================================================
