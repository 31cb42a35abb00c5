---------------------------- MODULE CasesImport ----------------------------
(***************************************************************************)
(* Chapter UA-2-3: exporting and importing tags, and adding what browsing   *)
(* the data source finds (ua2_import_runtime.py, ua2_import_helpers.py).    *)
(* An import is a batch; a file that is none names nothing.                 *)
(***************************************************************************)
EXTENDS CaseSteps, TLC

LOCAL T == {"types", "mock"}
Collectible(x) == Sample({x} \cup T)
Export(S) == Look(S)
ImportFile(S) == Call("batch", S)

\* Every case has one try around all of it, which makes an exploration out of
\* any exception; the list of its tags is bound when all of them are there.
LOCAL Run(steps, tags) ==
    Body(<<Need(T)>>, steps, [i \in DOMAIN tags |-> Cleanup(tags[i])])
WithTag(steps) == Run(<<Make("a"), Note("a"), Collectible("a")>> \o steps, <<"a">>)
WithTags(steps) ==
    Run(<<Make("a"), Make("b"), NoteAll({"a", "b"}), Collectible("a"), Collectible("b")>> \o steps,
        <<"a", "b">>)

Exports ==
    Each({"UA-2-3-001", "UA-2-3-006"}, WithTag(<<Export({"a"}), Return("PASS")>>))
 @@ "UA-2-3-002" :> WithTags(<<Export({"a", "b"}), Return("PASS")>>)
 @@ "UA-2-3-003" :>
        Run(<<Make("a"), Note("a"), Collectible("a"), Need({"empty"}), Make("b"),
              Sample({"b", "empty"}), Note("b"), Export({"a", "b"}), Return("PASS")>>, <<"a", "b">>)
 @@ "UA-2-3-004" :> WithTag(<<Try("update", {"stray"}), Return("OBSERVED")>>)
 @@ "UA-2-3-005" :> WithTag(<<Export({"a"}), Export({"a"}), Return("PASS")>>)

ExportFields ==
    LET Changed == <<Fetch("a"), Call("update", {"a"}), Collectible("a")>>
        Compare == <<Export({"a"}), See("listed", {"a"}), Look({"a"}), Return("PASS")>>
    IN  "UA-2-3-007" :> WithTag(Compare)
     @@ Each({"UA-2-3-008", "UA-2-3-009"}, WithTag(Changed \o Compare))

\* 010 exports a tag of each type; its own finally is written as the last one.
ExportTypes ==
    "UA-2-3-010" :>
        Run(<<Born("a"), Collectible("a"), Born("b"), Collectible("b"), Export({"a", "b"}),
              Return("PASS")>>, <<"a", "b">>)
 @@ Each({"UA-2-3-011", "UA-2-3-012"}, WithTag(<<Export({"a"}), Return("OBSERVED")>>))

Imports ==
    "UA-2-3-013" :> WithTag(<<Export({"a"}), ImportFile({"a"}), See("active", {"a"}), Return("PASS")>>)
 @@ "UA-2-3-014" :> WithTags(<<Export({"a", "b"}), ImportFile({"a", "b"}), See("active", {"a", "b"}),
                               Return("PASS")>>)
 @@ Each({"UA-2-3-015", "UA-2-3-016", "UA-2-3-017"},
         WithTag(<<Export({"a"}), Try("batch", {"a"}), IfRefused(Return("OBSERVED")), Return("PASS")>>))
 @@ "UA-2-3-018" :> WithTag(<<Export({"a"}), Try("batch", {"a"}), Return("OBSERVED")>>)
 @@ "UA-2-3-019" :> WithTag(<<Export({"a"}), ImportFile({"a"}), Collectible("a"), Return("PASS")>>)

ImportConflicts ==
    "UA-2-3-020" :>
        WithTag(<<Fetch("a"), Export({"a"}), ImportFile({"a"}), Fetch("a"),
                  Look({"a"}), Return("PASS")>>)
 @@ "UA-2-3-021" :>
        WithTag(<<Fetch("a"), Call("update", {"a"}), Collectible("a"), Export({"a"}),
                  ImportFile({"a"}), Fetch("a"), Look({"a"}), Collectible("a"), Return("PASS")>>)

\* 025 and 026, which regress, pass whatever the hub makes of the file.
InvalidFiles ==
    LET Upload(v) == WithTag(<<Try("batch", {"stray"}), Return(v)>>)
    IN  Each({"UA-2-3-022", "UA-2-3-023", "UA-2-3-024", "UA-2-3-027"}, Upload("OBSERVED"))
     @@ Each({"UA-2-3-025", "UA-2-3-026"}, Upload("PASS"))

RoundTrip ==
    WithTag(<<Fetch("a"), Call("update", {"a"}), Collectible("a"), Export({"a"}),
              ImportFile({"a"}), Export({"a"}), Return("PASS")>>)

\* The nodes come from browsing; a browse that fails is recorded.  A tag is
\* noted for the finally when its own checks are done: one that fails them, and
\* those after it, are not.
BrowsedBatch ==
    LET Browse == <<TryPage, IfRefused(Return("OBSERVED"))>>
        Check(x, sampled) ==
            <<See("listed", {x})>> \o (IF sampled THEN <<Collectible(x)>> ELSE <<>>)
            \o <<Fetch(x), Note(x)>>
        Two(sampled) ==
            Run(Browse \o <<Call("batch", {"a", "b"})>> \o Check("a", sampled) \o Check("b", sampled)
                \o <<Return("PASS")>>, <<"a", "b">>)
    IN  "UA-2-3-029" :> Run(Browse \o <<Call("batch", {"a"})>> \o Check("a", TRUE) \o <<Return("PASS")>>, <<"a">>)
     @@ "UA-2-3-030" :> Two(FALSE)
     @@ "UA-2-3-032" :> Two(TRUE)
     @@ "UA-2-3-031" :>
            Run(Browse \o <<Call("batch", {"a"}), See("listed", {"a"}), Note("a"), Call("batch", {"a"}),
                  See("listed", {"a"}), Look({"a"}), Return("PASS")>>, <<"a">>)

Exploring ==
    {"UA-2-3-004", "UA-2-3-011", "UA-2-3-012", "UA-2-3-018", "UA-2-3-022", "UA-2-3-023", "UA-2-3-024",
     "UA-2-3-027"}
ImportCases ==
    LET all == Exports @@ ExportFields @@ ExportTypes @@ Imports @@ ImportConflicts @@ InvalidFiles
               @@ "UA-2-3-028" :> RoundTrip @@ BrowsedBatch
    IN  [c \in DOMAIN all |-> IF c \in Exploring THEN Swallowing(all[c], "OBSERVED") ELSE all[c]]
=============================================================================
