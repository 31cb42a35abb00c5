---------------------------- MODULE CasesRecycle ----------------------------
(***************************************************************************)
(* Chapter UA-2-4: soft delete, restore and physical delete of tags on the  *)
(* shared baseline source (ua2_recycle_runtime.py).                         *)
(***************************************************************************)
EXTENDS CaseSteps, TLC

LOCAL Made(S) == <<Need({"types", "mock"})>> \o S
LOCAL FetchBinned(x) == DoStep("fetch", "recycled", {x})  \* next(...) without a default

SoftDeleteOne ==
    Body(Made(<<Born("a")>>),
         <<Call("soft", {"a"}), See("inactive", {"a"}), Page, See("recycled", {"a"}), Return("PASS")>>,
         <<Cleanup("a")>>)


RestoreOne ==
    Body(Made(<<Born("a")>>),
         <<Call("soft", {"a"}), Page, See("recycled", {"a"}), Call("restore", {"a"}),
           See("active", {"a"}), Page, See("unbinned", {"a"}), Return("PASS")>>,
         <<Cleanup("a")>>)

PhysicalDeleteOne ==
    Body(Made(<<Born("a")>>),
         <<Call("soft", {"a"}), Page, See("recycled", {"a"}), Retire({"a"}),
           See("inactive", {"a"}), Page, See("unbinned", {"a"}), Return("PASS")>>,
         <<Cleanup("a")>>)

PhysicalDeleteIrreversible ==
    Body(Made(<<Born("a")>>),
         <<Call("soft", {"a"}), Page, See("recycled", {"a"}), Retire({"a"}), Try("restore", {"a"}),
           See("inactive", {"a"}), Page, See("unbinned", {"a"}), Return("PASS")>>,
         <<Cleanup("a")>>)

\* 005 to 008: what the hub does is recorded, not judged.
SoftDeleteExplore ==
    LET Explore(steps) == Body(Made(<<Born("a")>>), steps \o <<Return("OBSERVED")>>, <<Cleanup("a")>>)
    IN  "UA-2-4-005" :> Explore(<<Call("soft", {"a"}), Try("soft", {"a"}), Page>>)
     @@ "UA-2-4-006" :> Explore(<<Try("soft", {"stray"})>>)
     @@ "UA-2-4-007" :> Explore(<<Try("soft", {"a", "stray"}), Page>>)
     @@ "UA-2-4-008" :> Explore(<<Read, Call("soft", {"a"}), Read, Read>>)

\* 014 restores ten tags and leaves an eleventh in the bin; 015 to 017 one.
\* Of these only 016 asks for a value, which its tag, made without a base name,
\* never has.
BatchRestore ==
    LET One(x, checks) ==
            Body(Made(<<Born(x), Fetch(x)>>),
                 <<Call("soft", {x}), Call("restore", {x})>> \o checks \o <<Return("PASS")>>,
                 <<Cleanup(x)>>)
    IN  "UA-2-4-014" :>
            Body(Made(<<Born("a"), Born("b"), Fetch("a"), Fetch("b"), Born("c")>>),
                 <<Call("soft", {"a"}), Call("soft", {"b"}), Call("soft", {"c"}),
                   Call("restore", {"a"}), Call("restore", {"b"}),
                   See("active", {"a", "b"}), Page, See("recycled", {"c"}), Return("PASS")>>,
                 <<Cleanup("a"), Cleanup("b"), Cleanup("c")>>)
     @@ "UA-2-4-015" :> One("a", <<Fetch("a"), Look({"a"})>>)
     @@ "UA-2-4-016" :> One("loose", <<Sample({"loose", "types", "mock"}), Read>>)
     @@ "UA-2-4-017" :> One("a", <<See("active", {"a"})>>)

\* The chapter's own bodies: 002 creates its tags inside the try; 026 adds
\* the purged tag again and registers nothing for it.
Dispatch ==
    "UA-2-4-002" :>
        Body(Made(<<>>),
             <<Born("a"), Born("b"), Call("soft", {"a"}), Call("soft", {"b"}),
               Page, See("recycled", {"a", "b"}), Return("PASS")>>,
             <<Cleanup("a"), Cleanup("b")>>)
 @@ "UA-2-4-003" :>
        Body(Made(<<Need({"empty"}), Born("a"), Born("b")>>),
             <<Call("soft", {"a"}), Call("soft", {"b"}),
               Page, Page, See("recycled", {"a"}), See("recycled", {"b"}), Return("PASS")>>,
             <<Cleanup("a"), Cleanup("b")>>)
 @@ "UA-2-4-004" :>
        Body(Made(<<Born("a"), Fetch("a")>>),
             <<Call("soft", {"a"}), Page, FetchBinned("a"), Look({"a"}), Return("PASS")>>,
             <<Cleanup("a")>>)
 @@ "UA-2-4-009" :>
        Body(Made(<<Born("a")>>),
             <<Call("soft", {"a"}), Try("write", {"a"}), Refused, Return("PASS")>>,
             <<Cleanup("a")>>)
 @@ "UA-2-4-026" :>
        Body(Made(<<Born("a"), Fetch("a")>>),
             <<Call("soft", {"a"}), Retire({"a"}), Try("add", {"twin"}), Accepted, Return("PASS")>>,
             <<Cleanup("a")>>)
 @@ "UA-2-4-027" :>
        Body(Made(<<Born("a"), Born("b")>>),
             <<Call("soft", {"a"}), See("active", {"b"}), Return("PASS")>>,
             <<Cleanup("a"), Cleanup("b")>>)

OpcuaPreserved ==
    Body(Made(<<Born("a")>>),
         <<Sample({"a", "types", "mock"}), Read, Call("soft", {"a"}), Look({"a"}), Return("PASS")>>,
         <<Cleanup("a")>>)

\* 011, 012: an AssertFail of the history fixture makes the case BLOCKED.
SoftDeleteHistory ==
    [Body(Made(<<Born("a")>>),
          <<Look({"a"}), Call("soft", {"a"}), Read, Return("OBSERVED")>>,
          <<Cleanup("a")>>) EXCEPT !.onAssert = "BLOCKED"]

RestoreExplore ==
    "UA-2-4-018" :>
        Body(Made(<<Born("a")>>),
             <<Call("soft", {"a"}), Call("restore", {"a"}), Try("restore", {"a"}), Return("OBSERVED")>>,
             <<Cleanup("a")>>)
 @@ "UA-2-4-019" :>
        Body(Made(<<Born("a"), Born("b"), Born("c")>>),
             <<Call("soft", {"a"}), Call("soft", {"b"}), Call("soft", {"c"}),
               Try("restore", {"a", "stray", "b"}), Read, Return("OBSERVED")>>,
             <<Cleanup("a"), Cleanup("b"), Cleanup("c")>>)

\* 025 adds the soft-deleted tag again, and cleans up only the old one.
PhysicalExplore ==
    "UA-2-4-021" :>
        Body(Made(<<Born("a"), Born("b")>>),
             <<Call("soft", {"a"}), Call("soft", {"b"}), Retire({"a", "b"}),
               Page, See("unbinned", {"a", "b"}), See("inactive", {"a", "b"}), Return("PASS")>>,
             <<Cleanup("a"), Cleanup("b")>>)
 @@ "UA-2-4-022" :>
        Body(Made(<<Born("a")>>),
             <<Call("soft", {"a"}), Retire({"a"}), Try("purge", {"a"}), Return("OBSERVED")>>,
             <<Cleanup("a")>>)
 @@ "UA-2-4-023" :>
        Body(Made(<<Born("a")>>),
             <<Call("soft", {"a"}), TryRetire({"a", "stray"}), Read, Return("OBSERVED")>>,
             <<Cleanup("a")>>)
 @@ "UA-2-4-025" :>
        Body(Made(<<Born("a"), Fetch("a")>>),
             <<Call("soft", {"a"}), Try("add", {"twin"}), IfOk(Read), Return("OBSERVED")>>,
             <<Cleanup("a")>>)

RecycleCases ==
    "UA-2-4-001" :> SoftDeleteOne
 @@ "UA-2-4-013" :> RestoreOne
 @@ "UA-2-4-020" :> PhysicalDeleteOne
 @@ "UA-2-4-024" :> PhysicalDeleteIrreversible
 @@ "UA-2-4-010" :> OpcuaPreserved
 @@ "UA-2-4-011" :> SoftDeleteHistory
 @@ "UA-2-4-012" :> SoftDeleteHistory
 @@ SoftDeleteExplore @@ BatchRestore @@ RestoreExplore @@ PhysicalExplore @@ Dispatch
=============================================================================
