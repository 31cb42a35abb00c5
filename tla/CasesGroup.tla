----------------------------- MODULE CasesGroup -----------------------------
(***************************************************************************)
(* Chapter UA-2-5: the tree of tag groups and the favourites                *)
(* (ua2_group_runtime.py).  Groups are never registered: the `finally`      *)
(* deletes those noted by then, in the order they were made.                *)
(***************************************************************************)
EXTENDS CaseSteps, TLC

LOCAL T == {"types", "mock"}
LOCAL Run(steps, groups) ==
    Body(<<Need(T)>>, steps, [i \in DOMAIN groups |-> Discard(groups[i])])
\* Mutant: the finally does not learn the id.
GrownUnnoted(g) == <<Call("group", {g})>>
Grown(g) == <<Call("group", {g}), Note(g)>>

Tree ==
    Each({"UA-2-5-001", "UA-2-5-002"}, Run(<<Read, Return("PASS")>>, <<>>))
 @@ Each({"UA-2-5-003", "UA-2-5-005"},
         Run(Grown("grp") \o Grown("sub") \o <<See("active", {"grp", "sub"}), Return("PASS")>>,
             <<"grp", "sub">>))
 @@ "UA-2-5-004" :> Run(Grown("grp") \o <<See("active", {"grp"}), Return("PASS")>>, <<"grp">>)

\* The name of the second group of 006 is as fresh as that of the first:
\* case_tag_name ends in the nanoseconds of the clock.
OddGroups ==
    "UA-2-5-006" :>
        Run(Grown("grp") \o <<Try("group", {"side"}), IfOk(Note("side")), Return("OBSERVED")>>,
            <<"grp", "side">>)
 @@ Each({"UA-2-5-007", "UA-2-5-008"}, Run(<<Try("group", {"odd"}), Return("OBSERVED")>>, <<>>))

MovedGroups ==
    "UA-2-5-009" :> Run(Grown("grp") \o <<Call("update", {"grp"}), Look({"grp"}), Return("PASS")>>, <<"grp">>)
 @@ "UA-2-5-010" :>
        Run(<<Call("group", {"side"}), Call("group", {"sub"}), Call("group", {"grp"}),
              NoteAll({"grp", "sub", "side"}), Call("update", {"sub"}), Look({"sub"}), Return("PASS")>>,
            <<"side", "sub", "grp">>)
 @@ "UA-2-5-011" :>
        Run(Grown("sub") \o Grown("grp") \o <<Call("update", {"sub"}), Look({"sub"}), Return("PASS")>>,
            <<"sub", "grp">>)
 @@ "UA-2-5-012" :> Run(<<Try("update", {"stray"}), Return("OBSERVED")>>, <<>>)
 @@ "UA-2-5-013" :>
        Run(<<Call("group", {"grp"}), Call("group", {"sub"}), NoteAll({"grp", "sub"}),
              Try("update", {"grp", "odd"}), Return("OBSERVED")>>, <<"grp", "sub">>)

TagsInGroups ==
    LET Related(tags, steps) ==
            Body(<<Need(T)>>,
                 Grown("grp") \o [i \in DOMAIN tags |-> Make(tags[i])]
                 \o <<NoteAll({tags[i] : i \in DOMAIN tags}),
                      Call("update", {tags[i] : i \in DOMAIN tags}),
                      Call("update", {tags[i] : i \in DOMAIN tags}),
                      See("active", {tags[i] : i \in DOMAIN tags})>> \o steps,
                 [i \in DOMAIN tags |-> Cleanup(tags[i])] \o <<Discard("grp")>>)
    IN  "UA-2-5-014" :> Related(<<"a">>, <<Return("PASS")>>)
     @@ Each({"UA-2-5-015", "UA-2-5-016"}, Related(<<"a", "b">>, <<Return("PASS")>>))
     @@ "UA-2-5-017" :> Related(<<"a", "b">>, <<Try("update", {"a", "b", "odd"}), Return("OBSERVED")>>)

\* 019 to 021 delete a group with a tag in it.
DeletedGroups ==
    "UA-2-5-018" :>
        Run(<<Call("group", {"grp"}), Call("drop", {"grp"}), See("absent", {"grp"}), Return("PASS")>>, <<>>)
 @@ Each({"UA-2-5-019", "UA-2-5-020", "UA-2-5-021"},
         Body(<<Need(T)>>,
              Grown("grp") \o <<Born("a"), Call("update", {"a"}), Try("drop", {"grp", "odd"}),
                                Return("OBSERVED")>>,
              <<Cleanup("a"), Discard("grp"), Discard("grp")>>))
 @@ "UA-2-5-022" :>
        Run(<<Call("group", {"grp"}), Call("group", {"side"}), Call("drop", {"grp", "side"}),
              See("absent", {"grp", "side"}), Return("PASS")>>, <<>>)

\* The finally removes the tags from the favourites before it deletes them.
Favourites ==
    LET Liked(tags, steps) ==
            LET S == {tags[i] : i \in DOMAIN tags}
            IN  Body(<<Need(T)>> \o [i \in DOMAIN tags |-> Born(tags[i])],
                     <<Call("update", S)>> \o steps,
                     <<Try("update", S)>> \o [i \in DOMAIN tags |-> Cleanup(tags[i])])
        Again == Call("update", {"a"})
    IN  "UA-2-5-023" :> Liked(<<"a">>, <<Look({"a"}), Return("PASS")>>)
     @@ "UA-2-5-024" :> Liked(<<"a", "b">>, <<Look({"a", "b"}), Return("PASS")>>)
     @@ "UA-2-5-025" :> Liked(<<"a">>, <<Again, Return("OBSERVED")>>)
     @@ "UA-2-5-026" :> Liked(<<"a">>, <<Look({"a"}), Again, Look({"a"}), Return("PASS")>>)
     @@ "UA-2-5-027" :> Liked(<<"a">>, <<Again, Look({"a"}), Return("PASS")>>)

GroupCases == Tree @@ OddGroups @@ MovedGroups @@ TagsInGroups @@ DeletedGroups @@ Favourites
=============================================================================
