----------------------------- MODULE CaseSteps -----------------------------
(***************************************************************************)
(* The vocabulary the case bodies of ua_test_harness are written in: what   *)
(* they work on, what a call does to it, and the shape of a body.           *)
(***************************************************************************)
EXTENDS Naturals, Sequences

(***************************************************************************)
(* What a case works on.  "twin" is a tag with the name of "a"; "loose" and *)
(* "loose2" are tags a value is waited for, or written to, although *)
(* their tagBaseName is no node of the server, which is what create_tag_raw *)
(* chooses when it is given none.  Tags "f", "g" and "h" come from          *)
(* fixtures/tag.py, the others from ua2_ops.py: their registered fallbacks  *)
(* differ.  A loop over n things is written over two or three of them.      *)
(*                                                                         *)
(* Some names stand for what makes a request special: "odd" and "odd2" for  *)
(* one whose outcome the cases leave to the hub, "void" for one the hub has *)
(* to refuse, "stray" for an id that nothing has.                           *)
(***************************************************************************)
Loose == {"loose", "loose2"}
CaseTags == {"a", "b", "c", "twin", "odd", "odd2", "void"} \cup Loose
FixtureTags == {"f", "g", "h"}
Tags == CaseTags \cup FixtureTags
OwnSources == {"ds", "ds2"}            \* data sources a case creates
Groups == {"grp", "sub", "side"}       \* tag groups; "sub" is inside "grp"
Standing == {"types", "empty", "mock"} \* the two baseline sources, and the
                                       \* OPC UA server behind "types"
\* "local" is MockManager's own server, which a run against a server of
\* somebody else's (controlMode external-script) does not start: the calls of
\* mock_control go there unless they are given the run's context.
Owned == Tags \cup OwnSources \cup Groups
Items == Owned \cup Standing \cup {"local", "stray"}
Special == {"odd", "odd2", "void", "stray"}

NameOf(x) == IF x = "twin" THEN "a" ELSE x

Statuses == {"absent", "active", "recycled", "on", "off"}
Home(x) == CASE x \in Standing -> "on" [] x = "local" -> "off" [] OTHER -> "absent"

\* What has to be gone before x can go: the group in a group, the tags of a source.
Below(x) ==
    CASE x = "grp" -> {"sub"}
      [] x = "ds"  -> {"f", "h", "a", "loose"}
      [] x = "ds2" -> {"g"}
      [] OTHER     -> {}

(***************************************************************************)
(* What a call does to one item: where it may start and where it ends.      *)
(* tpt_api/README.md: a soft-deleted tag keeps its name in the recycle bin  *)
(* and a physical delete frees it; ua_test_gui/doc/to_gpt.md: the physical  *)
(* delete takes a tag out of the active view as well.  A batch skips, or    *)
(* overwrites, what is there already.                                       *)
(***************************************************************************)
Births == {"add", "batch", "group", "source"}
Calls == Births \cup {"soft", "restore", "purge", "write", "update", "on", "off", "drop"}

From(op) ==
    CASE op \in Births         -> {"absent"}
      [] op \in {"soft", "write", "update"} -> {"active"}
      [] op = "restore"        -> {"recycled"}
      [] op = "purge"          -> {"active", "recycled"}
      [] op \in {"on", "off"}  -> {"on", "off"}
      [] op = "drop"           -> {"on", "off", "active", "recycled"}

To(op) ==
    CASE op \in {"add", "batch", "group", "restore", "write", "update"} -> "active"
      [] op = "soft"             -> "recycled"
      [] op \in {"purge", "drop"} -> "absent"
      [] op \in {"off", "source"} -> "off"
      [] op = "on"               -> "on"

(***************************************************************************)
(* What a check insists on: the active view, the recycle bin, the list of   *)
(* all configurations, the alive flag.                                      *)
(***************************************************************************)
Views == {"active", "inactive", "recycled", "unbinned", "listed", "absent", "any", "dead", "never"}
Shows(view) ==
    CASE view = "active"   -> {"active", "on"}
      [] view = "inactive" -> {"recycled", "absent", "off"}
      [] view = "recycled" -> {"recycled"}
      [] view = "unbinned" -> {"active", "absent"}
      [] view = "listed"   -> {"active", "recycled", "on", "off"}
      [] view = "absent"   -> {"absent"}
      [] view = "any"      -> Statuses
      [] view = "dead"     -> {"absent", "off"}
      [] view = "never"    -> {}

Verdicts == {"PASS", "OBSERVED", "BLOCKED", "FAIL", "ERROR"}

(***************************************************************************)
(* Steps.  Each is done always, or only when the last answer was "ok" or    *)
(* "refused", or when the body has failed, or when the ids it needs are     *)
(* held, or when a value the model leaves out says so ("maybe").            *)
(***************************************************************************)
Kinds == {"call", "try", "also", "born", "tryborn", "make", "see", "sample", "find", "tryfind",
          "fetch", "turn", "tryturn", "note", "answer", "need", "retire", "tryretire", "pop", "cleanup", "return"}
Whens == {"always", "ok", "refused", "failed", "held", "maybe"}
Acts == {"call", "try", "also"}                \* these register nothing
Registering == {"born", "tryborn", "make"}
Releasing == {"retire", "tryretire", "cleanup"}
WellFormed(s) ==
    /\ s.kind \in Acts => s.op \in Calls
    /\ s.kind \in Registering => s.op \in Births
    /\ s.kind \in Releasing => s.op \in {"purge", "drop"}
    /\ s.kind = "return" => s.op \in Verdicts
Step == {s \in [kind : Kinds, op : Calls \cup Views \cup Verdicts \cup {"-", "ok", "refused"},
                on : SUBSET Items, when : Whens] : WellFormed(s)}

DoStep(k, op, S) == [kind |-> k, op |-> op, on |-> S, when |-> "always"]
Need(S)     == DoStep("need", "-", S)         \* require_shared_datasource
Born(x)     == DoStep("born", "add", {x})     \* create, then register a fallback
TryBorn(x)  == DoStep("tryborn", "add", {x})  \* the same, the exception swallowed
Make(x)     == DoStep("make", "add", {x})     \* Born, one of a list not bound yet
Source(x)   == DoStep("born", "source", {x})
Call(op, S) == DoStep("call", op, S)
Try(op, S)  == DoStep("try", op, S)           \* the exception is swallowed
Also(op, S) == DoStep("also", op, S)          \* the same; a refusal before it stands
See(v, S)   == DoStep("see", v, S)            \* AssertFail if it is not so
Look(S)     == See("any", S)                  \* compare values of these
Read        == See("any", {})                 \* read, assert nothing
Page        == DoStep("turn", "-", {})        \* page through a listing to its last page
TryPage     == DoStep("tryturn", "-", {})     \* the same, the exception swallowed
Sample(S)   == DoStep("sample", "active", S)  \* wait for a value of good quality
Find(x)     == DoStep("find", "active", {x})  \* is it there, and under which id
TryFind(x)  == DoStep("tryfind", "active", {x})
Fetch(x)    == DoStep("fetch", "active", {x}) \* rows[0]: IndexError without it
NoteAll(S)  == DoStep("note", "-", S)         \* remember the ids for the finally
Note(x)     == NoteAll({x})
Accepted    == DoStep("answer", "ok", {})     \* check_true on the last answer
Refused     == DoStep("answer", "refused", {})
Retire(S)   == DoStep("retire", "purge", S)   \* physical delete, then pop
TryRetire(S) == DoStep("tryretire", "purge", S)
RetireSource(x)    == DoStep("retire", "drop", {x})
TryRetireSource(x) == DoStep("tryretire", "drop", {x})
Pop(x)      == DoStep("pop", "-", {x})        \* registry.pop by itself
Cleanup(x)  == DoStep("cleanup", "purge", {x}) \* cleanup_case_tag
CleanupOne(S) == DoStep("cleanup", "purge", S) \* of one of these
Discard(g)  == DoStep("cleanup", "drop", {g}) \* delete a group, swallow errors
Return(v)   == DoStep("return", v, {})
IfOk(s)      == [s EXCEPT !.when = "ok"]
IfRefused(s) == [s EXCEPT !.when = "refused"]
IfFailed(s)  == [s EXCEPT !.when = "failed"]
IfHeld(s)    == [s EXCEPT !.when = "held"]
Maybe(s)     == [s EXCEPT !.when = "maybe"]

(***************************************************************************)
(* A body: what comes before its `try`, what is inside, what its `finally`  *)
(* does; onAssert and onRaise are what an AssertFail and another exception   *)
(* inside become.  One without a `try` is all in the first part.             *)
(***************************************************************************)
Script == [pre : Seq(Step), body : Seq(Step), fin : Seq(Step),
           onAssert : Verdicts, onRaise : Verdicts]
Body(pre, body, fin) ==
    [pre |-> pre, body |-> body, fin |-> fin, onAssert |-> "FAIL", onRaise |-> "ERROR"]
Straight(steps) == Body(steps, <<>>, <<>>)
Swallowing(script, v) == [script EXCEPT !.onAssert = v, !.onRaise = v]
Each(cases, script) == [c \in cases |-> script]

StepsOf(script) ==
    {script.pre[i] : i \in 1..Len(script.pre)}
    \cup {script.body[i] : i \in 1..Len(script.body)}
    \cup {script.fin[i] : i \in 1..Len(script.fin)}

\* A script that starts the other server in place of the one it stopped.
Displacing(script) == \E s \in StepsOf(script) : s.op = "on" /\ "local" \in s.on

(***************************************************************************)
(* The discipline of the scripts that stop a baseline source or the mock:   *)
(* they stop it by a plain call, which raises when it is refused, an        *)
(* exception or a failed check makes them FAIL or ERROR, and every stop is  *)
(* followed by a start: before anything that may end the section with       *)
(* another verdict, or in the `finally`, which then contains nothing of     *)
(* that kind.  A script that stops nothing meets it.                        *)
(***************************************************************************)
Failures == {"FAIL", "ERROR"}
Stops(s, x)  == s.op \in {"off", "drop"} /\ x \in s.on
Starts(s, x) == s.kind = "call" /\ s.op = "on" /\ s.when = "always" /\ x \in s.on
Departs(s)   == s.kind \in {"need", "return"}

\* After position i of seq, x is started before the section may be departed from.
StartedAfter(seq, i, x) ==
    \E k \in i + 1 .. Len(seq) :
        Starts(seq[k], x) /\ \A j \in i + 1 .. k - 1 : ~Departs(seq[j])

\* x, stopped at position i of what is left of a section, is started again.
Mends(script, section, seq, i, x) ==
    \/ StartedAfter(seq, i, x)
    \/ section = "body" /\ StartedAfter(script.fin, 0, x)
    \/ /\ section = "pre" /\ StartedAfter(script.fin, 0, x)
       /\ \A j \in i + 1 .. Len(seq) : ~Departs(seq[j])

Careful(script, section, seq, x) ==
    \A i \in 1..Len(seq) : Stops(seq[i], x) => Mends(script, section, seq, i, x)

Touches(script, x) == \E s \in StepsOf(script) : Stops(s, x)
Restores(script, x) ==
    /\ script.onAssert \in Failures /\ script.onRaise \in Failures
    /\ \A s \in StepsOf(script) : Stops(s, x) => s.kind = "call" /\ s.op = "off"
    /\ \A i \in 1..Len(script.fin) : ~Departs(script.fin[i])
    /\ Careful(script, "pre", script.pre, x)
    /\ Careful(script, "body", script.body, x)
    /\ Careful(script, "fin", script.fin, x)

Restoring(script) ==
    /\ \A s \in StepsOf(script) : s.kind \in Registering => s.on \cap Standing = {}
    /\ \A x \in Standing : Touches(script, x) => Restores(script, x)

(***************************************************************************)
(* The discipline that spares a case a CLEANUP_FAILED of its own making: a  *)
(* fallback finds what it is to delete, and a source is empty when its turn *)
(* comes.  So a tag whose fallback insists on finding it is deleted only by *)
(* what takes that fallback back too, unless the step before has just done  *)
(* so; and a tag of a source loses its fallback without being deleted only  *)
(* right before it is, or right after its source was, for good.             *)
(***************************************************************************)
Registers(s, x) == s.kind \in Registering /\ x \in s.on
Backed(script)  == UNION {s.on : s \in {t \in StepsOf(script) : t.kind \in Registering}}
Hosts(script)   == Backed(script) \cap OwnSources
Hosted(script)  == UNION {Below(x) : x \in Hosts(script)}
Firm(script)    == Backed(script) \cap CaseTags   \* the fallback raises if it finds nothing

Registrable(s) ==
    \/ s.op = "add" /\ s.on \subseteq Tags
    \/ s.op = "source" /\ s.on \subseteq OwnSources
TidyStep(script, s) ==
    /\ s.kind \in Registering => Registrable(s)
    /\ s.kind \in Acts /\ s.op \in Births => s.on \cap Hosted(script) = {}
    /\ s.kind \in Acts /\ s.op = "source" => s.on \cap Backed(script) = {}
    /\ s.kind \in Releasing /\ s.op = "purge" => s.on \cap OwnSources = {}
    /\ s.op = "drop" => \A x \in s.on : ({x} \cup Below(x)) \cap Firm(script) = {}

Deletes(s, y) == s.kind \in Acts /\ s.op = "purge" /\ y \in s.on
PopsBelow(s, x) == s.kind = "pop" /\ s.on \cap Below(x) # {}

\* No step of the case after position i of seq, what is left of a section,
\* registers x.
NeverAgain(script, section, seq, i, x) ==
    /\ \A j \in i + 1 .. Len(seq) : ~Registers(seq[j], x)
    /\ section = "pre" => \A j \in 1..Len(script.body) : ~Registers(script.body[j], x)
    /\ section \in {"pre", "body"} => \A j \in 1..Len(script.fin) : ~Registers(script.fin[j], x)

\* The step before position i is always done, and is one of these on x.
JustDid(seq, i, kind, x) ==
    i > 1 /\ seq[i - 1].kind = kind /\ seq[i - 1].when = "always" /\ x \in seq[i - 1].on
PurgedNext(seq, i) ==
    i < Len(seq) /\ \E y \in Tags : seq[i].on = {y} /\ seq[i + 1] = Call("purge", {y})

TidySection(script, section, seq) ==
    \A i \in 1..Len(seq) :
        /\ \A y \in Firm(script) : Deletes(seq[i], y) => JustDid(seq, i, "retire", y)
        /\ \A x \in Hosts(script) : PopsBelow(seq[i], x) =>
                \/ PurgedNext(seq, i)
                \/ /\ seq[i].when = "ok" /\ JustDid(seq, i, "tryretire", x)
                   /\ NeverAgain(script, section, seq, i, x)

Tidy(script) ==
    /\ \A s \in StepsOf(script) : TidyStep(script, s)
    /\ TidySection(script, "pre", script.pre)
    /\ TidySection(script, "body", script.body)
    /\ TidySection(script, "fin", script.fin)

\* Whatever the script adds gets a fallback, which no step takes back alone.
BacksAll(script) ==
    \A s \in StepsOf(script) : s.kind # "pop" /\ ~(s.kind \in Acts /\ s.op \in Births)

\* UA-2-2-057 renames its tag and cleans up under the new name: the fallback,
\* registered under the old one, stays and finds nothing.
Misnaming == {"UA-2-2-057"}
=============================================================================
