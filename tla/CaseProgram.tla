---------------------------- MODULE CaseProgram ----------------------------
(***************************************************************************)
(* How one harness case runs: the calls of its body on the DataHub, the     *)
(* `finally` that cleans up, and the registry the runner sweeps when the    *)
(* body is over.  The bodies themselves are data, one script per case, in   *)
(* the Cases* modules; here are the helpers of ua2_ops.py and the fixtures  *)
(* they are made of, and the hub as those helpers find it.                  *)
(*                                                                         *)
(* The hub is external.  It may refuse a call, carry one out although the   *)
(* caller saw it time out (at once or much later), or accept one and do     *)
(* nothing; MaxFaults bounds how often per case.                            *)
(***************************************************************************)
EXTENDS CaseSteps, FiniteSets

CONSTANTS
    Scripts,    \* the body of every case: [Cases -> Script]
    MaxFaults   \* how many times the hub misbehaves in one case

ASSUME ScriptsAssumption == \A c \in DOMAIN Scripts : Scripts[c] \in Script
ASSUME MaxFaultsAssumption == MaxFaults \in Nat

VARIABLES
    case,       \* the case that runs
    section,    \* where it is: "pre", "body", "fin", "sweep" or "over"
    todo,       \* the steps left in the section
    page,       \* the full pages read of the listing at hand, even or odd
    answer,     \* how the last attempt ended: "ok" or "refused"
    verdict,    \* what the body returned or raised, "none" before
    known,      \* items whose id the body holds
    registered, \* ResourceRegistry._stack: the fallbacks registered
    residual,   \* fallbacks that failed: the case ends CLEANUP_FAILED
    hub,        \* the status of every item
    flight,     \* calls that timed out at the client and may still land
    faults,     \* misbehaviours of the hub so far
    disowned,   \* history: items added by a step that registers no fallback, while
                \* they had none, or whose fallback was popped by itself
    unanswered, \* history: items created by a call whose answer was lost
    lied        \* history: items the hub said it deleted or enabled and did not

caseVars == <<case, section, todo, page, answer, verdict>>
heldVars == <<known, registered, residual, disowned>>
hubVars  == <<hub, flight, faults, unanswered, lied>>
vars     == <<case, section, todo, page, answer, verdict, known, registered, residual,
              disowned, hub, flight, faults, unanswered, lied>>

This == Scripts[case]
Late == [op : Calls, on : SUBSET Items]

TypeOK ==
    /\ case \in DOMAIN Scripts
    /\ section \in {"pre", "body", "fin", "sweep", "over"}
    /\ todo \in Seq(Step)
    /\ page \in {0, 1}
    /\ answer \in {"ok", "refused"}
    /\ verdict \in Verdicts \cup {"none"}
    /\ known \subseteq Items
    /\ registered \subseteq Items
    /\ residual \subseteq Items
    /\ hub \in [Items -> Statuses]
    /\ flight \subseteq Late
    /\ faults \in 0..MaxFaults
    /\ disowned \subseteq Items
    /\ unanswered \subseteq Items
    /\ lied \subseteq Items

Init ==
    /\ case \in DOMAIN Scripts
    /\ section = "pre"
    /\ todo = Scripts[case].pre
    /\ page = 0
    /\ answer = "ok"
    /\ verdict = "none"
    /\ known = {}
    /\ registered = {}
    /\ residual = {}
    /\ hub = [x \in Items |-> Home(x)]
    /\ flight = {}
    /\ faults = 0
    /\ disowned = {}
    /\ unanswered = {}
    /\ lied = {}
-----------------------------------------------------------------------------
(***************************************************************************)
(* The hub.                                                                *)
(***************************************************************************)
NameFree(x) == \A y \in Tags : NameOf(y) = NameOf(x) => hub[y] = "absent"
Able(op, x) == op = "batch" \/ (hub[x] \in From(op) /\ (op = "add" => NameFree(x)))
CarriedOut(op, S) ==
    [x \in Items |-> IF x \in S \ {"stray"} /\ hub[x] \in From(op) THEN To(op) ELSE hub[x]]

\* One answer to a call: does the caller see success, what changes at once,
\* what may land later, is it a misbehaviour.
Reply(ok, h, late, bad) == [ok |-> ok, hub |-> h, late |-> late, bad |-> bad]

\* A call everything is in place for has to succeed; a creation under a taken
\* name, a write to what is not there, a void request have to be refused; the
\* rest is up to the hub.  Dropping what still has something below it may be
\* refused, take that along, or leave it.
Replies(op, S) ==
    LET marks    == {x \in S \cap Special : hub[x] = "absent"}
        able     == \A x \in S \ marks : Able(op, x)
        filled   == IF op = "drop"
                    THEN {y \in UNION {Below(x) : x \in S} \ S : hub[y] # "absent"} ELSE {}
        nodeless == op = "write" /\ S \cap Loose # {}
        must     == able /\ marks = {} /\ filled = {} /\ ~nodeless
        mustNot  == "void" \in marks \/ (~able /\ op \in Births \cup {"write"})
    IN  { Reply(TRUE, CarriedOut(op, S), {}, IF mustNot THEN 1 ELSE 0),
          Reply(TRUE, CarriedOut(op, S \cup filled), {}, IF mustNot THEN 1 ELSE 0),
          Reply(FALSE, hub, {}, IF must THEN 1 ELSE 0),
          Reply(TRUE, hub, {}, 1) }
        \cup (IF S \cap {"mock", "local"} # {} THEN {}
              ELSE {Reply(FALSE, hub, {[op |-> op, on |-> S]}, 1)})

Answered(op, S, r) ==
    /\ faults + r.bad <= MaxFaults
    /\ faults' = faults + r.bad
    /\ hub' = r.hub
    /\ flight' = flight \cup r.late
    /\ unanswered' = IF op \in Births /\ r.late # {} THEN unanswered \cup S ELSE unanswered
    /\ lied' = IF op \in {"purge", "drop", "on"} /\ r.ok
               THEN lied \cup {x \in S : r.hub[x] # To(op)} ELSE lied

\* A call the client gave up on is carried out after all.
Land ==
    \E f \in flight :
        /\ hub' = IF f.op = "add" /\ \E x \in f.on : ~NameFree(x)
                  THEN hub ELSE CarriedOut(f.op, f.on)
        /\ flight' = flight \ {f}
        /\ UNCHANGED <<caseVars, heldVars, faults, unanswered, lied>>
-----------------------------------------------------------------------------
(***************************************************************************)
(* Moving through the body.                                                *)
(***************************************************************************)
Now == Head(todo)
Wanted ==
    CASE Now.when = "always" -> {TRUE}
      [] Now.when = "failed" -> {verdict \notin {"PASS", "OBSERVED"}}
      [] Now.when = "held"   -> {Now.on \subseteq known}
      [] Now.when = "maybe"  -> BOOLEAN
      [] OTHER               -> {answer = Now.when}
At(kinds) ==
    /\ section \in {"pre", "body", "fin"}
    /\ todo # <<>>
    /\ Now.kind \in kinds
    /\ TRUE \in Wanted

Onward == todo' = Tail(todo) /\ page' = 0 /\ UNCHANGED <<case, section, verdict>>

\* Mutant: the finally is passed over.
LeaveForGood(v) ==
    /\ verdict' = v
    /\ section' = "sweep"
    /\ todo' = <<>>
    /\ page' = 0
    /\ UNCHANGED case

\* The body is left with v: out of the try into its finally, and from
\* before the try, or from the finally itself, to the runner's sweep.
Leave(v) ==
    /\ verdict' = v
    /\ section' = IF section = "body" THEN "fin" ELSE "sweep"
    /\ todo' = IF section = "body" THEN This.fin ELSE <<>>
    /\ page' = 0
    /\ UNCHANGED case
Raise      == Leave(IF section = "body" THEN This.onRaise ELSE "ERROR")
AssertFail == Leave(IF section = "body" THEN This.onAssert ELSE "FAIL")
\* execute_ua2_case makes a BaselineError nobody caught BLOCKED.
NoBaseline == Leave(IF section = "body" /\ This.onRaise # "ERROR" THEN This.onRaise ELSE "BLOCKED")

Skip ==
    /\ section \in {"pre", "body", "fin"}
    /\ todo # <<>>
    /\ FALSE \in Wanted
    /\ Onward
    /\ UNCHANGED <<answer, heldVars, hubVars>>

NextSection ==
    /\ section \in {"pre", "body", "fin"}
    /\ todo = <<>>
    /\ section' = CASE section = "pre" -> "body" [] section = "body" -> "fin"
                    [] section = "fin" -> "sweep"
    /\ todo' = CASE section = "pre" -> This.body [] section = "body" -> This.fin
                 [] section = "fin" -> <<>>
    /\ UNCHANGED <<case, page, answer, verdict, heldVars, hubVars>>

\* A misbehaviour that changes nothing on the hub: an answer that does not
\* come, a view or a value that is not what it should be.
Misbehaves == faults < MaxFaults /\ faults' = faults + 1

\* ensure_mock_ready, ensure_logged_in, require_shared_datasource: a source
\* that is not alive is a BaselineError, which makes the case BLOCKED.
NeedBaseline ==
    /\ At({"need"})
    /\ \/ UNCHANGED faults /\ IF \A x \in Now.on : hub[x] = "on"
                               THEN Onward ELSE NoBaseline
       \/ Misbehaves /\ (Raise \/ (Now.on # {"mock"} /\ NoBaseline))
    /\ UNCHANGED <<answer, heldVars, hub, flight, unanswered, lied>>

\* Nobody but the rest of the body is going to remove what the step adds.
Disown == disowned' = IF Now.op \in Births THEN disowned \cup (Now.on \ registered) ELSE disowned

PlainCall ==
    /\ At({"call"})
    /\ \E r \in Replies(Now.op, Now.on) :
        /\ Answered(Now.op, Now.on, r)
        /\ IF r.ok THEN Onward ELSE Raise
    /\ Disown
    /\ UNCHANGED <<answer, known, registered, residual>>

\* try: ... except Exception, with a flag for what happened.
Attempt ==
    /\ At({"try", "also"})
    /\ \E r \in Replies(Now.op, Now.on) :
        /\ Answered(Now.op, Now.on, r)
        /\ answer' = IF ~r.ok THEN "refused" ELSE IF Now.kind = "also" THEN answer ELSE "ok"
    /\ Onward
    /\ Disown
    /\ UNCHANGED <<known, registered, residual>>

\* create_case_tag, create_datasource, create_tag: the fallback is
\* registered when the id is there, and not before.
Create ==
    /\ At(Registering)
    /\ \E r \in Replies(Now.op, Now.on) :
        /\ Answered(Now.op, Now.on, r)
        /\ IF r.ok \/ Now.kind = "tryborn" THEN Onward ELSE Raise
        /\ answer' = IF r.ok THEN "ok" ELSE "refused"
        /\ known' = IF r.ok /\ Now.kind # "make" THEN known \cup Now.on ELSE known
        /\ registered' = IF r.ok THEN registered \cup Now.on ELSE registered
    /\ UNCHANGED <<residual, disowned>>

\* Mutant: the fallback goes although the delete was refused.
RetirementUnchecked ==
    /\ At({"retire", "tryretire"})
    /\ \E r \in Replies(Now.op, Now.on) :
        /\ Answered(Now.op, Now.on, r)
        /\ IF r.ok \/ Now.kind = "tryretire" THEN Onward ELSE Raise
        /\ answer' = IF r.ok THEN "ok" ELSE "refused"
        /\ registered' = registered \ Now.on
    /\ UNCHANGED <<known, residual, disowned>>

\* physical_delete_tag, or delete_ds_info, and, when it did not raise,
\* registry.pop.
Retirement ==
    /\ At({"retire", "tryretire"})
    /\ \E r \in Replies(Now.op, Now.on) :
        /\ Answered(Now.op, Now.on, r)
        /\ IF r.ok \/ Now.kind = "tryretire" THEN Onward ELSE Raise
        /\ answer' = IF r.ok THEN "ok" ELSE "refused"
        /\ registered' = IF r.ok THEN registered \ Now.on ELSE registered
    /\ UNCHANGED <<known, residual, disowned>>

PopFallback ==
    /\ At({"pop"})
    /\ registered' = registered \ Now.on
    /\ disowned' = disowned \cup (Now.on \cap registered)
    /\ Onward
    /\ UNCHANGED <<answer, known, residual, hubVars>>

\* A check, looked at once or polled until a deadline: it finds what it
\* insists on or it does not, unless the hub misbehaves.  A sample waits for a
\* quality other than 0, which a tag without a node never has.
Holds(view, S) ==
    IF view = "dead" THEN \E x \in S : hub[x] \in Shows(view)
                     ELSE \A x \in S : hub[x] \in Shows(view)
CheckView ==
    /\ At({"see", "fetch", "sample"})
    /\ \/ /\ UNCHANGED faults
          /\ IF Holds(Now.op, Now.on) /\ ~(Now.kind = "sample" /\ Now.on \cap Loose # {})
             THEN Onward ELSE IF Now.kind = "fetch" THEN Raise ELSE AssertFail
       \/ Misbehaves /\ (Raise \/ (Now.on # {} /\ AssertFail))
    /\ answer' = IF Now.kind = "sample" THEN "ok" ELSE answer
    /\ UNCHANGED <<heldVars, hub, flight, unanswered, lied>>

\* _qtq_all_pages, all_recycle_rows: the next page, until one is not full.
\* Nothing bounds their number.
TurnPage ==
    /\ At({"turn", "tryturn"})
    /\ \/ /\ UNCHANGED faults
          /\ Onward
          /\ answer' = IF Now.kind = "tryturn" THEN "ok" ELSE answer
       \/ /\ page' = 1 - page
          /\ UNCHANGED <<case, section, todo, answer, verdict, faults>>
       \/ /\ Misbehaves
          /\ IF Now.kind = "tryturn" THEN Onward ELSE Raise
          /\ answer' = IF Now.kind = "tryturn" THEN "refused" ELSE answer
    /\ UNCHANGED <<heldVars, hub, flight, unanswered, lied>>

\* exact(active_rows(...)): the answer says whether there is a row, which
\* also gives the id.
FindRow ==
    /\ At({"find", "tryfind"})
    /\ \/ /\ UNCHANGED faults
          /\ Onward
          /\ answer' = IF Holds("active", Now.on) THEN "ok" ELSE "refused"
          /\ known' = IF Holds("active", Now.on) THEN known \cup Now.on ELSE known
       \/ /\ Misbehaves
          /\ IF Now.kind = "tryfind" THEN Onward ELSE Raise
          /\ answer' = "refused"
          /\ UNCHANGED known
    /\ UNCHANGED <<registered, residual, disowned, hub, flight, unanswered, lied>>

NoteId ==
    /\ At({"note"})
    /\ known' = known \cup Now.on
    /\ Onward
    /\ UNCHANGED <<answer, registered, residual, disowned, hubVars>>

CheckAnswer ==
    /\ At({"answer"})
    /\ IF answer = Now.op THEN Onward ELSE AssertFail
    /\ UNCHANGED <<answer, heldVars, hubVars>>

\* Mutant: a word that is no CaseStatus.
ReturnUnknown ==
    /\ At({"return"})
    /\ Leave("DONE")
    /\ UNCHANGED <<answer, heldVars, hubVars>>

ReturnVerdict ==
    /\ At({"return"})
    /\ Leave(Now.op)
    /\ UNCHANGED <<answer, heldVars, hubVars>>

\* Mutants: the tag is deleted and its fallback kept; a refusal is raised.
CleanupKeepsFallback ==
    /\ At({"cleanup"})
    /\ \E x \in Now.on : \E r \in Replies(Now.op, {x}) :
        IF x \notin known THEN UNCHANGED hubVars ELSE Answered(Now.op, {x}, r)
    /\ Onward
    /\ UNCHANGED <<answer, heldVars>>
CleanupRaises ==
    /\ At({"cleanup"})
    /\ \E x \in Now.on : \E r \in Replies(Now.op, {x}) :
        IF x \notin known
        THEN UNCHANGED <<hubVars, registered>> /\ Onward
        ELSE /\ Answered(Now.op, {x}, r)
             /\ registered' = IF r.ok THEN registered \ {x} ELSE registered
             /\ IF r.ok THEN Onward ELSE Raise
    /\ UNCHANGED <<answer, known, residual, disowned>>

\* cleanup_case_tag: every exception is swallowed, what wait_tag_absent
\* answers is not looked at, and the fallback is popped unless one of the
\* calls raised, the last of which only looks.  _delete_group swallows as well.
CleanupCaseTag ==
    /\ At({"cleanup"})
    /\ \E x \in Now.on : \E r \in Replies(Now.op, {x}), stalled \in {0, 1} :
        IF x \notin known
        THEN UNCHANGED <<hubVars, registered>>
        ELSE /\ Answered(Now.op, {x}, Reply(r.ok, r.hub, r.late, r.bad + stalled))
             /\ registered' = IF r.ok /\ stalled = 0 THEN registered \ {x} ELSE registered
    /\ Onward
    /\ UNCHANGED <<answer, known, residual, disowned>>
-----------------------------------------------------------------------------
(***************************************************************************)
(* The runner: ResourceRegistry.cleanup_all.  Of its order, last in first   *)
(* out, only this is kept: a source or a group goes after what is below it. *)
(***************************************************************************)
ReleaseOp(x) == IF x \in Tags THEN "purge" ELSE "drop"

SweepNext ==
    /\ section = "sweep"
    /\ \E x \in {y \in registered : Below(y) \cap registered = {}} :
       \E r \in Replies(ReleaseOp(x), {x}) :
        /\ Answered(ReleaseOp(x), {x}, r)
        /\ LET raises == CASE x \in CaseTags    -> ~r.ok
                           [] x \in FixtureTags -> ~r.ok /\ r.hub[x] # "absent"
                           [] OTHER             -> r.hub[x] # "absent"
           IN  residual' = IF raises THEN residual \cup {x} ELSE residual
        /\ registered' = registered \ {x}
    /\ UNCHANGED <<caseVars, known, disowned>>

\* Mutants: the first cleanup that raises ends the sweep; the case stays open
\* until nothing failed.
FinishCaseOnFailure ==
    /\ section = "sweep"
    /\ registered = {} \/ residual # {}
    /\ section' = "over"
    /\ UNCHANGED <<case, todo, page, answer, verdict, heldVars, hubVars>>
FinishCaseClean ==
    /\ section = "sweep"
    /\ registered = {}
    /\ residual = {}
    /\ section' = "over"
    /\ UNCHANGED <<case, todo, page, answer, verdict, heldVars, hubVars>>

FinishCase ==
    /\ section = "sweep"
    /\ registered = {}
    /\ section' = "over"
    /\ UNCHANGED <<case, todo, page, answer, verdict, heldVars, hubVars>>

Over == section = "over" /\ UNCHANGED vars

RunCase ==
    \/ Skip \/ NextSection \/ NeedBaseline
    \/ PlainCall \/ Attempt \/ Create \/ Retirement \/ PopFallback
    \/ CheckView \/ TurnPage \/ FindRow \/ NoteId \/ CheckAnswer \/ ReturnVerdict
    \/ CleanupCaseTag \/ SweepNext \/ FinishCase

Next == RunCase \/ Land \/ Over

Spec == Init /\ [][Next]_vars
FairSpec == Spec /\ WF_vars(RunCase)
-----------------------------------------------------------------------------
(***************************************************************************)
(* Properties.                                                             *)
(***************************************************************************)
Covered == registered \cup residual \cup unanswered \cup lied \cup disowned

(***************************************************************************)
(* Nothing a case creates is forgotten in silence: whatever it leaves on    *)
(* the hub is still registered, is reported as a failed cleanup, was        *)
(* created by a call whose answer never came, survived a delete the hub     *)
(* confirmed, or was added by a step that registers nothing or had its      *)
(* fallback popped by a step that deletes nothing.                          *)
(***************************************************************************)
NoSilentLeak == \A x \in Owned : hub[x] # "absent" => x \in Covered

(***************************************************************************)
(* Only an aborted case may leave the shared environment broken: one that   *)
(* returns a verdict of its own has switched every baseline source and the  *)
(* mock it stopped back on.                                                 *)
(***************************************************************************)
ReturnLeavesStanding ==
    section = "over" /\ verdict \in {"PASS", "OBSERVED", "BLOCKED"} /\ lied = {}
    /\ ~Displacing(This)
    => \A x \in Standing : hub[x] = "on"

\* What the scripts have to be for that: each stops nothing of the baseline, or
\* starts it again the way Restoring says, or is excepted above.
ScriptsRestore == \A c \in DOMAIN Scripts : Displacing(Scripts[c]) \/ Restoring(Scripts[c])

(***************************************************************************)
(* On a hub that does everything right no case ends CLEANUP_FAILED but one: *)
(* what a body deletes itself it also takes out of the registry.            *)
(***************************************************************************)
NoFalseResidual == faults = 0 /\ case \notin Misnaming => residual = {}

(***************************************************************************)
(* On such a hub a case that registers whatever it adds leaves nothing of   *)
(* its own, whether its body came to its end or was left on the way.        *)
(***************************************************************************)
LeavesNothingBacked ==
    section = "over" /\ faults = 0 /\ case \notin Misnaming /\ BacksAll(This)
    => \A x \in Owned : hub[x] = "absent"

\* What the scripts have to be for these two.
ScriptsTidy == \A c \in DOMAIN Scripts \ Misnaming : Tidy(Scripts[c])

(***************************************************************************)
(* Cleaning up never masks the result (cleanup_case_tag): in a case whose   *)
(* `finally` only cleans up its tags, what the body concluded stands.       *)
(***************************************************************************)
OnlyCleansUp(script) == \A i \in 1..Len(script.fin) : script.fin[i].kind = "cleanup"
CleanupNeverMasks ==
    [][verdict # "none" /\ OnlyCleansUp(This) => verdict' = verdict]_vars

(***************************************************************************)
(* A case keeps the contract of CaseCustody, by which HarnessRunner knows   *)
(* it: it takes and releases only while it is open, ends with nothing       *)
(* registered, and ends clean exactly when no fallback failed.              *)
(***************************************************************************)
Contract == INSTANCE CaseCustody WITH
    Resources <- Items,
    open <- section # "over",
    custody <- registered,
    faulty <- residual # {},
    ledger <- IF section = "over" THEN <<residual = {}>> ELSE <<>>
KeepsCustody == Contract!Opened /\ [][Contract!Next]_Contract!vars

(***************************************************************************)
(* Every case ends, whatever the hub answers, unless it pages through a     *)
(* listing that never comes to its last page: every other wait of a body,   *)
(* of its `finally` and of the sweep has a deadline or a bound.             *)
(***************************************************************************)
Paging == section \in {"pre", "body", "fin"} /\ todo # <<>> /\ Now.kind \in {"turn", "tryturn"}
CaseEnds == <>(section = "over") \/ <>[]Paging
=============================================================================
