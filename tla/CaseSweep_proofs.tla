-------------------------- MODULE CaseSweep_proofs --------------------------
(***************************************************************************)
(* What a case leaves to the sweep on a hub that does everything right:     *)
(* proofs for every set of scripts that keep to the discipline of Tidy.     *)
(***************************************************************************)
EXTENDS CaseProgram_proofs

(***************************************************************************)
(* An answer of a hub that does everything right: nothing stays under way,  *)
(* a refusal changes nothing, what is confirmed is done, and what is there  *)
(* can be deleted if nothing is below it.                                   *)
(***************************************************************************)
Beneath(op, S) == IF op = "drop" THEN S \cup UNION {Below(x) : x \in S} ELSE S

LEMMA FairReply ==
    ASSUME HubTypes, NEW op \in Calls, NEW S \in SUBSET Items, NEW r \in Replies(op, S),
           NEW extra \in {0, 1}, Answered(op, S, Reply(r.ok, r.hub, r.late, r.bad + extra)),
           faults = 0, faults' = 0
    PROVE  /\ extra = 0 /\ flight' = flight /\ hub' = r.hub
           /\ ~r.ok => hub' = hub
           /\ \A x \in Items :
                hub'[x] = hub[x] \/ (x \in Beneath(op, S) /\ hub[x] \in From(op) /\ hub'[x] = To(op))
           /\ r.ok => \A x \in S \ {"stray"} : hub[x] \in From(op) => hub'[x] = To(op)
           /\ r.ok /\ op \in {"add", "source"} => \A x \in S \ {"stray"} : hub[x] = "absent"
<1> DEFINE marks    == {x \in S \cap Special : hub[x] = "absent"}
           able     == \A x \in S \ marks : Able(op, x)
           filled   == IF op = "drop"
                       THEN {y \in UNION {Below(x) : x \in S} \ S : hub[y] # "absent"} ELSE {}
           nodeless == op = "write" /\ S \cap Loose # {}
           must     == able /\ marks = {} /\ filled = {} /\ ~nodeless
           mustNot  == "void" \in marks \/ (~able /\ op \in Births \cup {"write"})
<1>1. r \in { Reply(TRUE, CarriedOut(op, S), {}, IF mustNot THEN 1 ELSE 0),
              Reply(TRUE, CarriedOut(op, S \cup filled), {}, IF mustNot THEN 1 ELSE 0),
              Reply(FALSE, hub, {}, IF must THEN 1 ELSE 0),
              Reply(TRUE, hub, {}, 1) }
            \cup (IF S \cap {"mock", "local"} # {} THEN {}
                  ELSE {Reply(FALSE, hub, {[op |-> op, on |-> S]}, 1)})
  BY DEF Replies
<1>2. filled \subseteq Beneath(op, S) /\ S \subseteq Beneath(op, S)
  BY DEF Beneath
<1>3. able /\ op \in {"add", "source"} => \A x \in S : hub[x] = "absent"
  <2> SUFFICES ASSUME able, op \in {"add", "source"}, NEW x \in S PROVE hub[x] = "absent"
    OBVIOUS
  <2>1. CASE x \notin marks
    BY <2>1 DEF Able, From, Births
  <2> QED
    BY <2>1
<1>4. ~mustNot /\ op \in {"add", "source"} => able
  BY DEF Births
<1> HIDE DEF must, mustNot, filled, able
<1>5. \A T : \A x \in Items :
        CarriedOut(op, T)[x] = IF x \in T \ {"stray"} /\ hub[x] \in From(op) THEN To(op) ELSE hub[x]
  BY DEF CarriedOut
<1>6. r.bad \in {0, 1} /\ faults' = faults + (r.bad + extra) /\ hub' = r.hub /\ flight' = flight \cup r.late
  BY ReplyFacts DEF HubTypes, Answered, Reply
<1>7. r.bad = 0 /\ extra = 0
  BY <1>6
<1>8. \/ r.ok = TRUE /\ r.late = {} /\ r.hub = CarriedOut(op, S) /\ ~mustNot
      \/ r.ok = TRUE /\ r.late = {} /\ r.hub = CarriedOut(op, S \cup filled) /\ ~mustNot
      \/ r.ok = FALSE /\ r.late = {} /\ r.hub = hub
  BY <1>1, <1>7 DEF Reply
<1>9. flight' = flight /\ (~r.ok => hub' = hub)
  BY <1>6, <1>8
<1>10. \A x \in Items :
         hub'[x] = hub[x] \/ (x \in Beneath(op, S) /\ hub[x] \in From(op) /\ hub'[x] = To(op))
  BY <1>2, <1>5, <1>6, <1>8
<1>11. r.ok => \A x \in S \ {"stray"} : hub[x] \in From(op) => hub'[x] = To(op)
  BY <1>5, <1>6, <1>8
<1>12. r.ok /\ op \in {"add", "source"} => \A x \in S \ {"stray"} : hub[x] = "absent"
  BY <1>3, <1>4, <1>8
<1> QED
  BY <1>6, <1>7, <1>9, <1>10, <1>11, <1>12

LEMMA DeleteWorks ==
    ASSUME HubTypes, NEW x \in Items, NEW op \in {"purge", "drop"}, NEW r \in Replies(op, {x}),
           Answered(op, {x}, r), faults = 0, faults' = 0, hub[x] \in From(op),
           op = "drop" => \A y \in Below(x) : hub[y] = "absent"
    PROVE  r.ok
<1> DEFINE S        == {x}
           marks    == {y \in S \cap Special : hub[y] = "absent"}
           able     == \A y \in S \ marks : Able(op, y)
           filled   == IF op = "drop"
                       THEN {y \in UNION {Below(z) : z \in S} \ S : hub[y] # "absent"} ELSE {}
           nodeless == op = "write" /\ S \cap Loose # {}
           must     == able /\ marks = {} /\ filled = {} /\ ~nodeless
           mustNot  == "void" \in marks \/ (~able /\ op \in Births \cup {"write"})
<1>1. r \in { Reply(TRUE, CarriedOut(op, S), {}, IF mustNot THEN 1 ELSE 0),
              Reply(TRUE, CarriedOut(op, S \cup filled), {}, IF mustNot THEN 1 ELSE 0),
              Reply(FALSE, hub, {}, IF must THEN 1 ELSE 0),
              Reply(TRUE, hub, {}, 1) }
            \cup (IF S \cap {"mock", "local"} # {} THEN {}
                  ELSE {Reply(FALSE, hub, {[op |-> op, on |-> S]}, 1)})
  BY DEF Replies
<1>2. marks = {}
  BY DEF From, Births
<1>3. able
  BY DEF Able
<1>4. filled = {}
  OBVIOUS
<1>5. must
  BY <1>2, <1>3, <1>4
<1> HIDE DEF must, mustNot, filled, able, marks
<1>6. r.bad \in {0, 1} /\ faults' = faults + r.bad
  BY ReplyFacts DEF HubTypes, Answered, Calls
<1>7. r.bad = 0
  BY <1>6
<1> QED
  BY <1>1, <1>5, <1>7 DEF Reply

(***************************************************************************)
(* The inductive invariant, for a tidy script and before any fault: every   *)
(* fallback that insists on a tag has it; what is below a source a case     *)
(* registers has a fallback of its own, is deleted by the very next step,   *)
(* or the source is gone for good; and the steps to come keep it so.        *)
(***************************************************************************)
InSection == section \in {"pre", "body", "fin"}
Doomed(y) == InSteps /\ Now = Call("purge", {y})
Gone(x)   == x \notin registered /\ NeverAgain(This, section, todo, 0, x)

Clean      == flight = {} /\ residual = {}
OfScript   == registered \subseteq Backed(This) /\ registered \subseteq Tags \cup OwnSources
FirmThere  == \A y \in registered \cap CaseTags : hub[y] # "absent"
TagsAsTags == \A y \in Tags \cap (Backed(This) \cup Hosted(This)) : hub[y] \notin {"on", "off"}
BelowHosts == \A x \in Hosts(This) : \A y \in Below(x) :
                hub[y] # "absent" => y \in registered \/ Doomed(y) \/ Gone(x)
AllBacked  == BacksAll(This) => \A x \in Owned : hub[x] # "absent" => x \in registered
DueAt(i) ==
    /\ todo[i] \in StepsOf(This)
    /\ \A y \in Firm(This) : Deletes(todo[i], y) =>
         JustDid(todo, i, "retire", y) \/ (i = 1 /\ y \notin registered)
    /\ \A x \in Hosts(This) : PopsBelow(todo[i], x) =>
         \/ PurgedNext(todo, i)
         \/ /\ todo[i].when = "ok" /\ NeverAgain(This, section, todo, i, x)
            /\ JustDid(todo, i, "tryretire", x) \/ (i = 1 /\ (answer = "ok" => x \notin registered))
Due == InSection => \A i \in 1..Len(todo) : DueAt(i)

Orderly  == Clean /\ OfScript /\ FirmThere /\ TagsAsTags /\ BelowHosts /\ AllBacked /\ Due
SweepInv == faults = 0 /\ Tidy(This) => Orderly

\* What is known before a step that is no fault.
Sound == /\ CaseTypes /\ HubTypes /\ LateBirths /\ registered \subseteq Items
         /\ Tidy(This) /\ faults = 0 /\ faults' = 0 /\ Orderly

(***************************************************************************)
(* What a step does to the hub and the registry, one way or another.        *)
(***************************************************************************)
Effect(op, S, ok) ==
    /\ op \in Calls /\ S \subseteq Items /\ ok \in BOOLEAN
    /\ flight' = flight
    /\ ~ok => hub' = hub
    /\ \A x \in Items :
         hub'[x] = hub[x] \/ (x \in Beneath(op, S) /\ hub[x] \in From(op) /\ hub'[x] = To(op))
    /\ ok => \A x \in S \ {"stray"} : hub[x] \in From(op) => hub'[x] = To(op)
    /\ ok /\ op \in {"add", "source"} => \A x \in S \ {"stray"} : hub[x] = "absent"
Does(kinds) == InSteps /\ Now \in StepsOf(This) /\ Now.kind \in kinds /\ residual' = residual

CallStep ==
    /\ Does(Acts) /\ registered' = registered
    /\ \E ok \in BOOLEAN :
         /\ Effect(Now.op, Now.on, ok)
         /\ \A y \in Items : Doomed(y) /\ hub[y] \in From("purge") => ok
CreateStep ==
    /\ Does(Registering)
    /\ \E ok \in BOOLEAN :
         /\ Effect(Now.op, Now.on, ok)
         /\ registered' = IF ok THEN registered \cup Now.on ELSE registered
ReleaseStep ==
    /\ Does(Releasing)
    /\ \E ok \in BOOLEAN : \E S \in SUBSET Now.on :
         /\ Effect(Now.op, S, ok)
         /\ registered' = IF ok THEN registered \ S ELSE registered
PopStep ==
    /\ Does({"pop"}) /\ TRUE \in Wanted /\ Onward
    /\ registered' = registered \ Now.on
    /\ UNCHANGED <<hub, flight>>
\* x can go, and what its fallback raises for: see SweepNext.
Deletable(x) ==
    hub[x] \in From(ReleaseOp(x)) /\ (ReleaseOp(x) = "drop" => \A y \in Below(x) : hub[y] = "absent")
Complains(x, ok) ==
    /\ x \in CaseTags => ~ok
    /\ x \in FixtureTags => ~ok /\ hub'[x] # "absent"
    /\ x \notin Tags => hub'[x] # "absent"
SweepStep ==
    /\ section = "sweep"
    /\ \E x \in registered : \E ok \in BOOLEAN :
         /\ Below(x) \cap registered = {}
         /\ Effect(ReleaseOp(x), {x}, ok)
         /\ Deletable(x) => ok
         /\ residual' = residual \/ (residual' = residual \cup {x} /\ Complains(x, ok))
         /\ registered' = registered \ {x}
IdleStep ==
    /\ UNCHANGED <<hub, flight, registered, residual>>
    /\ UNCHANGED vars \/ \A y \in Items : ~Doomed(y)

LEMMA NowDue ==
    ASSUME Sound, InSteps
    PROVE  /\ Now = todo[1] /\ Now \in StepsOf(This) /\ TidyStep(This, Now) /\ DueAt(1)
           /\ todo \in Seq(Step) /\ Now \in Step /\ Now.on \in SUBSET Items
<1>1. todo \in Seq(Step) /\ 1 \in 1..Len(todo) /\ Now = todo[1] /\ Now \in Step
  BY DEF Sound, CaseTypes, InSteps, Now
<1>2. DueAt(1)
  BY <1>1 DEF Sound, Orderly, Due, InSection, InSteps
<1>3. Now \in StepsOf(This)
  BY <1>1, <1>2 DEF DueAt
<1>4. TidyStep(This, Now)
  BY <1>3 DEF Sound, Tidy
<1>5. Now.on \in SUBSET Items
  BY <1>1 DEF Step
<1> QED
  BY <1>1, <1>2, <1>3, <1>4, <1>5

LEMMA CallEffect ==
    ASSUME Sound, NEW op \in Calls, NEW S \in SUBSET Items, NEW r \in Replies(op, S),
           NEW extra \in {0, 1}, Answered(op, S, Reply(r.ok, r.hub, r.late, r.bad + extra))
    PROVE  Effect(op, S, r.ok) /\ extra = 0 /\ hub' = r.hub
<1>1. r.ok \in BOOLEAN
  BY ReplyFacts DEF Sound, HubTypes
<1> QED
  BY <1>1, FairReply DEF Sound, Effect

LEMMA PlainEffect ==
    ASSUME Sound, NEW op \in Calls, NEW S \in SUBSET Items, NEW r \in Replies(op, S),
           Answered(op, S, r)
    PROVE  Effect(op, S, r.ok) /\ hub' = r.hub
<1>1. r.bad \in {0, 1}
  BY ReplyFacts DEF Sound, HubTypes
<1>2. Answered(op, S, Reply(r.ok, r.hub, r.late, r.bad + 0))
  BY <1>1 DEF Answered, Reply
<1> QED
  BY <1>2, CallEffect

\* A step of another kind, or one whose turn is not due, deletes nothing now.
LEMMA NotDoomed ==
    ASSUME Sound, (InSteps /\ Now.kind # "call") \/ ~InSteps \/ Now.when # "always"
    PROVE  \A y \in Items : ~Doomed(y)
BY DEF Doomed, Call, DoStep

LEMMA Deeds ==
    ASSUME Sound, Next \/ UNCHANGED vars
    PROVE  CallStep \/ CreateStep \/ ReleaseStep \/ PopStep \/ SweepStep \/ IdleStep
<1>1. CASE Skip
  <2>1. InSteps /\ FALSE \in Wanted
    BY <1>1 DEF Skip, InSteps
  <2>2. Now.when # "always"
    BY <2>1 DEF Wanted
  <2> QED
    BY <1>1, <2>2, NotDoomed DEF Skip, IdleStep, heldVars, hubVars
<1>2. CASE NextSection \/ FinishCase \/ Over
  <2>1. ~InSteps
    BY <1>2 DEF NextSection, FinishCase, Over, InSteps
  <2> QED
    BY <1>2, <2>1, NotDoomed DEF NextSection, FinishCase, Over, vars, IdleStep, heldVars, hubVars
<1>3. CASE NeedBaseline \/ CheckView \/ TurnPage \/ FindRow \/ NoteId \/ CheckAnswer \/ ReturnVerdict
  <2>1. InSteps /\ Now.kind # "call"
    BY <1>3
       DEF NeedBaseline, CheckView, TurnPage, FindRow, NoteId, CheckAnswer, ReturnVerdict, At, InSteps
  <2>2. UNCHANGED <<hub, flight, registered, residual>>
    BY <1>3
       DEF NeedBaseline, CheckView, TurnPage, FindRow, NoteId, CheckAnswer, ReturnVerdict, heldVars,
           hubVars
  <2> QED
    BY <2>1, <2>2, NotDoomed DEF IdleStep
<1>4. CASE UNCHANGED vars
  BY <1>4 DEF IdleStep, vars
<1>5. CASE PlainCall \/ Attempt
  <2>1. InSteps /\ Now.kind \in Acts
    BY <1>5 DEF PlainCall, Attempt, At, InSteps, Acts
  <2>2. /\ Now \in StepsOf(This) /\ Now.op \in Calls /\ Now.on \in SUBSET Items
    BY <2>1, NowDue, NowTypes DEF Sound, InSteps
  <2>3. PICK r \in Replies(Now.op, Now.on) : Answered(Now.op, Now.on, r)
    BY <1>5 DEF PlainCall, Attempt
  <2>4. Effect(Now.op, Now.on, r.ok)
    BY <2>2, <2>3, PlainEffect
  <2>5. ASSUME NEW y \in Items, Doomed(y), hub[y] \in From("purge") PROVE r.ok
    <3>1. Now.op = "purge" /\ Now.on = {y}
      BY <2>5 DEF Doomed, Call, DoStep
    <3> QED
      BY <2>3, <2>5, <3>1, DeleteWorks DEF Sound
  <2>6. r.ok \in BOOLEAN
    BY <2>4 DEF Effect
  <2> QED
    BY <1>5, <2>1, <2>2, <2>4, <2>5, <2>6 DEF CallStep, Does, PlainCall, Attempt
<1>6. CASE Create
  <2>1. InSteps /\ Now.kind \in Registering
    BY <1>6 DEF Create, At, InSteps
  <2>2. /\ Now \in StepsOf(This) /\ Now.op \in Calls /\ Now.on \in SUBSET Items
    BY <2>1, NowDue, NowTypes DEF Sound, InSteps
  <2>3. PICK r \in Replies(Now.op, Now.on) :
          /\ Answered(Now.op, Now.on, r)
          /\ registered' = IF r.ok THEN registered \cup Now.on ELSE registered
    BY <1>6 DEF Create
  <2>4. Effect(Now.op, Now.on, r.ok) /\ r.ok \in BOOLEAN
    BY <2>2, <2>3, PlainEffect DEF Effect
  <2> QED
    BY <1>6, <2>1, <2>2, <2>3, <2>4 DEF CreateStep, Does, Create
<1>7. CASE Retirement
  <2>1. InSteps /\ Now.kind \in Releasing
    BY <1>7 DEF Retirement, At, InSteps, Releasing
  <2>2. /\ Now \in StepsOf(This) /\ Now.op \in Calls /\ Now.on \in SUBSET Items
    BY <2>1, NowDue, NowTypes DEF Sound, InSteps
  <2>3. PICK r \in Replies(Now.op, Now.on) :
          /\ Answered(Now.op, Now.on, r)
          /\ registered' = IF r.ok THEN registered \ Now.on ELSE registered
    BY <1>7 DEF Retirement
  <2>4. Effect(Now.op, Now.on, r.ok) /\ r.ok \in BOOLEAN
    BY <2>2, <2>3, PlainEffect DEF Effect
  <2> QED
    BY <1>7, <2>1, <2>2, <2>3, <2>4 DEF ReleaseStep, Does, Retirement
<1>8. CASE PopFallback
  <2>1. InSteps /\ Now.kind = "pop" /\ TRUE \in Wanted
    BY <1>8 DEF PopFallback, At, InSteps
  <2>2. Now \in StepsOf(This)
    BY <2>1, NowDue
  <2> QED
    BY <1>8, <2>1, <2>2 DEF PopStep, Does, PopFallback, hubVars
<1>9. CASE CleanupCaseTag
  <2>1. InSteps /\ Now.kind \in Releasing /\ Now.kind # "call"
    BY <1>9 DEF CleanupCaseTag, At, InSteps, Releasing
  <2>2. /\ Now \in StepsOf(This) /\ Now.op \in Calls /\ Now.on \in SUBSET Items
    BY <2>1, NowDue, NowTypes DEF Sound, InSteps
  <2>3. PICK x \in Now.on : \E r \in Replies(Now.op, {x}), stalled \in {0, 1} :
          IF x \notin known
          THEN UNCHANGED <<hubVars, registered>>
          ELSE /\ Answered(Now.op, {x}, Reply(r.ok, r.hub, r.late, r.bad + stalled))
               /\ registered' = IF r.ok /\ stalled = 0 THEN registered \ {x} ELSE registered
    BY <1>9 DEF CleanupCaseTag
  <2>4. PICK r \in Replies(Now.op, {x}), stalled \in {0, 1} :
          IF x \notin known
          THEN UNCHANGED <<hubVars, registered>>
          ELSE /\ Answered(Now.op, {x}, Reply(r.ok, r.hub, r.late, r.bad + stalled))
               /\ registered' = IF r.ok /\ stalled = 0 THEN registered \ {x} ELSE registered
    BY <2>3
  <2>5. CASE x \notin known
    BY <1>9, <2>1, <2>4, <2>5, NotDoomed DEF IdleStep, CleanupCaseTag, hubVars
  <2>6. CASE x \in known
    <3>1. {x} \in SUBSET Items /\ {x} \in SUBSET Now.on
      BY <2>2
    <3>2. Effect(Now.op, {x}, r.ok) /\ stalled = 0 /\ r.ok \in BOOLEAN
      BY <2>2, <2>4, <2>6, <3>1, CallEffect DEF Effect
    <3>3. registered' = IF r.ok THEN registered \ {x} ELSE registered
      BY <2>4, <2>6, <3>2
    <3> QED
      BY <1>9, <2>1, <2>2, <3>1, <3>2, <3>3 DEF ReleaseStep, Does, CleanupCaseTag
  <2> QED
    BY <2>5, <2>6
<1>10. CASE SweepNext
  <2>1. PICK x \in {y \in registered : Below(y) \cap registered = {}} :
        \E r \in Replies(ReleaseOp(x), {x}) :
        /\ Answered(ReleaseOp(x), {x}, r)
        /\ LET raises == CASE x \in CaseTags    -> ~r.ok
                           [] x \in FixtureTags -> ~r.ok /\ r.hub[x] # "absent"
                           [] OTHER             -> r.hub[x] # "absent"
           IN  residual' = IF raises THEN residual \cup {x} ELSE residual
        /\ registered' = registered \ {x}
    BY <1>10 DEF SweepNext
  <2>2. PICK r \in Replies(ReleaseOp(x), {x}) :
        /\ Answered(ReleaseOp(x), {x}, r)
        /\ LET raises == CASE x \in CaseTags    -> ~r.ok
                           [] x \in FixtureTags -> ~r.ok /\ r.hub[x] # "absent"
                           [] OTHER             -> r.hub[x] # "absent"
           IN  residual' = IF raises THEN residual \cup {x} ELSE residual
        /\ registered' = registered \ {x}
    BY <2>1
  <2>3. ReleaseOp(x) \in {"purge", "drop"} /\ ReleaseOp(x) \in Calls
    BY DEF ReleaseOp, Calls
  <2>4. x \in Items /\ {x} \in SUBSET Items
    BY DEF Sound
  <2>5. Effect(ReleaseOp(x), {x}, r.ok) /\ r.ok \in BOOLEAN /\ hub' = r.hub
    BY <2>2, <2>3, <2>4, PlainEffect DEF Effect
  <2>6. Deletable(x) => r.ok
    BY <2>2, <2>3, <2>4, DeleteWorks DEF Sound, Deletable
  <2>7. residual' = residual \/ (residual' = residual \cup {x} /\ Complains(x, r.ok))
    <3>1. CASE x \in CaseTags
      <4>1. x \notin FixtureTags /\ x \in Tags
        BY <3>1 DEF CaseTags, FixtureTags, Loose, Tags
      <4> QED
        BY <2>2, <3>1, <4>1 DEF Complains
    <3>2. CASE x \notin CaseTags /\ x \in FixtureTags
      <4>1. x \in Tags
        BY <3>2 DEF Tags
      <4> QED
        BY <2>2, <2>5, <3>2, <4>1 DEF Complains
    <3>3. CASE x \notin CaseTags /\ x \notin FixtureTags
      BY <2>2, <2>5, <3>3 DEF Complains, Tags
    <3> QED
      BY <3>1, <3>2, <3>3
  <2> QED
    BY <1>10, <2>1, <2>2, <2>5, <2>6, <2>7 DEF SweepStep, SweepNext
<1>11. ~Land
  BY DEF Land, Sound, Orderly, Clean
<1> QED
  BY <1>1, <1>2, <1>3, <1>4, <1>5, <1>6, <1>7, <1>8, <1>9, <1>10, <1>11 DEF Next, RunCase

(***************************************************************************)
(* The hub and the registry after a step.                                   *)
(***************************************************************************)
LEMMA CallFacts ==
    ASSUME NEW op \in Calls
    PROVE  /\ "absent" \in From(op) <=> op \in Births
           /\ To(op) = "absent" <=> op \in {"purge", "drop"}
           /\ op = "purge" => From(op) = {"active", "recycled"}
           /\ op = "drop" => From(op) = {"on", "off", "active", "recycled"}
           /\ To(op) \in {"on", "off"} => op = "source" \/ From(op) = {"on", "off"}
           /\ op \in Births => op \notin {"purge", "drop"}
BY DEF Calls, Births, From, To

\* What is registered is a tag of the script, or a source of it.
LEMMA RegisteredFacts ==
    ASSUME Sound, NEW x \in registered
    PROVE  /\ x \in Items /\ x \in Owned /\ x # "stray" /\ x \in Backed(This)
           /\ hub[x] \in Statuses
           /\ x \in Tags => hub[x] \notin {"on", "off"}
           /\ x \notin Tags => x \in OwnSources /\ x \in Hosts(This)
<1>1. x \in Backed(This) /\ x \in Tags \cup OwnSources
  BY DEF Sound, Orderly, OfScript
<1>2. x \in Owned /\ x \in Items /\ x # "stray"
  BY <1>1 DEF Owned, Items, Tags, CaseTags, FixtureTags, Loose, OwnSources
<1>3. hub[x] \in Statuses
  BY <1>2 DEF Sound, HubTypes
<1>4. x \in Tags => hub[x] \notin {"on", "off"}
  BY <1>1 DEF Sound, Orderly, TagsAsTags
<1> QED
  BY <1>1, <1>2, <1>3, <1>4 DEF Hosts

LEMMA SweepWorks ==
    ASSUME Sound, NEW x \in registered, Below(x) \cap registered = {}, section = "sweep",
           hub[x] # "absent"
    PROVE  Deletable(x)
<1>1. ~InSteps
  BY DEF InSteps
<1>2. CASE x \in Tags
  BY <1>2, RegisteredFacts DEF Deletable, ReleaseOp, From, Births, Statuses
<1>3. CASE x \notin Tags
  <2>1. ReleaseOp(x) = "drop" /\ hub[x] \in From("drop")
    BY <1>3, RegisteredFacts DEF ReleaseOp, From, Births, Statuses
  <2>2. ASSUME NEW y \in Below(x) PROVE hub[y] = "absent"
    <3>1. x \in Hosts(This) /\ ~Gone(x) /\ ~Doomed(y) /\ y \notin registered
      BY <1>1, <1>3, RegisteredFacts DEF Gone, Doomed
    <3> QED
      BY <3>1 DEF Sound, Orderly, BelowHosts
  <2> QED
    BY <2>1, <2>2 DEF Deletable
<1> QED
  BY <1>2, <1>3

\* A fallback the sweep runs does what it is for, and does not complain.
LEMMA SweepClean ==
    ASSUME Sound, SweepStep
    PROVE  /\ residual' = residual
           /\ \E x \in registered : registered' = registered \ {x} /\ hub'[x] = "absent"
<1>1. PICK x \in registered : \E ok \in BOOLEAN :
         /\ Below(x) \cap registered = {}
         /\ Effect(ReleaseOp(x), {x}, ok)
         /\ Deletable(x) => ok
         /\ residual' = residual \/ (residual' = residual \cup {x} /\ Complains(x, ok))
         /\ registered' = registered \ {x}
  BY DEF SweepStep
<1>2. PICK ok \in BOOLEAN :
         /\ Below(x) \cap registered = {}
         /\ Effect(ReleaseOp(x), {x}, ok)
         /\ Deletable(x) => ok
         /\ residual' = residual \/ (residual' = residual \cup {x} /\ Complains(x, ok))
         /\ registered' = registered \ {x}
  BY <1>1
<1>3. x \in Items /\ x # "stray" /\ ReleaseOp(x) \in {"purge", "drop"} /\ ReleaseOp(x) \in Calls
  BY RegisteredFacts DEF ReleaseOp, Calls
<1>4. To(ReleaseOp(x)) = "absent" /\ "absent" \notin From(ReleaseOp(x))
  BY <1>3, CallFacts
<1>5. hub[x] # "absent" => ok /\ hub'[x] = "absent"
  <2> SUFFICES ASSUME hub[x] # "absent" PROVE ok /\ hub'[x] = "absent"
    OBVIOUS
  <2>1. Deletable(x)
    BY <1>2, SweepWorks DEF SweepStep
  <2> QED
    BY <1>2, <1>3, <1>4, <2>1 DEF Effect, Deletable
<1>6. hub'[x] = "absent"
  BY <1>2, <1>3, <1>4, <1>5 DEF Effect
<1>7. x \in CaseTags => ok
  BY <1>5 DEF Sound, Orderly, FirmThere
<1>8. ~Complains(x, ok)
  BY <1>6, <1>7 DEF Complains, Tags
<1> QED
  BY <1>2, <1>6, <1>8

\* Whoever loses a fallback, but by a pop, is gone.
LEMMA LostIsGone ==
    ASSUME Sound, CreateStep \/ CallStep \/ ReleaseStep \/ SweepStep \/ IdleStep,
           NEW y \in registered, y \notin registered'
    PROVE  hub'[y] = "absent"
<1>1. CASE CreateStep \/ CallStep \/ IdleStep
  BY <1>1 DEF CreateStep, CallStep, IdleStep
<1>2. CASE SweepStep
  BY <1>2, SweepClean
<1>3. CASE ReleaseStep
  <2>1. PICK ok \in BOOLEAN : \E S \in SUBSET Now.on :
          Effect(Now.op, S, ok) /\ registered' = IF ok THEN registered \ S ELSE registered
    BY <1>3 DEF ReleaseStep
  <2>2. PICK S \in SUBSET Now.on :
          Effect(Now.op, S, ok) /\ registered' = IF ok THEN registered \ S ELSE registered
    BY <2>1
  <2>3. InSteps /\ Now.kind \in Releasing
    BY <1>3 DEF ReleaseStep, Does
  <2>4. Now.op \in {"purge", "drop"} /\ Now.op \in Calls
    BY <2>3, NowTypes DEF Sound, InSteps
  <2>5. ok /\ y \in S /\ y \in Now.on
    BY <2>2
  <2>6. y \in Items /\ y # "stray" /\ hub[y] \in Statuses
    BY RegisteredFacts
  <2>7. To(Now.op) = "absent" /\ "absent" \notin From(Now.op)
    BY <2>4, CallFacts
  <2>8. hub[y] # "absent" => hub[y] \in From(Now.op)
    <3>1. CASE Now.op = "drop"
      BY <2>6, <3>1 DEF From, Births, Statuses
    <3>2. CASE Now.op = "purge"
      <4>1. y \notin OwnSources
        BY <2>3, <2>5, <3>2, NowDue DEF TidyStep
      <4> QED
        BY <2>6, <3>2, <4>1, RegisteredFacts DEF From, Births, Statuses
    <3> QED
      BY <2>4, <3>1, <3>2
  <2> QED
    BY <2>2, <2>5, <2>6, <2>7, <2>8 DEF Effect
<1> QED
  BY <1>1, <1>2, <1>3

\* What comes into being was registered by the step, or added by one that
\* registers nothing.
LEMMA BornHow ==
    ASSUME Sound, CreateStep \/ CallStep \/ ReleaseStep \/ PopStep \/ SweepStep \/ IdleStep,
           NEW y \in Items, hub[y] = "absent", hub'[y] # "absent"
    PROVE  \/ CreateStep /\ y \in registered'
           \/ CallStep /\ Now.op \in Births /\ y \in Now.on
<1>1. ASSUME NEW op, NEW S, NEW ok, Effect(op, S, ok)
      PROVE  op \in Births /\ y \in S /\ ok
  <2>1. y \in Beneath(op, S) /\ "absent" \in From(op) /\ ok /\ op \in Calls
    BY <1>1 DEF Effect
  <2>2. op \in Births
    BY <2>1, CallFacts
  <2>3. op # "drop"
    BY <2>2 DEF Births
  <2> QED
    BY <2>1, <2>2, <2>3 DEF Beneath
<1>2. CASE PopStep \/ IdleStep
  BY <1>2 DEF PopStep, IdleStep
<1>3. CASE SweepStep
  <2>1. \E x : ReleaseOp(x) \in Births
    BY <1>1, <1>3 DEF SweepStep
  <2> QED
    BY <2>1 DEF ReleaseOp, Births
<1>4. CASE ReleaseStep
  <2>1. Now.op \in Births
    BY <1>1, <1>4 DEF ReleaseStep
  <2>2. Now.op \in {"purge", "drop"}
    BY <1>4, NowTypes DEF ReleaseStep, Does, Sound, InSteps
  <2> QED
    BY <2>1, <2>2 DEF Births
<1>5. CASE CallStep
  BY <1>1, <1>5 DEF CallStep
<1>6. CASE CreateStep
  BY <1>1, <1>6 DEF CreateStep
<1> QED
  BY <1>2, <1>3, <1>4, <1>5, <1>6

(***************************************************************************)
(* How the case moves on: it passes to the next step, with what the step    *)
(* before it retired no longer registered; it leaves the section; or the    *)
(* runner has it.                                                           *)
(***************************************************************************)
Passes ==
    /\ InSteps /\ Onward
    /\ Now.when = "always" /\ Now.kind = "retire" => registered' \cap Now.on = {}
    /\ Now.when = "always" /\ Now.kind = "tryretire" /\ answer' = "ok" => registered' \cap Now.on = {}
Leaves  == InSteps /\ \E v : Leave(v)
Stays   == UNCHANGED <<case, section, todo, answer, registered>>
IsSwept == ~InSection /\ ~InSection' /\ UNCHANGED <<case, todo>>

LEMMA Paces ==
    ASSUME Sound, Next \/ UNCHANGED vars
    PROVE  Passes \/ Leaves \/ NextSection \/ Stays \/ IsSwept
<1>1. Raise \/ AssertFail \/ NoBaseline => \E v : Leave(v)
  BY DEF Raise, AssertFail, NoBaseline
<1>2. CASE Skip
  <2>1. InSteps /\ FALSE \in Wanted /\ Onward
    BY <1>2 DEF Skip, InSteps
  <2>2. Now.when # "always"
    BY <2>1 DEF Wanted
  <2> QED
    BY <2>1, <2>2 DEF Passes
<1>3. ASSUME InSteps, Now.kind \notin {"retire", "tryretire"}, Onward \/ \E v : Leave(v)
      PROVE  Passes \/ Leaves
  BY <1>3 DEF Passes, Leaves
<1>4. CASE NeedBaseline \/ PlainCall \/ Attempt \/ Create \/ PopFallback \/ CheckView \/ FindRow
           \/ NoteId \/ CheckAnswer \/ ReturnVerdict \/ CleanupCaseTag
  <2>1. InSteps /\ Now.kind \notin {"retire", "tryretire"}
    BY <1>4
       DEF NeedBaseline, PlainCall, Attempt, Create, PopFallback, CheckView, FindRow, NoteId,
           CheckAnswer, ReturnVerdict, CleanupCaseTag, At, InSteps, Registering
  <2>2. Onward \/ Raise \/ AssertFail \/ NoBaseline \/ \E v : Leave(v)
    BY <1>4
       DEF NeedBaseline, PlainCall, Attempt, Create, PopFallback, CheckView, FindRow, NoteId,
           CheckAnswer, ReturnVerdict, CleanupCaseTag
  <2> QED
    BY <1>1, <1>3, <2>1, <2>2
<1>5. CASE Retirement
  <2>1. PICK r \in Replies(Now.op, Now.on) :
          /\ IF r.ok \/ Now.kind = "tryretire" THEN Onward ELSE Raise
          /\ answer' = IF r.ok THEN "ok" ELSE "refused"
          /\ registered' = IF r.ok THEN registered \ Now.on ELSE registered
    BY <1>5 DEF Retirement
  <2>2. InSteps /\ Now.kind \in {"retire", "tryretire"}
    BY <1>5 DEF Retirement, At, InSteps
  <2>3. CASE r.ok \/ Now.kind = "tryretire"
    BY <2>1, <2>2, <2>3 DEF Passes
  <2>4. CASE ~(r.ok \/ Now.kind = "tryretire")
    BY <1>1, <2>1, <2>2, <2>4 DEF Leaves
  <2> QED
    BY <2>3, <2>4
<1>6. CASE SweepNext \/ FinishCase \/ Over
  BY <1>6 DEF SweepNext, FinishCase, Over, IsSwept, InSection, caseVars, vars
<1>7. CASE UNCHANGED vars
  BY <1>7 DEF Stays, vars
<1>8. ~Land
  BY DEF Land, Sound, Orderly, Clean
<1>9. CASE TurnPage
  <2>1. CASE Turning
    BY <2>1 DEF Turning, Stays, heldVars
  <2>2. CASE Onward \/ Raise
    BY <1>1, <1>3, <1>9, <2>2, TurnPageMoves DEF InSteps
  <2> QED
    BY <1>9, <2>1, <2>2, TurnPageMoves
<1> QED
  BY <1>2, <1>4, <1>5, <1>6, <1>7, <1>8, <1>9 DEF Next, RunCase

LEMMA SameCase ==
    ASSUME Sound, Next \/ UNCHANGED vars
    PROVE  This' = This
<1>1. case' = case
  BY Paces DEF Passes, Leaves, NextSection, Stays, IsSwept, Onward, Leave
<1> QED
  BY <1>1 DEF This

\* The tail of a section, position by position.
LEMMA TailAt ==
    ASSUME NEW i \in 1..Len(Tail(todo)), todo \in Seq(Step), todo # <<>>
    PROVE  /\ i + 1 \in 1..Len(todo) /\ Tail(todo)[i] = todo[i + 1]
           /\ \A kind, x : JustDid(todo, i + 1, kind, x) =>
                 \/ JustDid(Tail(todo), i, kind, x)
                 \/ /\ i = 1 /\ todo[1].kind = kind /\ todo[1].when = "always"
                    /\ x \in todo[1].on
           /\ PurgedNext(todo, i + 1) => PurgedNext(Tail(todo), i)
<1>1. /\ Len(Tail(todo)) = Len(todo) - 1 /\ Len(todo) \in Nat /\ i \in Nat
      /\ \A j \in 1..Len(todo) - 1 : Tail(todo)[j] = todo[j + 1]
  OBVIOUS
<1>2. i + 1 \in 1..Len(todo) /\ Tail(todo)[i] = todo[i + 1]
  BY <1>1
<1>3. i > 1 => i - 1 \in 1..Len(todo) - 1 /\ Tail(todo)[i - 1] = todo[i]
  BY <1>1
<1>4. (i + 1) - 1 = i
  BY <1>1
<1>5. ASSUME NEW kind, NEW x, JustDid(todo, i + 1, kind, x)
      PROVE  \/ JustDid(Tail(todo), i, kind, x)
             \/ /\ i = 1 /\ todo[1].kind = kind /\ todo[1].when = "always"
                /\ x \in todo[1].on
  <2>1. todo[i].kind = kind /\ todo[i].when = "always" /\ x \in todo[i].on
    BY <1>4, <1>5 DEF JustDid
  <2>2. i = 1 \/ i > 1
    BY <1>1
  <2> QED
    BY <1>3, <2>1, <2>2 DEF JustDid
<1>6. PurgedNext(todo, i + 1) => PurgedNext(Tail(todo), i)
  <2> SUFFICES ASSUME PurgedNext(todo, i + 1) PROVE PurgedNext(Tail(todo), i)
    OBVIOUS
  <2>1. i + 1 < Len(todo)
    BY DEF PurgedNext
  <2>2. i < Len(Tail(todo)) /\ Tail(todo)[i + 1] = todo[(i + 1) + 1]
    BY <1>1, <2>1
  <2> QED
    BY <1>2, <2>2 DEF PurgedNext
<1> QED
  BY <1>2, <1>5, <1>6

LEMMA TailAgain ==
    ASSUME todo \in Seq(Step), todo # <<>>, NEW x, NEW i \in Nat,
           NeverAgain(This, section, todo, i + 1, x)
    PROVE  NeverAgain(This, section, Tail(todo), i, x)
<1>1. /\ Len(Tail(todo)) = Len(todo) - 1 /\ Len(todo) \in Nat
      /\ \A j \in 1..Len(todo) - 1 : Tail(todo)[j] = todo[j + 1]
  OBVIOUS
<1>2. ASSUME NEW j \in i + 1 .. Len(Tail(todo)) PROVE ~Registers(Tail(todo)[j], x)
  <2>1. j + 1 \in (i + 1) + 1 .. Len(todo) /\ Tail(todo)[j] = todo[j + 1]
    BY <1>1
  <2> QED
    BY <2>1 DEF NeverAgain
<1> QED
  BY <1>2 DEF NeverAgain

\* A section that begins is as the script has it.
LEMMA EnterDue ==
    ASSUME Sound, Leaves \/ NextSection
    PROVE  Due'
<1> DEFINE s == This
<1>1. This' = s
  BY DEF Leaves, NextSection, Leave, This
<1>2. /\ TidySection(s, "body", s.body) /\ TidySection(s, "fin", s.fin)
      /\ \A i \in 1..Len(s.body) : s.body[i] \in StepsOf(s)
      /\ \A i \in 1..Len(s.fin) : s.fin[i] \in StepsOf(s)
  BY DEF Sound, Tidy, StepsOf
<1>3. \/ section' = "body" /\ todo' = s.body
      \/ section' = "fin" /\ todo' = s.fin
      \/ section' = "sweep"
  BY DEF Leaves, NextSection, Leave, InSteps
<1> HIDE DEF s
<1>4. This = s
  BY DEF s
<1>5. CASE section' = "sweep"
  BY <1>5 DEF Due, InSection
<1>6. ASSUME NEW sec, NEW seq, section' = sec, todo' = seq, TidySection(s, sec, seq),
             \A i \in 1..Len(seq) : seq[i] \in StepsOf(s)
      PROVE  Due'
  <2> SUFFICES ASSUME NEW i \in 1..Len(todo') PROVE DueAt(i)'
    BY DEF Due
  <2>6. i \in 1..Len(seq)
    BY <1>6
  <2>1. This' = s
    BY <1>1
  <2>2. /\ seq[i] \in StepsOf(s)
        /\ \A y \in Firm(s) : Deletes(seq[i], y) => JustDid(seq, i, "retire", y)
        /\ \A x \in Hosts(s) : PopsBelow(seq[i], x) =>
             \/ PurgedNext(seq, i)
             \/ /\ seq[i].when = "ok" /\ JustDid(seq, i, "tryretire", x)
                /\ NeverAgain(s, sec, seq, i, x)
    BY <1>6, <2>6 DEF TidySection
  <2>3. todo'[i] \in StepsOf(This')
    BY <1>6, <2>1, <2>2
  <2>4. \A y \in Firm(This') : Deletes(todo'[i], y) => JustDid(todo', i, "retire", y)
    BY <1>6, <2>1, <2>2
  <2>5. \A x \in Hosts(This') : PopsBelow(todo'[i], x) =>
             \/ PurgedNext(todo', i)
             \/ /\ todo'[i].when = "ok" /\ JustDid(todo', i, "tryretire", x)
                /\ NeverAgain(This', section', todo', i, x)
    BY <1>6, <2>1, <2>2
  <2> QED
    BY <2>3, <2>4, <2>5 DEF DueAt
<1> QED
  BY <1>2, <1>3, <1>5, <1>6

(***************************************************************************)
(* Each part of the invariant after a step.                                 *)
(***************************************************************************)
\* How an item gets another status.
LEMMA Touched ==
    ASSUME Sound, CreateStep \/ CallStep \/ ReleaseStep \/ PopStep \/ SweepStep \/ IdleStep,
           NEW y \in Items, hub'[y] # hub[y]
    PROVE  \/ /\ CallStep /\ y \in Beneath(Now.op, Now.on)
              /\ hub[y] \in From(Now.op) /\ hub'[y] = To(Now.op)
           \/ /\ CreateStep /\ Now.op \in Births /\ y \in Now.on /\ y \in registered'
              /\ hub'[y] = To(Now.op)
           \/ /\ ReleaseStep /\ hub'[y] = "absent"
              /\ y \notin registered' \/ (Now.op = "drop" /\ \E x \in Now.on : y \in Below(x))
           \/ SweepStep /\ hub'[y] = "absent" /\ y \notin registered'
<1>1. CASE PopStep \/ IdleStep
  BY <1>1 DEF PopStep, IdleStep
<1>2. CASE CallStep
  BY <1>2 DEF CallStep, Effect
<1>3. CASE CreateStep
  <2>1. Now.op \in Births /\ Now.op \in Calls
    BY <1>3, NowTypes DEF CreateStep, Does, Sound, InSteps, Calls
  <2>2. Beneath(Now.op, Now.on) = Now.on
    BY <2>1 DEF Beneath, Births
  <2> QED
    BY <1>3, <2>1, <2>2 DEF CreateStep, Effect
<1>4. CASE ReleaseStep
  <2>1. Now.op \in {"purge", "drop"} /\ Now.op \in Calls
    BY <1>4, NowTypes DEF ReleaseStep, Does, Sound, InSteps
  <2>2. PICK ok \in BOOLEAN : \E S \in SUBSET Now.on :
          Effect(Now.op, S, ok) /\ registered' = IF ok THEN registered \ S ELSE registered
    BY <1>4 DEF ReleaseStep
  <2>3. PICK S \in SUBSET Now.on :
          Effect(Now.op, S, ok) /\ registered' = IF ok THEN registered \ S ELSE registered
    BY <2>2
  <2>4. ok /\ y \in Beneath(Now.op, S) /\ hub'[y] = "absent"
    BY <2>1, <2>3, CallFacts DEF Effect
  <2>5. y \in S \/ (Now.op = "drop" /\ \E x \in Now.on : y \in Below(x))
    BY <2>4 DEF Beneath
  <2> QED
    BY <1>4, <2>3, <2>4, <2>5
<1>5. CASE SweepStep
  <2>1. PICK x \in registered : \E ok \in BOOLEAN :
          /\ Below(x) \cap registered = {}
          /\ Effect(ReleaseOp(x), {x}, ok)
          /\ registered' = registered \ {x}
    BY <1>5 DEF SweepStep
  <2>2. ReleaseOp(x) \in {"purge", "drop"} /\ ReleaseOp(x) \in Calls
    BY DEF ReleaseOp, Calls
  <2>3. y \in Beneath(ReleaseOp(x), {x}) /\ hub'[y] = "absent"
    BY <2>1, <2>2, CallFacts DEF Effect
  <2> QED
    BY <1>5, <2>1, <2>3 DEF Beneath
<1> QED
  BY <1>1, <1>2, <1>3, <1>4, <1>5

LEMMA CleanHolds == ASSUME Sound, Next \/ UNCHANGED vars PROVE Clean'
<1>1. residual' = residual
  BY Deeds, SweepClean
     DEF CallStep, CreateStep, ReleaseStep, PopStep, IdleStep, Does
<1>2. flight' = flight
  BY Deeds
     DEF CallStep, CreateStep, ReleaseStep, PopStep, SweepStep, IdleStep, Effect
<1> QED
  BY <1>1, <1>2 DEF Sound, Orderly, Clean

\* What a step registers.
LEMMA NewlyRegistered ==
    ASSUME Sound, Next \/ UNCHANGED vars, NEW y \in registered', y \notin registered
    PROVE  /\ CreateStep /\ InSteps /\ Registers(Now, y)
           /\ y \in Backed(This) /\ y \in Tags \cup OwnSources /\ y # "stray"
           /\ Now.op \in {"add", "source"} /\ hub[y] = "absent" /\ hub'[y] = To(Now.op)
<1>1. CreateStep
  BY Deeds, SweepClean DEF CallStep, ReleaseStep, PopStep, IdleStep
<1>2. PICK ok \in BOOLEAN :
         /\ Effect(Now.op, Now.on, ok)
         /\ registered' = IF ok THEN registered \cup Now.on ELSE registered
  BY <1>1 DEF CreateStep
<1>3. ok /\ y \in Now.on
  BY <1>2
<1>4. InSteps /\ Now.kind \in Registering /\ Now \in StepsOf(This)
  BY <1>1 DEF CreateStep, Does
<1>5. Registrable(Now)
  BY <1>4, NowDue DEF TidyStep
<1>6. y \in Tags \cup OwnSources /\ Now.op \in {"add", "source"}
  BY <1>3, <1>5 DEF Registrable
<1>7. y # "stray" /\ y \in Items
  BY <1>6 DEF Tags, CaseTags, FixtureTags, Loose, OwnSources, Items, Owned
<1>8. y \in Backed(This)
  BY <1>3, <1>4 DEF Backed
<1>9. hub[y] = "absent" /\ hub'[y] = To(Now.op)
  <2>1. "absent" \in From(Now.op)
    BY <1>6 DEF From, Births
  <2> QED
    BY <1>2, <1>3, <1>6, <1>7, <2>1 DEF Effect
<1> QED
  BY <1>1, <1>3, <1>4, <1>6, <1>7, <1>8, <1>9 DEF Registers

LEMMA OfScriptHolds == ASSUME Sound, Next \/ UNCHANGED vars PROVE OfScript'
<1>1. This' = This
  BY SameCase
<1>2. ASSUME NEW y \in registered' PROVE y \in Backed(This) /\ y \in Tags \cup OwnSources
  BY NewlyRegistered DEF Sound, Orderly, OfScript
<1>3. Backed(This') = Backed(This)
  BY <1>1
<1> QED
  BY <1>2, <1>3 DEF OfScript

LEMMA FirmThereHolds == ASSUME Sound, Next \/ UNCHANGED vars PROVE FirmThere'
<1> SUFFICES ASSUME NEW y \in registered' \cap CaseTags, hub'[y] = "absent" PROVE FALSE
  BY DEF FirmThere
<1>1. CASE y \notin registered
  <2>1. Now.op \in {"add", "source"} /\ hub'[y] = To(Now.op)
    BY <1>1, NewlyRegistered
  <2> QED
    BY <2>1 DEF To
<1>2. CASE y \in registered
  <2>1. hub[y] # "absent" /\ y \in Items /\ y \in Firm(This)
    BY <1>2, RegisteredFacts DEF Sound, Orderly, FirmThere, Firm
  <2>2. ASSUME Does(Kinds), Now.op = "drop", y \in Beneath("drop", Now.on) PROVE FALSE
    BY <2>1, <2>2, NowDue DEF Does, TidyStep, Beneath
  <2>3. CASE CallStep /\ y \in Beneath(Now.op, Now.on) /\ hub'[y] = To(Now.op)
    <3>1. InSteps /\ Now.kind \in Acts /\ Does(Kinds)
      BY <2>3 DEF CallStep, Does, Acts, Kinds
    <3>2. Now.op \in {"purge", "drop"}
      BY <2>3, CallFacts DEF CallStep, Effect
    <3>3. Now.op = "purge" /\ y \in Now.on
      BY <2>2, <2>3, <3>1, <3>2 DEF Beneath
    <3>4. Deletes(todo[1], y)
      BY <3>1, <3>3, NowDue DEF Deletes
    <3> QED
      BY <1>2, <2>1, <3>1, <3>4, NowDue DEF DueAt, JustDid
  <2>4. CASE CreateStep /\ Now.op \in Births /\ hub'[y] = To(Now.op)
    BY <2>4 DEF Births, To
  <2>5. CASE ReleaseStep /\ Now.op = "drop" /\ \E x \in Now.on : y \in Below(x)
    BY <2>2, <2>5 DEF ReleaseStep, Does, Releasing, Kinds, Beneath
  <2> QED
    BY <2>1, <2>3, <2>4, <2>5, Deeds, Touched
<1> QED
  BY <1>1, <1>2

LEMMA TagsAsTagsHolds == ASSUME Sound, Next \/ UNCHANGED vars PROVE TagsAsTags'
<1>1. This' = This
  BY SameCase
<1>2. ASSUME NEW y \in Tags, y \in Backed(This) \cup Hosted(This), hub'[y] \in {"on", "off"}
      PROVE  FALSE
  <2>1. y \in Items /\ hub[y] \notin {"on", "off"}
    BY <1>2 DEF Sound, Orderly, TagsAsTags, Items, Owned
  <2>2. hub'[y] # hub[y]
    BY <1>2, <2>1
  <2>3. y \notin OwnSources
    BY <1>2 DEF Tags, CaseTags, FixtureTags, Loose, OwnSources
  <2>4. CASE /\ CallStep /\ y \in Beneath(Now.op, Now.on)
             /\ hub[y] \in From(Now.op) /\ hub'[y] = To(Now.op)
    <3>1. Now.op = "source"
      BY <1>2, <2>1, <2>4, CallFacts DEF CallStep, Effect
    <3>2. y \in Now.on /\ InSteps /\ Now.kind \in Acts /\ Now.op \in Births
      BY <2>4, <3>1 DEF Beneath, CallStep, Does, Births
    <3> QED
      BY <1>2, <3>1, <3>2, NowDue DEF TidyStep
  <2>5. CASE CreateStep /\ Now.op \in Births /\ y \in Now.on /\ hub'[y] = To(Now.op)
    <3>1. InSteps /\ Registrable(Now)
      BY <2>5, NowDue DEF CreateStep, Does, TidyStep
    <3>2. Now.op = "source"
      BY <1>2, <2>5 DEF Births, To
    <3> QED
      BY <2>3, <2>5, <3>1, <3>2 DEF Registrable
  <2> QED
    BY <1>2, <2>1, <2>2, <2>4, <2>5, Deeds, Touched
<1>3. Backed(This') = Backed(This) /\ Hosted(This') = Hosted(This)
  BY <1>1
<1> QED
  BY <1>2, <1>3 DEF TagsAsTags

LEMMA GoneHolds ==
    ASSUME Sound, Next \/ UNCHANGED vars, NEW x, Gone(x)
    PROVE  Gone(x)'
<1>1. This' = This
  BY SameCase
<1>2. InSteps => todo \in Seq(Step) /\ todo # <<>> /\ Now = todo[1] /\ 1 \in 0 + 1 .. Len(todo)
  BY DEF Sound, CaseTypes, InSteps, Now
<1>3. x \notin registered'
  <2> SUFFICES ASSUME x \in registered' PROVE FALSE
    OBVIOUS
  <2>1. InSteps /\ Registers(Now, x)
    BY NewlyRegistered DEF Gone
  <2> QED
    BY <1>2, <2>1 DEF Gone, NeverAgain
<1>4. NeverAgain(This, section', todo', 0, x)
  <2>1. CASE Passes
    <3>1. section' = section /\ todo' = Tail(todo) /\ InSteps
      BY <2>1 DEF Passes, Onward
    <3>2. NeverAgain(This, section, todo, 0 + 1, x)
      <4>1. todo \in Seq(Step)
        BY <1>2, <3>1
      <4>2. \A j \in (0 + 1) + 1 .. Len(todo) : j \in 0 + 1 .. Len(todo)
        BY <4>1
      <4> QED
        BY <4>2 DEF Gone, NeverAgain
    <3> QED
      BY <1>2, <3>1, <3>2, TailAgain
  <2>2. CASE Leaves \/ NextSection
    <3>1. \/ section = "body" /\ section' = "fin" /\ todo' = This.fin
          \/ section = "pre" /\ section' = "body" /\ todo' = This.body
          \/ section' = "sweep" /\ todo' = <<>>
      BY <2>2 DEF Leaves, NextSection, Leave, InSteps
    <3>2. CASE section = "body" /\ section' = "fin" /\ todo' = This.fin
      BY <3>2 DEF Gone, NeverAgain
    <3>3. CASE section = "pre" /\ section' = "body" /\ todo' = This.body
      BY <3>3 DEF Gone, NeverAgain
    <3>4. CASE section' = "sweep" /\ todo' = <<>>
      BY <3>4 DEF Gone, NeverAgain
    <3> QED
      BY <3>1, <3>2, <3>3, <3>4
  <2>3. CASE Stays
    BY <2>3 DEF Stays, Gone
  <2>4. CASE IsSwept
    BY <2>4 DEF IsSwept, InSection, Gone, NeverAgain
  <2> QED
    BY <2>1, <2>2, <2>3, <2>4, Paces
<1> QED
  BY <1>1, <1>3, <1>4 DEF Gone

\* The pop of a fallback below x, and why it does no harm.
LEMMA PopHolds ==
    ASSUME Sound, PopStep, NEW x \in Hosts(This), NEW y \in Below(x), y \in Now.on,
           Next \/ UNCHANGED vars
    PROVE  Doomed(y)' \/ Gone(x)'
<1>1. InSteps /\ Now = todo[1] /\ todo \in Seq(Step) /\ todo # <<>> /\ DueAt(1)
  BY NowDue DEF PopStep, Does, InSteps
<1>2. PopsBelow(todo[1], x)
  BY <1>1 DEF PopStep, Does, PopsBelow
<1>3. section' = section /\ todo' = Tail(todo) /\ TRUE \in Wanted /\ registered' = registered \ Now.on
  BY DEF PopStep, Onward
<1>4. CASE PurgedNext(todo, 1)
  <2>1. 1 < Len(todo) /\ todo[1 + 1] = Call("purge", {y})
    BY <1>1, <1>4 DEF PurgedNext
  <2>2. Tail(todo) # <<>> /\ Head(Tail(todo)) = Call("purge", {y})
    <3>1. Tail(todo) \in Seq(Step) /\ Len(Tail(todo)) = Len(todo) - 1 /\ Len(todo) \in Nat
      BY <1>1
    <3>2. Tail(todo)[1] = todo[1 + 1]
      BY <1>1, <2>1
    <3>3. Tail(todo) # <<>>
      <4>1. Len(Tail(todo)) # 0
        BY <2>1, <3>1
      <4>2. Len(<<>>) = 0
        OBVIOUS
      <4> QED
        BY <4>1, <4>2
    <3>4. Head(Tail(todo)) = Tail(todo)[1]
      BY <3>1, <3>3
    <3> QED
      BY <2>1, <3>2, <3>3, <3>4
  <2> QED
    BY <1>1, <1>3, <2>2 DEF Doomed, InSteps, Now
<1>5. CASE todo[1].when = "ok" /\ NeverAgain(This, section, todo, 1, x) /\ (answer = "ok" => x \notin registered)
  <2>1. answer = "ok"
    BY <1>1, <1>3, <1>5 DEF Wanted
  <2>2. x \notin registered'
    BY <1>3, <1>5, <2>1
  <2>3. NeverAgain(This, section, Tail(todo), 0, x)
    <3>1. NeverAgain(This, section, todo, 0 + 1, x)
      BY <1>5
    <3> QED
      BY <1>1, <3>1, TailAgain
  <2>4. This' = This
    BY SameCase
  <2> QED
    BY <1>3, <2>2, <2>3, <2>4 DEF Gone
<1> QED
  BY <1>1, <1>2, <1>4, <1>5 DEF DueAt, JustDid

LEMMA BelowHostsHolds == ASSUME Sound, Next \/ UNCHANGED vars PROVE BelowHosts'
<1>1. This' = This
  BY SameCase
<1>2. ASSUME NEW x \in Hosts(This), NEW y \in Below(x), hub'[y] # "absent"
      PROVE  y \in registered' \/ Doomed(y)' \/ Gone(x)'
  <2>1. y \in Items /\ y \in Tags /\ y \in Hosted(This)
    BY <1>2 DEF Hosts, Hosted, OwnSources, Below, Tags, CaseTags, FixtureTags, Loose, Items, Owned
  <2>2. CASE hub[y] = "absent"
    <3>1. CASE CallStep /\ Now.op \in Births /\ y \in Now.on
      BY <2>1, <3>1, NowDue DEF CallStep, Does, TidyStep
    <3> QED
      BY <1>2, <2>1, <2>2, <3>1, Deeds, BornHow
  <2>3. CASE y \in registered
    <3>1. CASE PopStep
      <4>1. y \notin registered' => y \in Now.on
        BY <2>3, <3>1 DEF PopStep
      <4> QED
        BY <1>2, <3>1, <4>1, PopHolds
    <3>2. CASE ~PopStep
      BY <1>2, <2>3, <3>2, Deeds, LostIsGone
    <3> QED
      BY <3>1, <3>2
  <2>4. CASE hub[y] # "absent" /\ Doomed(y)
    <3>1. Now.kind = "call" /\ Now.op = "purge" /\ Now.on = {y} /\ InSteps
      BY <2>4 DEF Doomed, Call, DoStep
    <3>2. hub[y] \in From("purge")
      <4>1. hub[y] \in Statuses /\ hub[y] \notin {"on", "off"}
        BY <2>1 DEF Sound, HubTypes, Orderly, TagsAsTags
      <4> QED
        BY <2>4, <4>1 DEF From, Births, Statuses
    <3>3. CASE CallStep
      <4>1. y # "stray"
        BY <2>1 DEF Tags, CaseTags, FixtureTags, Loose
      <4>2. hub'[y] = To("purge")
        BY <2>1, <2>4, <3>1, <3>2, <3>3, <4>1 DEF CallStep, Effect
      <4> QED
        BY <1>2, <4>2 DEF To
    <3>4. CASE IdleStep
      BY <2>1, <2>4, <3>4, <1>1 DEF IdleStep, Doomed, InSteps, Now, vars
    <3>5. ~CreateStep /\ ~ReleaseStep /\ ~PopStep /\ ~SweepStep
      BY <3>1 DEF CreateStep, ReleaseStep, PopStep, SweepStep, Does, Registering, Releasing, InSteps
    <3> QED
      BY <3>3, <3>4, <3>5, Deeds
  <2>5. CASE Gone(x)
    BY <2>5, GoneHolds
  <2> QED
    BY <1>2, <2>2, <2>3, <2>4, <2>5 DEF Sound, Orderly, BelowHosts
<1>3. Hosts(This') = Hosts(This)
  BY <1>1
<1> QED
  BY <1>2, <1>3 DEF BelowHosts

LEMMA AllBackedHolds == ASSUME Sound, Next \/ UNCHANGED vars PROVE AllBacked'
<1>1. This' = This
  BY SameCase
<1>2. ASSUME BacksAll(This), NEW x \in Owned, hub'[x] # "absent" PROVE x \in registered'
  <2>1. x \in Items
    BY DEF Items
  <2>2. ~PopStep /\ ~(CallStep /\ Now.op \in Births)
    BY <1>2 DEF BacksAll, PopStep, CallStep, Does
  <2>3. CASE hub[x] = "absent"
    BY <1>2, <2>1, <2>2, <2>3, Deeds, BornHow
  <2>4. CASE hub[x] # "absent"
    <3>1. x \in registered
      BY <1>2, <2>4 DEF Sound, Orderly, AllBacked
    <3> QED
      BY <1>2, <2>2, <3>1, Deeds, LostIsGone
  <2> QED
    BY <2>3, <2>4
<1>3. BacksAll(This') = BacksAll(This)
  BY <1>1
<1> QED
  BY <1>2, <1>3 DEF AllBacked

LEMMA PassesDue == ASSUME Sound, Next \/ UNCHANGED vars, Passes PROVE Due'
<1>1. This' = This
  BY SameCase
<1>2. /\ section' = section /\ todo' = Tail(todo) /\ InSteps
      /\ todo \in Seq(Step) /\ todo # <<>> /\ Now = todo[1]
  BY DEF Sound, CaseTypes, Passes, Onward, InSteps, Now
<1>3. Due
  BY DEF Sound, Orderly
<1>4. ASSUME NEW i \in 1..Len(Tail(todo))
      PROVE  /\ Tail(todo)[i] \in StepsOf(This)
             /\ \A y \in Firm(This) : Deletes(Tail(todo)[i], y) =>
                  JustDid(Tail(todo), i, "retire", y) \/ (i = 1 /\ y \notin registered')
             /\ \A x \in Hosts(This) : PopsBelow(Tail(todo)[i], x) =>
                  \/ PurgedNext(Tail(todo), i)
                  \/ /\ Tail(todo)[i].when = "ok" /\ NeverAgain(This, section, Tail(todo), i, x)
                     /\ \/ JustDid(Tail(todo), i, "tryretire", x)
                        \/ i = 1 /\ (answer' = "ok" => x \notin registered')
  <2>1. i + 1 \in 1..Len(todo) /\ Tail(todo)[i] = todo[i + 1] /\ i \in Nat /\ i + 1 # 1
    BY <1>2, TailAt
  <2>2. DueAt(i + 1)
    BY <1>2, <1>3, <2>1 DEF Due, InSteps, InSection
  <2>3. ASSUME NEW kind, NEW x, JustDid(todo, i + 1, kind, x)
        PROVE  \/ JustDid(Tail(todo), i, kind, x)
               \/ i = 1 /\ Now.kind = kind /\ Now.when = "always" /\ x \in Now.on
    BY <1>2, <2>3, TailAt
  <2>4. ASSUME NEW y \in Firm(This), Deletes(Tail(todo)[i], y)
        PROVE  JustDid(Tail(todo), i, "retire", y) \/ (i = 1 /\ y \notin registered')
    <3>1. JustDid(todo, i + 1, "retire", y)
      BY <2>1, <2>2, <2>4 DEF DueAt
    <3> QED
      BY <2>3, <3>1 DEF Passes
  <2>5. ASSUME NEW x \in Hosts(This), PopsBelow(Tail(todo)[i], x), ~PurgedNext(Tail(todo), i)
        PROVE  /\ Tail(todo)[i].when = "ok" /\ NeverAgain(This, section, Tail(todo), i, x)
               /\ \/ JustDid(Tail(todo), i, "tryretire", x)
                  \/ i = 1 /\ (answer' = "ok" => x \notin registered')
    <3>1. ~PurgedNext(todo, i + 1)
      BY <1>2, <2>5, TailAt
    <3>2. /\ todo[i + 1].when = "ok" /\ NeverAgain(This, section, todo, i + 1, x)
          /\ JustDid(todo, i + 1, "tryretire", x)
      BY <2>1, <2>2, <2>5, <3>1 DEF DueAt
    <3>3. NeverAgain(This, section, Tail(todo), i, x)
      BY <1>2, <2>1, <3>2, TailAgain
    <3> QED
      BY <2>1, <2>3, <3>2, <3>3 DEF Passes
  <2> QED
    BY <2>1, <2>2, <2>4, <2>5 DEF DueAt
<1> SUFFICES ASSUME NEW i \in 1..Len(todo') PROVE DueAt(i)'
  BY DEF Due
<1>5. i \in 1..Len(Tail(todo))
  BY <1>2
<1> QED
  BY <1>1, <1>2, <1>4, <1>5 DEF DueAt

LEMMA DueHolds == ASSUME Sound, Next \/ UNCHANGED vars PROVE Due'
<1>1. This' = This
  BY SameCase
<1>2. CASE Stays
  BY <1>1, <1>2 DEF Sound, Orderly, Due, InSection, DueAt, Stays
<1>3. CASE IsSwept
  BY <1>3 DEF Due, IsSwept
<1> QED
  BY <1>2, <1>3, Paces, PassesDue, EnterDue

LEMMA SweepInit == Init => SweepInv
<1> SUFFICES ASSUME Init, Tidy(This) PROVE Orderly
  BY DEF SweepInv
<1>1. /\ section = "pre" /\ todo = This.pre /\ flight = {} /\ registered = {} /\ residual = {}
  BY DEF Init, This
<1>2. \A x \in Owned : hub[x] = "absent"
  <2>1. \A x \in Owned : x \in Items /\ Home(x) = "absent"
    BY DEF Items, Home, Standing, Owned, Tags, CaseTags, FixtureTags, Loose, OwnSources, Groups
  <2> QED
    BY <2>1 DEF Init
<1>3. Clean /\ OfScript /\ FirmThere
  BY <1>1 DEF Clean, OfScript, FirmThere
<1>4. TagsAsTags /\ AllBacked
  BY <1>2 DEF TagsAsTags, AllBacked, Owned
<1>5. BelowHosts
  <2>1. \A x \in Hosts(This) : Below(x) \subseteq Owned
    BY DEF Hosts, OwnSources, Below, Owned, Tags, CaseTags, FixtureTags, Loose
  <2> QED
    BY <1>2, <2>1 DEF BelowHosts
<1>6. Due
  <2> SUFFICES ASSUME NEW i \in 1..Len(This.pre) PROVE DueAt(i)
    BY <1>1 DEF Due
  <2>1. TidySection(This, "pre", This.pre) /\ This.pre[i] \in StepsOf(This)
    BY DEF Tidy, StepsOf
  <2> QED
    BY <1>1, <2>1 DEF TidySection, DueAt
<1> QED
  BY <1>3, <1>4, <1>5, <1>6 DEF Orderly

\* A case stays what it is, and faults are not forgotten.
LEMMA FaultsGrow ==
    ASSUME HubTypes, CaseTypes, registered \subseteq Items, Next \/ UNCHANGED vars
    PROVE  case' = case /\ (faults' = 0 => faults = 0)
<1>1. case' = case
  BY DEF Next, RunCase, Skip, NextSection, NeedBaseline, PlainCall, Attempt, Create, Retirement,
         PopFallback, CheckView, TurnPage, FindRow, NoteId, CheckAnswer, ReturnVerdict,
         CleanupCaseTag, SweepNext, FinishCase, Land, Over, vars, caseVars, Onward, Raise, AssertFail, NoBaseline,
         Leave
<1> SUFFICES faults' = 0 => faults = 0
  BY <1>1
<1>2. faults \in Nat
  BY MaxFaultsAssumption DEF HubTypes
<1>3. ASSUME NEW op \in Calls, NEW S \in SUBSET Items, NEW r \in Replies(op, S),
             NEW extra \in {0, 1}, Answered(op, S, Reply(r.ok, r.hub, r.late, r.bad + extra))
      PROVE  faults' = 0 => faults = 0
  <2>1. r.bad \in {0, 1} /\ faults' = faults + (r.bad + extra)
    BY <1>3, ReplyFacts DEF HubTypes, Answered, Reply
  <2> QED
    BY <1>2, <2>1
<1>4. ASSUME NEW op \in Calls, NEW S \in SUBSET Items, NEW r \in Replies(op, S),
             Answered(op, S, r)
      PROVE  faults' = 0 => faults = 0
  <2>1. r.bad \in {0, 1} /\ faults' = faults + r.bad
    BY <1>4, ReplyFacts DEF HubTypes, Answered
  <2> QED
    BY <1>2, <2>1
<1>5. CASE PlainCall \/ Attempt \/ Create \/ Retirement
  <2>1. todo # <<>> /\ Now.kind \in Acts \cup Registering \cup Releasing
    BY <1>5 DEF PlainCall, Attempt, Create, Retirement, At, Acts, Releasing
  <2>2. Now.op \in Calls /\ Now.on \in SUBSET Items
    BY <2>1, NowTypes
  <2>3. PICK r \in Replies(Now.op, Now.on) : Answered(Now.op, Now.on, r)
    BY <1>5 DEF PlainCall, Attempt, Create, Retirement
  <2> QED
    BY <1>4, <2>2, <2>3
<1>6. CASE CleanupCaseTag
  <2>1. todo # <<>> /\ Now.kind \in Releasing
    BY <1>6 DEF CleanupCaseTag, At, Releasing
  <2>2. Now.op \in Calls /\ Now.on \in SUBSET Items
    BY <2>1, NowTypes
  <2>3. PICK x \in Now.on : \E r \in Replies(Now.op, {x}), stalled \in {0, 1} :
          IF x \notin known
          THEN UNCHANGED hubVars
          ELSE Answered(Now.op, {x}, Reply(r.ok, r.hub, r.late, r.bad + stalled))
    BY <1>6 DEF CleanupCaseTag
  <2>4. CASE x \notin known
    BY <2>3, <2>4 DEF hubVars
  <2>5. CASE x \in known
    <3>1. PICK r \in Replies(Now.op, {x}), stalled \in {0, 1} :
            Answered(Now.op, {x}, Reply(r.ok, r.hub, r.late, r.bad + stalled))
      BY <2>3, <2>5
    <3>2. {x} \in SUBSET Items
      BY <2>2
    <3> QED
      BY <1>3, <2>2, <3>1, <3>2
  <2> QED
    BY <2>4, <2>5
<1>7. CASE SweepNext
  <2>1. PICK x \in registered : \E r \in Replies(ReleaseOp(x), {x}) : Answered(ReleaseOp(x), {x}, r)
    BY <1>7 DEF SweepNext
  <2>2. PICK r \in Replies(ReleaseOp(x), {x}) : Answered(ReleaseOp(x), {x}, r)
    BY <2>1
  <2>3. ReleaseOp(x) \in Calls /\ {x} \in SUBSET Items
    BY DEF ReleaseOp, Calls
  <2> QED
    BY <1>4, <2>2, <2>3
<1>8. CASE NeedBaseline \/ CheckView \/ TurnPage \/ FindRow
  <2>1. faults' = faults \/ faults' = faults + 1
    BY <1>8 DEF NeedBaseline, CheckView, TurnPage, FindRow, Misbehaves
  <2> QED
    BY <1>2, <2>1
<1>9. CASE \/ Skip \/ NextSection \/ PopFallback \/ NoteId \/ CheckAnswer \/ ReturnVerdict
           \/ FinishCase \/ Land \/ Over \/ UNCHANGED vars
  BY <1>9
     DEF Skip, NextSection, PopFallback, NoteId, CheckAnswer, ReturnVerdict, FinishCase, Land,
         Over, hubVars, vars
<1> QED
  BY <1>5, <1>6, <1>7, <1>8, <1>9 DEF Next, RunCase

LEMMA SweepStepHolds == IInv /\ SweepInv /\ [Next]_vars => SweepInv'
<1> SUFFICES ASSUME IInv, SweepInv, Next \/ UNCHANGED vars, faults' = 0, Tidy(This)'
             PROVE  Orderly'
  BY DEF SweepInv
<1>1. CaseTypes /\ HubTypes /\ LateBirths /\ registered \subseteq Items
  BY Halves DEF IInv
<1>2. case' = case /\ faults = 0
  BY <1>1, FaultsGrow
<1>3. Tidy(This)
  BY <1>2 DEF This
<1>4. Sound
  BY <1>1, <1>2, <1>3 DEF SweepInv, Sound
<1> QED
  BY <1>4, CleanHolds, OfScriptHolds, FirmThereHolds, TagsAsTagsHolds, BelowHostsHolds,
     AllBackedHolds, DueHolds
     DEF Orderly

\* No case is over before its registry is empty.
SweptOut == section = "over" => registered = {}
LEMMA SweptOutHolds == Spec => []SweptOut
<1>1. Init => SweptOut
  BY DEF Init, SweptOut
<1>2. SweptOut /\ [Next]_vars => SweptOut'
  <2> SUFFICES ASSUME SweptOut, Next \/ UNCHANGED vars, section' = "over"
               PROVE  registered' = {}
    BY DEF SweptOut
  <2>1. CASE section = "over"
    BY <2>1
       DEF SweptOut, Next, RunCase, Skip, NextSection, NeedBaseline, PlainCall, Attempt, Create,
           Retirement, PopFallback, CheckView, TurnPage, FindRow, NoteId, CheckAnswer, ReturnVerdict,
           CleanupCaseTag, SweepNext, FinishCase, Land, Over, At, vars, heldVars
  <2>2. CASE FinishCase
    BY <2>2 DEF FinishCase, heldVars
  <2>3. CASE section # "over" /\ ~FinishCase
    BY <2>3
       DEF Next, RunCase, Skip, NextSection, NeedBaseline, PlainCall, Attempt, Create,
           Retirement, PopFallback, CheckView, TurnPage, FindRow, NoteId, CheckAnswer, ReturnVerdict,
           CleanupCaseTag, SweepNext, Land, Over, At, vars, caseVars, Onward, Raise, AssertFail,
           NoBaseline, Leave
  <2> QED
    BY <2>1, <2>2, <2>3
<1> QED
  BY <1>1, <1>2, PTL DEF Spec

(***************************************************************************)
(* For every set of scripts that keep to the discipline of Tidy, as those   *)
(* of the repository do but UA-2-2-057: until the hub does something wrong  *)
(* no fallback fails, neither because its tag is gone already nor because   *)
(* a source is not empty yet, so no such case ends CLEANUP_FAILED.          *)
(***************************************************************************)
THEOREM SweepHolds == ScriptsTidy => (Spec => []NoFalseResidual)
<1> SUFFICES ASSUME ScriptsTidy PROVE Spec => []NoFalseResidual
  OBVIOUS
<1>1. IInv /\ SweepInv => NoFalseResidual
  BY DEF NoFalseResidual, ScriptsTidy, SweepInv, Orderly, Clean, This, IInv, TypeOK
<1> QED
  BY <1>1, SweepInit, SweepStepHolds, InvariantHolds, PTL DEF Spec

(***************************************************************************)
(* And a case of theirs that registers whatever it adds leaves nothing of   *)
(* its own on such a hub, wherever its body was left.                       *)
(***************************************************************************)
THEOREM BackedGone == ScriptsTidy => (Spec => []LeavesNothingBacked)
<1> SUFFICES ASSUME ScriptsTidy PROVE Spec => []LeavesNothingBacked
  OBVIOUS
<1>1. IInv /\ SweepInv /\ SweptOut => LeavesNothingBacked
  BY DEF LeavesNothingBacked, ScriptsTidy, SweepInv, Orderly, AllBacked, SweptOut, This, IInv,
         TypeOK
<1> QED
  BY <1>1, SweepInit, SweepStepHolds, SweptOutHolds, InvariantHolds, PTL DEF Spec
=============================================================================
