------------------------- MODULE CaseProgram_proofs -------------------------
(***************************************************************************)
(* Proofs about CaseProgram, for every set of scripts and every number of   *)
(* faults.                                                                  *)
(***************************************************************************)
EXTENDS CaseProgram, TLAPS

(***************************************************************************)
(* The hub.  An answer of it is well typed, a refusal changes nothing, only *)
(* a call that timed out is still under way, and what comes into being is   *)
(* what a creation was asked for.                                           *)
(***************************************************************************)
LEMMA StatusTypes ==
    ASSUME NEW op \in Calls
    PROVE  /\ To(op) \in Statuses
           /\ "absent" \in From(op) => op \in Births
           /\ op \in {"purge", "drop"} => To(op) = "absent"
BY DEF Calls, Births, To, From, Statuses

LEMMA CarriedOutType ==
    ASSUME NEW op \in Calls, NEW S, hub \in [Items -> Statuses]
    PROVE  /\ CarriedOut(op, S) \in [Items -> Statuses]
           /\ \A x \in Items : hub[x] = "absent" /\ CarriedOut(op, S)[x] # "absent"
                               => op \in Births /\ x \in S
BY StatusTypes DEF CarriedOut

LEMMA ReplyFacts ==
    ASSUME NEW op \in Calls, NEW S \in SUBSET Items, NEW r \in Replies(op, S),
           hub \in [Items -> Statuses]
    PROVE  /\ r.ok \in BOOLEAN
           /\ r.hub \in [Items -> Statuses]
           /\ r.late \subseteq {[op |-> op, on |-> S]}
           /\ r.bad \in {0, 1}
           /\ ~r.ok => r.hub = hub
           /\ r.late # {} => ~r.ok
           /\ \A x \in Items : hub[x] = "absent" /\ r.hub[x] # "absent" => op \in Births /\ x \in S
<1> DEFINE marks    == {x \in S \cap Special : hub[x] = "absent"}
           able     == \A x \in S \ marks : Able(op, x)
           filled   == IF op = "drop"
                       THEN {y \in UNION {Below(x) : x \in S} \ S : hub[y] # "absent"} ELSE {}
           nodeless == op = "write" /\ S \cap Loose # {}
           must     == able /\ marks = {} /\ filled = {} /\ ~nodeless
           mustNot  == "void" \in marks \/ (~able /\ op \in Births \cup {"write"})
<1>1. r \in { Reply(TRUE, CarriedOut(op, S), {}, IF mustNot THEN 1 ELSE 0),
              Reply(TRUE, CarriedOut(op, S \cup filled), {}, IF mustNot THEN 1 ELSE 0),
              Reply(FALSE, hub, {}, IF must THEN 1 ELSE 0),
              Reply(TRUE, hub, {}, 1) }
            \cup (IF S \cap {"mock", "local"} # {} THEN {}
                  ELSE {Reply(FALSE, hub, {[op |-> op, on |-> S]}, 1)})
  BY DEF Replies
<1> HIDE DEF must, mustNot
<1>2. CASE r = Reply(TRUE, CarriedOut(op, S), {}, IF mustNot THEN 1 ELSE 0)
  BY <1>2, CarriedOutType DEF Reply
<1>3. CASE r = Reply(TRUE, CarriedOut(op, S \cup filled), {}, IF mustNot THEN 1 ELSE 0)
  <2>1. op \in Births => filled = {}
    BY DEF Births
  <2> HIDE DEF filled
  <2> QED
    BY <1>3, <2>1, CarriedOutType DEF Reply
<1>4. CASE r = Reply(FALSE, hub, {}, IF must THEN 1 ELSE 0)
  BY <1>4 DEF Reply
<1>5. CASE r = Reply(TRUE, hub, {}, 1)
  BY <1>5 DEF Reply
<1>6. CASE r = Reply(FALSE, hub, {[op |-> op, on |-> S]}, 1)
  BY <1>6 DEF Reply
<1> QED
  BY <1>1, <1>2, <1>3, <1>4, <1>5, <1>6

(***************************************************************************)
(* The inductive invariant.  What is still under way may create things      *)
(* later: they count as unanswered from the moment the caller gave up.      *)
(***************************************************************************)
LateBirths == \A f \in flight : f.op \in Births => f.on \subseteq unanswered
IInv == TypeOK /\ LateBirths /\ NoSilentLeak

\* The two halves of a state: where the case is, and what the hub is.
CaseTypes ==
    /\ case \in DOMAIN Scripts
    /\ section \in {"pre", "body", "fin", "sweep", "over"}
    /\ todo \in Seq(Step)
    /\ page \in {0, 1}
    /\ verdict \in Verdicts \cup {"none"}
HubTypes ==
    /\ hub \in [Items -> Statuses]
    /\ flight \subseteq Late
    /\ faults \in 0..MaxFaults
    /\ unanswered \subseteq Items
    /\ lied \subseteq Items

LEMMA Halves ==
    TypeOK <=> /\ CaseTypes /\ HubTypes
               /\ answer \in {"ok", "refused"}
               /\ known \subseteq Items
               /\ registered \subseteq Items
               /\ residual \subseteq Items
               /\ disowned \subseteq Items
BY DEF TypeOK, CaseTypes, HubTypes

LEMMA OwnedAreItems == Owned \subseteq Items
BY DEF Items

LEMMA ScriptTypes ==
    ASSUME case \in DOMAIN Scripts
    PROVE  /\ This.pre \in Seq(Step) /\ This.body \in Seq(Step) /\ This.fin \in Seq(Step)
           /\ This.onAssert \in Verdicts /\ This.onRaise \in Verdicts
BY ScriptsAssumption DEF This, Script

\* The step that is due.
LEMMA NowTypes ==
    ASSUME CaseTypes, todo # <<>>
    PROVE  /\ Now \in Step
           /\ Tail(todo) \in Seq(Step)
           /\ Now.on \in SUBSET Items
           /\ Now.kind \in Acts => Now.op \in Calls
           /\ Now.kind \in Registering => Now.op \in Births /\ Now.op \in Calls
           /\ Now.kind \in Releasing => Now.op \in {"purge", "drop"} /\ Now.op \in Calls
           /\ Now.kind = "return" => Now.op \in Verdicts
<1>1. Now \in Step /\ Tail(todo) \in Seq(Step)
  BY DEF CaseTypes, Now
<1> QED
  BY <1>1 DEF Step, WellFormed, Calls

LEMMA OnwardTypes ==
    ASSUME CaseTypes, todo # <<>>, Onward
    PROVE  CaseTypes'
BY NowTypes DEF CaseTypes, Onward

LEMMA LeaveTypes ==
    ASSUME CaseTypes, NEW v \in Verdicts, Leave(v)
    PROVE  CaseTypes'
BY ScriptTypes DEF CaseTypes, Leave

LEMMA BreakTypes ==
    ASSUME CaseTypes, Raise \/ AssertFail \/ NoBaseline
    PROVE  CaseTypes'
<1>1. {"ERROR", "FAIL", "BLOCKED"} \subseteq Verdicts
  BY DEF Verdicts
<1>2. This.onRaise \in Verdicts /\ This.onAssert \in Verdicts
  BY ScriptTypes DEF CaseTypes
<1> QED
  BY <1>1, <1>2, LeaveTypes DEF Raise, AssertFail, NoBaseline

(***************************************************************************)
(* What an answer does to the hub and to what is remembered of it.          *)
(***************************************************************************)
LEMMA AnsweredFacts ==
    ASSUME HubTypes, LateBirths, NEW op \in Calls, NEW S \in SUBSET Items,
           NEW r \in Replies(op, S), NEW extra \in {0, 1},
           Answered(op, S, Reply(r.ok, r.hub, r.late, r.bad + extra))
    PROVE  /\ HubTypes' /\ LateBirths'
           /\ unanswered \subseteq unanswered' /\ lied \subseteq lied'
           /\ \A x \in Items : hub[x] = "absent" /\ hub'[x] # "absent"
                               => r.ok /\ op \in Births /\ x \in S
           /\ \A x \in S : op \in {"purge", "drop"} /\ r.ok /\ hub'[x] # "absent" => x \in lied'
           /\ hub' = r.hub
<1> DEFINE q == Reply(r.ok, r.hub, r.late, r.bad + extra)
<1>1. /\ q.ok = r.ok /\ q.hub = r.hub /\ q.late = r.late /\ q.bad = r.bad + extra
  BY DEF Reply
<1>2. /\ faults + q.bad <= MaxFaults
      /\ faults' = faults + q.bad
      /\ hub' = r.hub
      /\ flight' = flight \cup r.late
      /\ unanswered' = IF op \in Births /\ r.late # {} THEN unanswered \cup S ELSE unanswered
      /\ lied' = IF op \in {"purge", "drop", "on"} /\ r.ok
                 THEN lied \cup {x \in S : r.hub[x] # To(op)} ELSE lied
  BY <1>1 DEF Answered
<1> HIDE DEF q
<1>3. /\ r.ok \in BOOLEAN
      /\ r.hub \in [Items -> Statuses]
      /\ r.late \subseteq {[op |-> op, on |-> S]}
      /\ r.bad \in {0, 1}
      /\ ~r.ok => r.hub = hub
      /\ r.late # {} => ~r.ok
      /\ \A x \in Items : hub[x] = "absent" /\ r.hub[x] # "absent" => op \in Births /\ x \in S
  BY ReplyFacts DEF HubTypes
<1>4. HubTypes'
  <2>1. faults' \in 0..MaxFaults
    BY <1>1, <1>2, <1>3, MaxFaultsAssumption DEF HubTypes
  <2>2. flight' \subseteq Late
    BY <1>2, <1>3 DEF HubTypes, Late
  <2> QED
    BY <1>2, <1>3, <2>1, <2>2 DEF HubTypes
<1>5. LateBirths'
  <2> SUFFICES ASSUME NEW f \in flight', f.op \in Births PROVE f.on \subseteq unanswered'
    BY DEF LateBirths
  <2>1. CASE f \in flight
    BY <1>2, <2>1 DEF LateBirths
  <2>2. CASE f \in r.late
    <3>1. f.op = op /\ f.on = S /\ r.late # {}
      BY <1>3, <2>2
    <3> QED
      BY <1>2, <3>1
  <2> QED
    BY <1>2, <2>1, <2>2
<1>6. \A x \in S : op \in {"purge", "drop"} /\ r.ok /\ hub'[x] # "absent" => x \in lied'
  BY <1>2, StatusTypes
<1> QED
  BY <1>2, <1>3, <1>4, <1>5, <1>6

LEMMA PlainlyAnswered ==
    ASSUME HubTypes, LateBirths, NEW op \in Calls, NEW S \in SUBSET Items,
           NEW r \in Replies(op, S), Answered(op, S, r)
    PROVE  /\ HubTypes' /\ LateBirths'
           /\ unanswered \subseteq unanswered' /\ lied \subseteq lied'
           /\ \A x \in Items : hub[x] = "absent" /\ hub'[x] # "absent"
                               => r.ok /\ op \in Births /\ x \in S
           /\ \A x \in S : op \in {"purge", "drop"} /\ r.ok /\ hub'[x] # "absent" => x \in lied'
           /\ hub' = r.hub
<1>1. r.bad \in {0, 1}
  BY ReplyFacts DEF HubTypes
<1>2. Answered(op, S, Reply(r.ok, r.hub, r.late, r.bad + 0))
  BY <1>1 DEF Answered, Reply
<1> QED
  BY <1>2, AnsweredFacts

\* Nothing leaks when what loses its cover is gone and what is new gets one.
LEMMA StillCovered ==
    ASSUME NoSilentLeak,
           \A x \in Owned : x \in Covered => x \in Covered' \/ hub'[x] = "absent",
           \A x \in Owned : hub[x] = "absent" /\ hub'[x] # "absent" => x \in Covered'
    PROVE  NoSilentLeak'
BY DEF NoSilentLeak

\* A step that leaves the hub alone and gives up nothing leaks nothing.
LEMMA NothingGivenUp ==
    ASSUME NoSilentLeak, UNCHANGED hub, Covered \subseteq Covered'
    PROVE  NoSilentLeak'
BY DEF NoSilentLeak

\* A misbehaviour that changes nothing on the hub.
LEMMA QuietHub ==
    ASSUME HubTypes, LateBirths, Misbehaves \/ UNCHANGED faults,
           UNCHANGED <<hub, flight, unanswered, lied>>
    PROVE  HubTypes' /\ LateBirths'
<1>1. faults' \in 0..MaxFaults
  BY MaxFaultsAssumption DEF HubTypes, Misbehaves
<1> QED
  BY <1>1 DEF HubTypes, LateBirths

\* A step that changes where the case is, and perhaps how often the hub has
\* misbehaved or what the body knows, but neither the hub nor a cover.
LEMMA QuietStep ==
    ASSUME IInv, CaseTypes', Misbehaves \/ UNCHANGED faults,
           answer' \in {"ok", "refused"}, known' \subseteq Items,
           UNCHANGED <<registered, residual, disowned, hub, flight, unanswered, lied>>
    PROVE  IInv'
<1>1. HubTypes' /\ LateBirths'
  BY QuietHub, Halves DEF IInv
<1>2. TypeOK'
  BY <1>1, Halves DEF IInv, TypeOK, CaseTypes, HubTypes
<1>3. NoSilentLeak'
  BY NothingGivenUp DEF IInv, Covered
<1> QED
  BY <1>1, <1>2, <1>3 DEF IInv

(***************************************************************************)
(* One lemma per step of a case.                                           *)
(***************************************************************************)
LEMMA InitHolds == Init => IInv
<1> SUFFICES ASSUME Init PROVE IInv
  OBVIOUS
<1>1. CaseTypes
  BY ScriptTypes DEF Init, CaseTypes, This
<1>2. hub \in [Items -> Statuses] /\ \A x \in Owned : hub[x] = "absent"
  BY DEF Init, Home, Statuses, Items, Owned, Tags, CaseTags, FixtureTags, Loose, OwnSources,
         Groups, Standing
<1>3. HubTypes /\ LateBirths
  BY <1>2, MaxFaultsAssumption DEF Init, HubTypes, LateBirths
<1> QED
  BY <1>1, <1>2, <1>3, Halves DEF Init, IInv, NoSilentLeak

LEMMA SkipHolds == IInv /\ Skip => IInv'
<1> SUFFICES ASSUME IInv, Skip PROVE IInv'
  OBVIOUS
<1>1. CaseTypes'
  BY Halves, OnwardTypes DEF Skip, IInv
<1> QED
  BY <1>1, QuietStep DEF Skip, IInv, TypeOK, heldVars, hubVars

LEMMA NextSectionHolds == IInv /\ NextSection => IInv'
<1> SUFFICES ASSUME IInv, NextSection PROVE IInv'
  OBVIOUS
<1>1. CaseTypes'
  BY ScriptTypes DEF NextSection, IInv, TypeOK, CaseTypes
<1> QED
  BY <1>1, QuietStep DEF NextSection, IInv, TypeOK, heldVars, hubVars

LEMMA NeedBaselineHolds == IInv /\ NeedBaseline => IInv'
<1> SUFFICES ASSUME IInv, NeedBaseline PROVE IInv'
  OBVIOUS
<1>1. CaseTypes /\ todo # <<>>
  BY Halves DEF NeedBaseline, IInv, At
<1>2. CaseTypes'
  BY <1>1, OnwardTypes, BreakTypes DEF NeedBaseline
<1> QED
  BY <1>2, QuietStep DEF NeedBaseline, IInv, TypeOK, heldVars

LEMMA CheckViewHolds == IInv /\ CheckView => IInv'
<1> SUFFICES ASSUME IInv, CheckView PROVE IInv'
  OBVIOUS
<1>1. CaseTypes /\ todo # <<>>
  BY Halves DEF CheckView, IInv, At
<1>2. CaseTypes'
  BY <1>1, OnwardTypes, BreakTypes DEF CheckView
<1> QED
  BY <1>2, QuietStep DEF CheckView, IInv, TypeOK, heldVars

\* Turning a full page changes nothing but the page.
Turning == page' = 1 - page /\ UNCHANGED <<case, section, todo, answer, verdict, heldVars, hubVars>>

LEMMA TurnPageMoves ==
    ASSUME TurnPage
    PROVE  /\ section \in {"pre", "body", "fin"} /\ todo # <<>> /\ Now.kind \in {"turn", "tryturn"}
           /\ Turning \/ Onward \/ Raise
           /\ Misbehaves \/ UNCHANGED faults
           /\ answer' \in {answer, "ok", "refused"}
           /\ UNCHANGED <<heldVars, hub, flight, unanswered, lied>>
BY DEF TurnPage, At, Turning, hubVars

LEMMA TurnPageHolds == IInv /\ TurnPage => IInv'
<1> SUFFICES ASSUME IInv, TurnPage PROVE IInv'
  OBVIOUS
<1>1. CaseTypes /\ todo # <<>>
  BY Halves, TurnPageMoves DEF IInv
<1>2. CaseTypes'
  <2>1. CASE Turning
    BY <1>1, <2>1 DEF Turning, CaseTypes
  <2> QED
    BY <1>1, <2>1, TurnPageMoves, OnwardTypes, BreakTypes
<1> QED
  BY <1>2, TurnPageMoves, QuietStep DEF IInv, TypeOK, heldVars

LEMMA FindRowHolds == IInv /\ FindRow => IInv'
<1> SUFFICES ASSUME IInv, FindRow PROVE IInv'
  OBVIOUS
<1>1. CaseTypes /\ todo # <<>>
  BY Halves DEF FindRow, IInv, At
<1>2. CaseTypes'
  BY <1>1, OnwardTypes, BreakTypes DEF FindRow
<1>3. Now.on \in SUBSET Items
  BY <1>1, NowTypes
<1>4. known' \subseteq Items /\ answer' \in {"ok", "refused"}
  BY <1>3 DEF FindRow, IInv, TypeOK
<1> QED
  BY <1>2, <1>4, QuietStep DEF FindRow

LEMMA NoteIdHolds == IInv /\ NoteId => IInv'
<1> SUFFICES ASSUME IInv, NoteId PROVE IInv'
  OBVIOUS
<1>1. CaseTypes /\ todo # <<>>
  BY Halves DEF NoteId, IInv, At
<1>2. CaseTypes' /\ Now.on \in SUBSET Items
  BY <1>1, OnwardTypes, NowTypes DEF NoteId
<1> QED
  BY <1>2, QuietStep DEF NoteId, IInv, TypeOK, hubVars

LEMMA CheckAnswerHolds == IInv /\ CheckAnswer => IInv'
<1> SUFFICES ASSUME IInv, CheckAnswer PROVE IInv'
  OBVIOUS
<1>1. CaseTypes /\ todo # <<>>
  BY Halves DEF CheckAnswer, IInv, At
<1>2. CaseTypes'
  BY <1>1, OnwardTypes, BreakTypes DEF CheckAnswer
<1> QED
  BY <1>2, QuietStep DEF CheckAnswer, IInv, TypeOK, heldVars, hubVars

LEMMA ReturnVerdictHolds == IInv /\ ReturnVerdict => IInv'
<1> SUFFICES ASSUME IInv, ReturnVerdict PROVE IInv'
  OBVIOUS
<1>1. CaseTypes /\ todo # <<>> /\ Now.kind = "return"
  BY Halves DEF ReturnVerdict, IInv, At
<1>2. CaseTypes'
  BY <1>1, NowTypes, LeaveTypes DEF ReturnVerdict
<1> QED
  BY <1>2, QuietStep DEF ReturnVerdict, IInv, TypeOK, heldVars, hubVars

LEMMA FinishCaseHolds == IInv /\ FinishCase => IInv'
<1> SUFFICES ASSUME IInv, FinishCase PROVE IInv'
  OBVIOUS
<1>1. CaseTypes'
  BY DEF FinishCase, IInv, TypeOK, CaseTypes
<1> QED
  BY <1>1, QuietStep DEF FinishCase, IInv, TypeOK, heldVars, hubVars

LEMMA UnchangedHolds == IInv /\ UNCHANGED vars => IInv'
<1> SUFFICES ASSUME IInv, UNCHANGED vars PROVE IInv'
  OBVIOUS
<1>1. CaseTypes'
  BY DEF vars, IInv, TypeOK, CaseTypes
<1> QED
  BY <1>1, QuietStep DEF vars, IInv, TypeOK

LEMMA PopFallbackHolds == IInv /\ PopFallback => IInv'
<1> SUFFICES ASSUME IInv, PopFallback PROVE IInv'
  OBVIOUS
<1>1. CaseTypes /\ todo # <<>>
  BY Halves DEF PopFallback, IInv, At
<1>2. CaseTypes' /\ Now.on \in SUBSET Items
  BY <1>1, OnwardTypes, NowTypes DEF PopFallback
<1>3. HubTypes' /\ LateBirths'
  BY QuietHub, Halves DEF PopFallback, IInv, hubVars
<1>4. TypeOK'
  BY <1>2, <1>3, Halves DEF PopFallback, IInv, TypeOK, CaseTypes, HubTypes
<1>5. NoSilentLeak'
  BY NothingGivenUp DEF PopFallback, IInv, Covered, hubVars
<1> QED
  BY <1>3, <1>4, <1>5 DEF IInv

LEMMA LandHolds == IInv /\ Land => IInv'
<1> SUFFICES ASSUME IInv, Land PROVE IInv'
  OBVIOUS
<1>1. PICK f \in flight :
        /\ hub' = IF f.op = "add" /\ \E x \in f.on : ~NameFree(x)
                  THEN hub ELSE CarriedOut(f.op, f.on)
        /\ flight' = flight \ {f}
        /\ UNCHANGED <<caseVars, heldVars, faults, unanswered, lied>>
  BY DEF Land
<1>2. f.op \in Calls /\ f.on \subseteq Items
  BY DEF IInv, TypeOK, Late
<1>3. /\ hub' \in [Items -> Statuses]
      /\ \A x \in Items : hub[x] = "absent" /\ hub'[x] # "absent"
                          => f.op \in Births /\ x \in f.on
  BY <1>1, <1>2, CarriedOutType DEF IInv, TypeOK
<1>4. TypeOK'
  BY <1>1, <1>3 DEF IInv, TypeOK, caseVars, heldVars
<1>5. LateBirths'
  BY <1>1 DEF IInv, LateBirths
<1>6. Covered' = Covered
  BY <1>1 DEF Covered, heldVars
<1>7. \A x \in Owned : hub[x] = "absent" /\ hub'[x] # "absent" => x \in Covered'
  BY <1>1, <1>3, OwnedAreItems DEF IInv, LateBirths, Covered
<1> QED
  BY <1>4, <1>5, <1>6, <1>7, StillCovered DEF IInv

LEMMA PlainCallHolds == IInv /\ PlainCall => IInv'
<1> SUFFICES ASSUME IInv, PlainCall PROVE IInv'
  OBVIOUS
<1>1. CaseTypes /\ HubTypes /\ todo # <<>> /\ Now.kind = "call"
  BY Halves DEF PlainCall, IInv, At
<1>2. Now.op \in Calls /\ Now.on \in SUBSET Items
  BY <1>1, NowTypes DEF Acts
<1>3. PICK r \in Replies(Now.op, Now.on) :
        Answered(Now.op, Now.on, r) /\ IF r.ok THEN Onward ELSE Raise
  BY DEF PlainCall
<1>4. CaseTypes'
  BY <1>1, <1>3, OnwardTypes, BreakTypes
<1>5. /\ HubTypes' /\ LateBirths'
      /\ unanswered \subseteq unanswered' /\ lied \subseteq lied'
      /\ \A x \in Items : hub[x] = "absent" /\ hub'[x] # "absent"
                          => Now.op \in Births /\ x \in Now.on
  BY <1>1, <1>2, <1>3, PlainlyAnswered DEF IInv
<1>6. disowned' \subseteq Items /\ disowned \subseteq disowned'
  BY <1>2 DEF PlainCall, Disown, IInv, TypeOK
<1>7. TypeOK'
  BY <1>4, <1>5, <1>6, Halves DEF PlainCall, IInv, TypeOK, CaseTypes, HubTypes
<1>8. Covered \subseteq Covered'
  BY <1>5, <1>6 DEF PlainCall, Covered
<1>9. \A x \in Owned : hub[x] = "absent" /\ hub'[x] # "absent" => x \in Covered'
  BY <1>5, OwnedAreItems DEF PlainCall, Disown, Covered
<1> QED
  BY <1>5, <1>7, <1>8, <1>9, StillCovered DEF IInv

LEMMA AttemptHolds == IInv /\ Attempt => IInv'
<1> SUFFICES ASSUME IInv, Attempt PROVE IInv'
  OBVIOUS
<1>1. CaseTypes /\ HubTypes /\ todo # <<>> /\ Now.kind \in {"try", "also"}
  BY Halves DEF Attempt, IInv, At
<1>2. Now.op \in Calls /\ Now.on \in SUBSET Items
  BY <1>1, NowTypes DEF Acts
<1>3. PICK r \in Replies(Now.op, Now.on) :
        /\ Answered(Now.op, Now.on, r)
        /\ answer' = IF ~r.ok THEN "refused" ELSE IF Now.kind = "also" THEN answer ELSE "ok"
  BY DEF Attempt
<1>4. CaseTypes'
  BY <1>1, OnwardTypes DEF Attempt
<1>5. /\ HubTypes' /\ LateBirths'
      /\ unanswered \subseteq unanswered' /\ lied \subseteq lied'
      /\ \A x \in Items : hub[x] = "absent" /\ hub'[x] # "absent"
                          => Now.op \in Births /\ x \in Now.on
  BY <1>1, <1>2, <1>3, PlainlyAnswered DEF IInv
<1>6. disowned' \subseteq Items /\ disowned \subseteq disowned'
  BY <1>2 DEF Attempt, Disown, IInv, TypeOK
<1>7. answer' \in {"ok", "refused"}
  BY <1>3 DEF IInv, TypeOK
<1>8. TypeOK'
  BY <1>4, <1>5, <1>6, <1>7, Halves DEF Attempt, IInv, TypeOK, CaseTypes, HubTypes
<1>9. Covered \subseteq Covered'
  BY <1>5, <1>6 DEF Attempt, Covered
<1>10. \A x \in Owned : hub[x] = "absent" /\ hub'[x] # "absent" => x \in Covered'
  BY <1>5, OwnedAreItems DEF Attempt, Disown, Covered
<1> QED
  BY <1>5, <1>8, <1>9, <1>10, StillCovered DEF IInv

\* What comes into being at once was asked for and answered: it is registered.
LEMMA CreateHolds == IInv /\ Create => IInv'
<1> SUFFICES ASSUME IInv, Create PROVE IInv'
  OBVIOUS
<1>1. CaseTypes /\ HubTypes /\ todo # <<>> /\ Now.kind \in Registering
  BY Halves DEF Create, IInv, At
<1>2. Now.op \in Calls /\ Now.on \in SUBSET Items
  BY <1>1, NowTypes
<1>3. PICK r \in Replies(Now.op, Now.on) :
        /\ Answered(Now.op, Now.on, r)
        /\ IF r.ok \/ Now.kind = "tryborn" THEN Onward ELSE Raise
        /\ answer' = IF r.ok THEN "ok" ELSE "refused"
        /\ known' = IF r.ok /\ Now.kind # "make" THEN known \cup Now.on ELSE known
        /\ registered' = IF r.ok THEN registered \cup Now.on ELSE registered
  BY DEF Create
<1>4. CaseTypes'
  BY <1>1, <1>3, OnwardTypes, BreakTypes
<1>5. /\ HubTypes' /\ LateBirths'
      /\ unanswered \subseteq unanswered' /\ lied \subseteq lied'
      /\ \A x \in Items : hub[x] = "absent" /\ hub'[x] # "absent"
                          => r.ok /\ Now.op \in Births /\ x \in Now.on
  BY <1>1, <1>2, <1>3, PlainlyAnswered DEF IInv
<1>6. /\ answer' \in {"ok", "refused"} /\ known' \subseteq Items
      /\ registered' \subseteq Items /\ registered \subseteq registered'
  BY <1>2, <1>3 DEF IInv, TypeOK
<1>7. TypeOK'
  BY <1>4, <1>5, <1>6, Halves DEF Create, IInv, TypeOK, CaseTypes, HubTypes
<1>8. Covered \subseteq Covered'
  BY <1>5, <1>6 DEF Create, Covered
<1>9. \A x \in Owned : hub[x] = "absent" /\ hub'[x] # "absent" => x \in Covered'
  BY <1>3, <1>5, OwnedAreItems DEF Covered
<1> QED
  BY <1>5, <1>7, <1>8, <1>9, StillCovered DEF IInv

\* A fallback goes only after a delete the hub confirmed.
LEMMA RetirementHolds == IInv /\ Retirement => IInv'
<1> SUFFICES ASSUME IInv, Retirement PROVE IInv'
  OBVIOUS
<1>1. /\ CaseTypes /\ HubTypes /\ todo # <<>>
      /\ Now.kind \in {"retire", "tryretire"}
  BY Halves DEF Retirement, IInv, At
<1>2. Now.op \in Calls /\ Now.op \in {"purge", "drop"} /\ Now.on \in SUBSET Items
  BY <1>1, NowTypes DEF Releasing
<1>3. PICK r \in Replies(Now.op, Now.on) :
        /\ Answered(Now.op, Now.on, r)
        /\ IF r.ok \/ Now.kind = "tryretire" THEN Onward ELSE Raise
        /\ answer' = IF r.ok THEN "ok" ELSE "refused"
        /\ registered' = IF r.ok THEN registered \ Now.on ELSE registered
  BY DEF Retirement
<1>4. CaseTypes'
  BY <1>1, <1>3, OnwardTypes, BreakTypes
<1>5. /\ HubTypes' /\ LateBirths'
      /\ unanswered \subseteq unanswered' /\ lied \subseteq lied'
      /\ \A x \in Items : hub[x] = "absent" /\ hub'[x] # "absent" => Now.op \in Births
      /\ \A x \in Now.on : r.ok /\ hub'[x] # "absent" => x \in lied'
  BY <1>1, <1>2, <1>3, PlainlyAnswered DEF IInv
<1>6. answer' \in {"ok", "refused"} /\ registered' \subseteq registered
  BY <1>3
<1>7. TypeOK'
  BY <1>4, <1>5, <1>6, Halves DEF Retirement, IInv, TypeOK, CaseTypes, HubTypes
<1>8. \A x \in Owned : x \in Covered => x \in Covered' \/ hub'[x] = "absent"
  BY <1>3, <1>5 DEF Retirement, Covered
<1>9. \A x \in Owned : hub[x] = "absent" /\ hub'[x] # "absent" => x \in Covered'
  BY <1>2, <1>5, OwnedAreItems DEF Births
<1> QED
  BY <1>5, <1>7, <1>8, <1>9, StillCovered DEF IInv

LEMMA CleanupCaseTagHolds == IInv /\ CleanupCaseTag => IInv'
<1> SUFFICES ASSUME IInv, CleanupCaseTag PROVE IInv'
  OBVIOUS
<1>1. CaseTypes /\ HubTypes /\ todo # <<>> /\ Now.kind = "cleanup"
  BY Halves DEF CleanupCaseTag, IInv, At
<1>2. Now.op \in Calls /\ Now.op \in {"purge", "drop"} /\ Now.on \in SUBSET Items
  BY <1>1, NowTypes DEF Releasing
<1>3. CaseTypes'
  BY <1>1, OnwardTypes DEF CleanupCaseTag
<1>4. PICK x \in Now.on :
        \E r \in Replies(Now.op, {x}), stalled \in {0, 1} :
        IF x \notin known
        THEN UNCHANGED <<hubVars, registered>>
        ELSE /\ Answered(Now.op, {x}, Reply(r.ok, r.hub, r.late, r.bad + stalled))
             /\ registered' = IF r.ok /\ stalled = 0 THEN registered \ {x} ELSE registered
  BY DEF CleanupCaseTag
<1>5. PICK r \in Replies(Now.op, {x}), stalled \in {0, 1} :
        IF x \notin known
        THEN UNCHANGED <<hubVars, registered>>
        ELSE /\ Answered(Now.op, {x}, Reply(r.ok, r.hub, r.late, r.bad + stalled))
             /\ registered' = IF r.ok /\ stalled = 0 THEN registered \ {x} ELSE registered
  BY <1>4
<1>6. UNCHANGED <<answer, known, residual, disowned>>
  BY DEF CleanupCaseTag
<1>7. CASE x \notin known
  BY <1>3, <1>5, <1>6, <1>7, QuietStep DEF hubVars, IInv, TypeOK
<1>8. CASE x \in known
  <2>1. {x} \in SUBSET Items
    BY <1>2
  <2>2. /\ Answered(Now.op, {x}, Reply(r.ok, r.hub, r.late, r.bad + stalled))
        /\ registered' = IF r.ok /\ stalled = 0 THEN registered \ {x} ELSE registered
    BY <1>5, <1>8
  <2>3. /\ HubTypes' /\ LateBirths'
        /\ unanswered \subseteq unanswered' /\ lied \subseteq lied'
        /\ \A y \in Items : hub[y] = "absent" /\ hub'[y] # "absent" => Now.op \in Births
        /\ r.ok /\ hub'[x] # "absent" => x \in lied'
    BY <1>1, <1>2, <2>1, <2>2, AnsweredFacts DEF IInv
  <2>4. TypeOK'
    BY <1>3, <1>6, <2>2, <2>3, Halves DEF IInv, TypeOK, CaseTypes, HubTypes
  <2>5. \A y \in Owned : y \in Covered => y \in Covered' \/ hub'[y] = "absent"
    BY <1>6, <2>2, <2>3 DEF Covered
  <2>6. \A y \in Owned : hub[y] = "absent" /\ hub'[y] # "absent" => y \in Covered'
    BY <1>2, <2>3, OwnedAreItems DEF Births
  <2> QED
    BY <2>3, <2>4, <2>5, <2>6, StillCovered DEF IInv
<1> QED
  BY <1>7, <1>8

\* The sweep drops the fallback it ran.  What is still there then was either
\* reported, because the fallback raised, or the hub said it was gone.
LEMMA SweepNextHolds == IInv /\ SweepNext => IInv'
<1> SUFFICES ASSUME IInv, SweepNext PROVE IInv'
  OBVIOUS
<1>1. PICK x \in registered :
        \E r \in Replies(ReleaseOp(x), {x}) :
        /\ Answered(ReleaseOp(x), {x}, r)
        /\ LET raises == CASE x \in CaseTags    -> ~r.ok
                           [] x \in FixtureTags -> ~r.ok /\ r.hub[x] # "absent"
                           [] OTHER             -> r.hub[x] # "absent"
           IN  residual' = IF raises THEN residual \cup {x} ELSE residual
        /\ registered' = registered \ {x}
  BY DEF SweepNext
<1>2. PICK r \in Replies(ReleaseOp(x), {x}) :
        /\ Answered(ReleaseOp(x), {x}, r)
        /\ LET raises == CASE x \in CaseTags    -> ~r.ok
                           [] x \in FixtureTags -> ~r.ok /\ r.hub[x] # "absent"
                           [] OTHER             -> r.hub[x] # "absent"
           IN  residual' = IF raises THEN residual \cup {x} ELSE residual
        /\ registered' = registered \ {x}
  BY <1>1
<1>3. ReleaseOp(x) \in {"purge", "drop"} /\ ReleaseOp(x) \in Calls
  BY DEF ReleaseOp, Calls
<1>4. HubTypes /\ {x} \in SUBSET Items
  BY Halves DEF IInv
<1>5. /\ HubTypes' /\ LateBirths'
      /\ unanswered \subseteq unanswered' /\ lied \subseteq lied'
      /\ \A y \in Items : hub[y] = "absent" /\ hub'[y] # "absent" => ReleaseOp(x) \in Births
      /\ r.ok /\ hub'[x] # "absent" => x \in lied'
      /\ hub' = r.hub
  BY <1>2, <1>3, <1>4, PlainlyAnswered DEF IInv
<1>6. /\ residual' \subseteq residual \cup {x} /\ residual \subseteq residual'
      /\ ~r.ok /\ hub'[x] # "absent" => x \in residual'
  <2>1. CASE x \in CaseTags
    <3>1. x \notin FixtureTags
      BY <2>1 DEF CaseTags, FixtureTags, Loose
    <3> QED
      BY <1>2, <2>1, <3>1
  <2>2. CASE x \notin CaseTags /\ x \in FixtureTags
    BY <1>2, <1>5, <2>2
  <2>3. CASE x \notin CaseTags /\ x \notin FixtureTags
    BY <1>2, <1>5, <2>3
  <2> QED
    BY <2>1, <2>2, <2>3
<1>7. TypeOK'
  BY <1>2, <1>4, <1>5, <1>6, Halves
     DEF SweepNext, caseVars, IInv, TypeOK, CaseTypes, HubTypes
<1>8. \A y \in Owned : y \in Covered => y \in Covered' \/ hub'[y] = "absent"
  BY <1>2, <1>5, <1>6 DEF SweepNext, Covered
<1>9. \A y \in Owned : hub[y] = "absent" /\ hub'[y] # "absent" => y \in Covered'
  BY <1>3, <1>5, OwnedAreItems DEF Births
<1> QED
  BY <1>5, <1>7, <1>8, <1>9, StillCovered DEF IInv

LEMMA InvariantHolds == Spec => []IInv
<1>1. IInv /\ [Next]_vars => IInv'
  BY SkipHolds, NextSectionHolds, NeedBaselineHolds, PlainCallHolds, AttemptHolds, CreateHolds,
     RetirementHolds, PopFallbackHolds, CheckViewHolds, TurnPageHolds, FindRowHolds,
     NoteIdHolds, CheckAnswerHolds, ReturnVerdictHolds, CleanupCaseTagHolds, SweepNextHolds,
     FinishCaseHolds, LandHolds, UnchangedHolds
     DEF Next, RunCase, Over
<1> QED
  BY <1>1, InitHolds, PTL DEF Spec

(***************************************************************************)
(* The variables keep their types, whatever the scripts say.                *)
(***************************************************************************)
THEOREM TypeCorrect == Spec => []TypeOK
<1>1. IInv => TypeOK
  BY DEF IInv
<1> QED
  BY <1>1, InvariantHolds, PTL

(***************************************************************************)
(* No case leaks in silence: whatever a body of the helpers is, and however *)
(* often the hub misbehaves, what a case leaves behind is registered,       *)
(* reported, or one of the kinds NoSilentLeak names.                        *)
(***************************************************************************)
THEOREM LeakFree == Spec => []NoSilentLeak
<1>1. IInv => NoSilentLeak
  BY DEF IInv
<1> QED
  BY <1>1, InvariantHolds, PTL

(***************************************************************************)
(* Where a conclusion is, and what is left to do then.                      *)
(***************************************************************************)
VerdictPlace == verdict # "none" => section \notin {"pre", "body"}
FinPlace ==
    section = "fin" /\ OnlyCleansUp(This) => \A i \in 1..Len(todo) : todo[i].kind = "cleanup"
Place == VerdictPlace /\ FinPlace

\* The case moves in one of four ways; only a step that is no cleanup leaves
\* the section early.
LEMMA Moves ==
    ASSUME Next \/ UNCHANGED vars
    PROVE  \/ todo # <<>> /\ Onward
           \/ /\ section \in {"pre", "body", "fin"}
              /\ todo # <<>> /\ Now.kind # "cleanup"
              /\ \E v : Leave(v)
           \/ NextSection
           \/ UNCHANGED <<case, todo, verdict>> /\ section' \in {section, "over"}
<1> DEFINE Broken == \E v : Leave(v)
<1>1. Raise \/ AssertFail \/ NoBaseline => Broken
  BY DEF Raise, AssertFail, NoBaseline
<1>2. CASE Skip
  BY <1>2 DEF Skip
<1>3. CASE NeedBaseline
  BY <1>1, <1>3 DEF NeedBaseline, At
<1>4. CASE PlainCall
  BY <1>1, <1>4 DEF PlainCall, At
<1>5. CASE Attempt
  BY <1>5 DEF Attempt, At
<1>6. CASE Create
  BY <1>1, <1>6 DEF Create, At, Registering
<1>7. CASE Retirement
  BY <1>1, <1>7 DEF Retirement, At
<1>8. CASE PopFallback
  BY <1>8 DEF PopFallback, At
<1>9. CASE CheckView
  BY <1>1, <1>9 DEF CheckView, At
<1>10. CASE FindRow
  BY <1>1, <1>10 DEF FindRow, At
<1>11. CASE NoteId
  BY <1>11 DEF NoteId, At
<1>12. CASE CheckAnswer
  BY <1>1, <1>12 DEF CheckAnswer, At
<1>13. CASE ReturnVerdict
  BY <1>13 DEF ReturnVerdict, At
<1>14. CASE CleanupCaseTag
  BY <1>14 DEF CleanupCaseTag, At
<1>15. CASE SweepNext \/ FinishCase \/ Land \/ Over \/ UNCHANGED vars
  BY <1>15 DEF SweepNext, FinishCase, Land, Over, caseVars, vars
<1>16. CASE TurnPage
  <2>1. CASE Turning
    BY <2>1 DEF Turning
  <2>2. CASE Onward \/ Raise
    BY <1>1, <1>16, <2>2, TurnPageMoves
  <2> QED
    BY <1>16, <2>1, <2>2, TurnPageMoves
<1> HIDE DEF Broken
<1> QED
  BY <1>2, <1>3, <1>4, <1>5, <1>6, <1>7, <1>8, <1>9, <1>10, <1>11, <1>12, <1>13, <1>14, <1>15,
     <1>16
     DEF Next, RunCase

LEMMA OnwardPlace ==
    ASSUME CaseTypes, Place, todo # <<>>, Onward
    PROVE  Place' /\ verdict' = verdict
<1>1. /\ todo' = Tail(todo) /\ section' = section /\ verdict' = verdict /\ This' = This
      /\ todo \in Seq(Step)
  BY DEF Onward, This, CaseTypes
<1>2. \A i \in 1..Len(Tail(todo)) : i + 1 \in 1..Len(todo) /\ Tail(todo)[i] = todo[i + 1]
  BY <1>1
<1>3. OnlyCleansUp(This)' = OnlyCleansUp(This)
  BY <1>1 DEF OnlyCleansUp
<1> QED
  BY <1>1, <1>2, <1>3 DEF Place, VerdictPlace, FinPlace

LEMMA LeavePlace ==
    ASSUME NEW v, Leave(v), section \in {"pre", "body", "fin"}
    PROVE  Place'
<1>1. This' = This
  BY DEF Leave, This
<1> QED
  BY <1>1 DEF Leave, Place, VerdictPlace, FinPlace, OnlyCleansUp

LEMMA NextSectionPlace ==
    ASSUME Place, NextSection
    PROVE  Place' /\ verdict' = verdict
<1>1. This' = This /\ verdict' = verdict
  BY DEF NextSection, This
<1>2. CASE section = "pre"
  BY <1>1, <1>2 DEF NextSection, Place, VerdictPlace, FinPlace
<1>3. CASE section = "body"
  BY <1>1, <1>3 DEF NextSection, Place, VerdictPlace, FinPlace, OnlyCleansUp
<1>4. CASE section = "fin"
  BY <1>1, <1>4 DEF NextSection, Place, VerdictPlace, FinPlace
<1> QED
  BY <1>2, <1>3, <1>4 DEF NextSection

LEMMA PlaceHolds ==
    ASSUME CaseTypes, Place, Next \/ UNCHANGED vars
    PROVE  /\ Place'
           /\ verdict # "none" /\ OnlyCleansUp(This) => verdict' = verdict
<1>1. CASE todo # <<>> /\ Onward
  BY <1>1, OnwardPlace
<1>2. CASE /\ section \in {"pre", "body", "fin"}
           /\ todo # <<>> /\ Now.kind # "cleanup"
           /\ \E v : Leave(v)
  <2>1. ~(verdict # "none" /\ OnlyCleansUp(This))
    <3>1. 1 \in 1..Len(todo) /\ Now = todo[1]
      BY <1>2 DEF CaseTypes, Now
    <3> QED
      BY <1>2, <3>1 DEF Place, VerdictPlace, FinPlace
  <2> QED
    BY <1>2, <2>1, LeavePlace
<1>3. CASE NextSection
  BY <1>3, NextSectionPlace
<1>4. CASE UNCHANGED <<case, todo, verdict>> /\ section' \in {section, "over"}
  BY <1>4 DEF Place, VerdictPlace, FinPlace, OnlyCleansUp, This
<1> QED
  BY <1>1, <1>2, <1>3, <1>4, Moves

(***************************************************************************)
(* Cleaning up never masks the result (cleanup_case_tag), for every script  *)
(* whose `finally` does nothing but clean up its tags.                      *)
(***************************************************************************)
THEOREM CleanupHolds == Spec => CleanupNeverMasks
<1>1. Init => Place
  BY DEF Init, Place, VerdictPlace, FinPlace
<1>2. IInv => CaseTypes
  BY Halves DEF IInv
<1>3. IInv /\ Place /\ [Next]_vars => Place'
  BY <1>2, PlaceHolds
<1>4. IInv /\ Place /\ [Next]_vars
      => [verdict # "none" /\ OnlyCleansUp(This) => verdict' = verdict]_vars
  BY <1>2, PlaceHolds
<1> QED
  BY <1>1, <1>3, <1>4, InvariantHolds, PTL DEF Spec, CleanupNeverMasks

(***************************************************************************)
(* What is stopped is started again: the sequences of steps.                *)
(***************************************************************************)
LEMMA TailSteps ==
    ASSUME NEW seq \in Seq(Step), seq # <<>>
    PROVE  /\ Len(seq) \in Nat /\ Len(seq) >= 1
           /\ Tail(seq) \in Seq(Step)
           /\ Len(Tail(seq)) = Len(seq) - 1
           /\ \A i \in 1..Len(seq) - 1 : Tail(seq)[i] = seq[i + 1]
           /\ Head(seq) = seq[1]
OBVIOUS

\* What is mended from position i + 1 on is mended from position i of the rest.
LEMMA MendsShift ==
    ASSUME NEW script, NEW sec, NEW x, NEW seq \in Seq(Step), seq # <<>>, NEW i \in Nat,
           Mends(script, sec, seq, i + 1, x)
    PROVE  Mends(script, sec, Tail(seq), i, x)
<1> DEFINE t == Tail(seq)
<1>1. PICK n \in Nat : n = Len(seq) /\ n >= 1
  BY TailSteps
<1>2. Len(t) = n - 1 /\ \A j \in 1..n - 1 : t[j] = seq[j + 1]
  BY <1>1, TailSteps
<1> HIDE DEF t
<1>3. CASE StartedAfter(seq, i + 1, x)
  <2>1. PICK k \in i + 2 .. n : Starts(seq[k], x) /\ \A j \in i + 2 .. k - 1 : ~Departs(seq[j])
    BY <1>1, <1>3 DEF StartedAfter
  <2>2. k - 1 \in i + 1 .. n - 1 /\ t[k - 1] = seq[k]
    <3>1. k - 1 \in i + 1 .. n - 1 /\ k - 1 \in 1..n - 1 /\ (k - 1) + 1 = k
      BY <1>1, <2>1
    <3> QED
      BY <1>2, <3>1
  <2>3. ASSUME NEW j \in i + 1 .. (k - 1) - 1 PROVE ~Departs(t[j])
    <3>1. j + 1 \in i + 2 .. k - 1 /\ j \in 1..n - 1
      BY <1>1, <2>1
    <3> QED
      BY <1>2, <2>1, <3>1
  <2> QED
    BY <1>2, <2>1, <2>2, <2>3 DEF t, Mends, StartedAfter
<1>4. CASE ~StartedAfter(seq, i + 1, x)
  <2>1. ASSUME \A j \in i + 2 .. n : ~Departs(seq[j]), NEW j \in i + 1 .. n - 1
        PROVE  ~Departs(t[j])
    <3>1. j + 1 \in i + 2 .. n /\ j \in 1..n - 1
      BY <1>1
    <3> QED
      BY <1>2, <2>1, <3>1
  <2>2. i + 1 + 1 = i + 2
    OBVIOUS
  <2> QED
    BY <1>1, <1>2, <1>4, <2>1, <2>2 DEF t, Mends
<1> QED
  BY <1>3, <1>4

\* What is mended stays so when a step that does not start it is done.
LEMMA MendsOn ==
    ASSUME NEW script, NEW sec, NEW x, NEW seq \in Seq(Step), seq # <<>>,
           ~Starts(seq[1], x), Mends(script, sec, seq, 0, x)
    PROVE  Mends(script, sec, Tail(seq), 0, x)
<1>1. PICK n \in Nat : n = Len(seq) /\ n >= 1
  BY TailSteps
<1>2. Mends(script, sec, seq, 0 + 1, x)
  <2>1. CASE StartedAfter(seq, 0, x)
    <3>1. PICK k \in 1..n : Starts(seq[k], x) /\ \A j \in 1..k - 1 : ~Departs(seq[j])
      BY <1>1, <2>1 DEF StartedAfter
    <3>2. k \in 2..n
      BY <1>1, <3>1
    <3>3. \A j \in 2..k - 1 : j \in 1..k - 1
      BY <3>1
    <3>4. StartedAfter(seq, 1, x)
      BY <1>1, <3>1, <3>2, <3>3 DEF StartedAfter
    <3> QED
      BY <3>4 DEF Mends
  <2>2. CASE ~StartedAfter(seq, 0, x)
    <3>1. \A j \in 2..n : j \in 1..n
      BY <1>1
    <3> QED
      BY <1>1, <2>2, <3>1 DEF Mends
  <2> QED
    BY <2>1, <2>2
<1> QED
  BY <1>2, MendsShift

\* A step that may depart leaves it to the `finally` of a body.
LEMMA MendsAtDeparture ==
    ASSUME NEW script, NEW sec, NEW x, NEW seq \in Seq(Step), seq # <<>>,
           Departs(seq[1]), Mends(script, sec, seq, 0, x)
    PROVE  sec = "body" /\ StartedAfter(script.fin, 0, x)
<1>1. PICK n \in Nat : n = Len(seq) /\ n >= 1
  BY TailSteps
<1>2. ~StartedAfter(seq, 0, x)
  <2> SUFFICES ASSUME StartedAfter(seq, 0, x) PROVE FALSE
    OBVIOUS
  <2>1. PICK k \in 1..n : Starts(seq[k], x) /\ \A j \in 1..k - 1 : ~Departs(seq[j])
    BY <1>1 DEF StartedAfter
  <2>2. CASE k = 1
    BY <2>1, <2>2 DEF Starts, Departs
  <2>3. CASE k # 1
    <3>1. 1 \in 1..k - 1
      BY <1>1, <2>1, <2>3
    <3> QED
      BY <2>1, <3>1
  <2> QED
    BY <2>2, <2>3
<1>3. 1 \in 0 + 1 .. n
  BY <1>1
<1> QED
  BY <1>1, <1>2, <1>3 DEF Mends

LEMMA CarefulOn ==
    ASSUME NEW script, NEW sec, NEW x, NEW seq \in Seq(Step), seq # <<>>,
           Careful(script, sec, seq, x)
    PROVE  /\ Careful(script, sec, Tail(seq), x)
           /\ Stops(seq[1], x) => Mends(script, sec, Tail(seq), 0, x)
<1>1. PICK n \in Nat : n = Len(seq) /\ n >= 1
  BY TailSteps
<1>2. ASSUME NEW i \in 1..n - 1, Stops(Tail(seq)[i], x)
      PROVE  Mends(script, sec, Tail(seq), i, x)
  <2>1. i \in Nat /\ i + 1 \in 1..n /\ Tail(seq)[i] = seq[i + 1]
    BY <1>1, TailSteps
  <2>2. Mends(script, sec, seq, i + 1, x)
    BY <1>1, <1>2, <2>1 DEF Careful
  <2> QED
    BY <2>1, <2>2, MendsShift
<1>3. Len(Tail(seq)) = n - 1
  BY <1>1, TailSteps
<1>4. Careful(script, sec, Tail(seq), x)
  BY <1>2, <1>3 DEF Careful
<1>5. ASSUME Stops(seq[1], x) PROVE Mends(script, sec, Tail(seq), 0, x)
  <2>1. 1 \in 1..n
    BY <1>1
  <2>2. Mends(script, sec, seq, 0 + 1, x)
    BY <1>1, <1>5, <2>1 DEF Careful
  <2> QED
    BY <2>2, MendsShift
<1> QED
  BY <1>4, <1>5

(***************************************************************************)
(* What a call does to what stands.                                        *)
(***************************************************************************)
LateStop(x) == \E f \in flight : f.op \in {"off", "drop"} /\ x \in f.on

\* x is not stopped by the step, nor by a call that is under way after it.
Calm(x) ==
    /\ lied \subseteq lied'
    /\ hub[x] \in {"on", "off"} /\ ~LateStop(x) => hub'[x] \in {hub[x], "on"} /\ ~LateStop(x)'
\* x may be stopped, but nothing is under way that would stop it later.
Stopped(x) ==
    hub[x] \in {"on", "off"} /\ ~LateStop(x) => hub'[x] \in {"on", "off"} /\ ~LateStop(x)'

LEMMA CalmStops == ASSUME NEW x, Calm(x) PROVE Stopped(x)
BY DEF Calm, Stopped

LEMMA QuietCalm ==
    ASSUME NEW x, hub' = hub, flight' \subseteq flight, lied \subseteq lied'
    PROVE  Calm(x)
BY DEF Calm, LateStop

LEMMA ReplyStanding ==
    ASSUME NEW op \in Calls, NEW S \in SUBSET Items, NEW r \in Replies(op, S),
           hub \in [Items -> Statuses], NEW x \in Standing
    PROVE  r.hub[x] = hub[x] \/ (x \in S /\ hub[x] \in From(op) /\ r.hub[x] = To(op))
<1> DEFINE marks    == {y \in S \cap Special : hub[y] = "absent"}
           able     == \A y \in S \ marks : Able(op, y)
           filled   == IF op = "drop"
                       THEN {y \in UNION {Below(z) : z \in S} \ S : hub[y] # "absent"} ELSE {}
           nodeless == op = "write" /\ S \cap Loose # {}
           must     == able /\ marks = {} /\ filled = {} /\ ~nodeless
           mustNot  == "void" \in marks \/ (~able /\ op \in Births \cup {"write"})
<1>1. r \in { Reply(TRUE, CarriedOut(op, S), {}, IF mustNot THEN 1 ELSE 0),
              Reply(TRUE, CarriedOut(op, S \cup filled), {}, IF mustNot THEN 1 ELSE 0),
              Reply(FALSE, hub, {}, IF must THEN 1 ELSE 0),
              Reply(TRUE, hub, {}, 1) }
            \cup (IF S \cap {"mock", "local"} # {} THEN {}
                  ELSE {Reply(FALSE, hub, {[op |-> op, on |-> S]}, 1)})
  BY DEF Replies
<1>2. x \notin filled
  <2>1. \A z : x \notin Below(z)
    BY DEF Below, Standing
  <2> QED
    BY <2>1
<1>3. x \in Items
  BY DEF Items
<1> HIDE DEF must, mustNot, filled
<1>4. \A T : CarriedOut(op, T)[x]
               = IF x \in T \ {"stray"} /\ hub[x] \in From(op) THEN To(op) ELSE hub[x]
  BY <1>3 DEF CarriedOut
<1>5. r.hub \in {hub, CarriedOut(op, S), CarriedOut(op, S \cup filled)}
  BY <1>1 DEF Reply
<1> QED
  BY <1>2, <1>4, <1>5

LEMMA CallStanding ==
    ASSUME HubTypes, LateBirths, NEW op \in Calls, NEW S \in SUBSET Items,
           NEW r \in Replies(op, S), NEW extra \in {0, 1},
           Answered(op, S, Reply(r.ok, r.hub, r.late, r.bad + extra)), NEW x \in Standing
    PROVE  /\ lied \subseteq lied'
           /\ ~(op \in {"off", "drop"} /\ x \in S) => Calm(x)
           /\ op = "on" /\ x \in S /\ r.ok => hub'[x] = "on" \/ lied' # {}
           /\ op = "off" /\ r.ok => Stopped(x)
<1>1. lied \subseteq lied' /\ hub' = r.hub
  BY AnsweredFacts
<1>2. /\ flight' = flight \cup r.late
      /\ lied' = IF op \in {"purge", "drop", "on"} /\ r.ok
                 THEN lied \cup {y \in S : r.hub[y] # To(op)} ELSE lied
  BY DEF Answered, Reply
<1>3. /\ r.late \subseteq {[op |-> op, on |-> S]}
      /\ r.late # {} => ~r.ok
  BY ReplyFacts DEF HubTypes
<1>4. r.hub[x] = hub[x] \/ (x \in S /\ hub[x] \in From(op) /\ r.hub[x] = To(op))
  BY ReplyStanding DEF HubTypes
<1>5. /\ op \notin {"on", "off", "drop"} => "on" \notin From(op) /\ "off" \notin From(op)
      /\ To("on") = "on" /\ To("off") = "off"
  BY DEF From, To, Calls, Births
<1>6. ASSUME ~(op \in {"off", "drop"} /\ x \in S) PROVE Calm(x)
  <2>1. hub[x] \in {"on", "off"} => hub'[x] \in {hub[x], "on"}
    BY <1>1, <1>4, <1>5, <1>6
  <2>2. ~LateStop(x) => ~LateStop(x)'
    BY <1>2, <1>3, <1>6 DEF LateStop
  <2> QED
    BY <1>1, <2>1, <2>2 DEF Calm
<1>7. op = "on" /\ x \in S /\ r.ok => hub'[x] = "on" \/ lied' # {}
  BY <1>1, <1>2, <1>5
<1>8. op = "off" /\ r.ok => Stopped(x)
  BY <1>1, <1>2, <1>3, <1>4, <1>5 DEF Stopped, LateStop
<1> QED
  BY <1>1, <1>6, <1>7, <1>8

LEMMA PlainStanding ==
    ASSUME HubTypes, LateBirths, NEW op \in Calls, NEW S \in SUBSET Items,
           NEW r \in Replies(op, S), Answered(op, S, r), NEW x \in Standing
    PROVE  /\ lied \subseteq lied'
           /\ ~(op \in {"off", "drop"} /\ x \in S) => Calm(x)
           /\ op = "on" /\ x \in S /\ r.ok => hub'[x] = "on" \/ lied' # {}
           /\ op = "off" /\ r.ok => Stopped(x)
<1>1. r.bad \in {0, 1}
  BY ReplyFacts DEF HubTypes
<1>2. Answered(op, S, Reply(r.ok, r.hub, r.late, r.bad + 0))
  BY <1>1 DEF Answered, Reply
<1> QED
  BY <1>2, CallStanding

(***************************************************************************)
(* The courses a step can take, as one thing x of the baseline sees them.   *)
(***************************************************************************)
\* What is left to do are steps of the script, in the `finally` those of it.
Fit ==
    /\ \A i \in 1..Len(todo) : todo[i] \in StepsOf(This)
    /\ section = "fin" => \A i \in 1..Len(todo) : \E j \in 1..Len(This.fin) : todo[i] = This.fin[j]
InSteps == section \in {"pre", "body", "fin"} /\ todo # <<>>

\* The step is done; what it starts is on, or the hub lied.
Forward(x) ==
    /\ InSteps /\ Onward /\ lied \subseteq lied'
    /\ IF Stops(Now, x) THEN Stopped(x) ELSE Calm(x)
    /\ Starts(Now, x) => hub'[x] = "on" \/ lied' # {}
\* The step raises, or its check fails.
Fails(x) ==
    /\ InSteps /\ lied \subseteq lied'
    /\ \E v : Leave(v) /\ (Touches(This, x) => v \in Failures)
    /\ Touches(This, x) \/ Calm(x)
\* The step may depart with any verdict.
Quits(x) == InSteps /\ Departs(Now) /\ (\E v : Leave(v)) /\ Calm(x)
\* The hub, the runner, or nobody, moves.
Rests(x) ==
    /\ UNCHANGED <<case, todo, verdict>> /\ section' \in {section, "over"}
    /\ section \in {"pre", "body", "fin"} => section' = section
    /\ Calm(x)
Course(x) == Forward(x) \/ Fails(x) \/ Quits(x) \/ (NextSection /\ Calm(x)) \/ Rests(x)

\* What is known of a case before a step.
Ready(x) ==
    /\ CaseTypes /\ HubTypes /\ LateBirths
    /\ Fit /\ Restoring(This) /\ registered \subseteq Items \ Standing
    /\ x \in Standing

LEMMA NowInScript ==
    ASSUME NEW x, Ready(x), InSteps
    PROVE  /\ Now \in StepsOf(This)
           /\ Stops(Now, x) => Touches(This, x) /\ Now.kind = "call" /\ Now.op = "off"
           /\ Now.kind \in Registering => Now.on \cap Standing = {}
           /\ Touches(This, x) => This.onRaise \in Failures /\ This.onAssert \in Failures
           /\ Touches(This, x) /\ section = "fin" => ~Departs(Now)
<1>1. todo \in Seq(Step) /\ 1 \in 1..Len(todo) /\ Now = todo[1]
  BY DEF Ready, CaseTypes, InSteps, Now
<1>2. Now \in StepsOf(This)
  BY <1>1 DEF Ready, Fit
<1>3. Touches(This, x) => Restores(This, x)
  BY DEF Ready, Restoring
<1>4. Stops(Now, x) => Touches(This, x)
  BY <1>2 DEF Touches
<1>5. Stops(Now, x) => Now.kind = "call" /\ Now.op = "off"
  BY <1>2, <1>3, <1>4 DEF Restores
<1>6. Now.kind \in Registering => Now.on \cap Standing = {}
  BY <1>2 DEF Ready, Restoring
<1>7. Touches(This, x) /\ section = "fin" => ~Departs(Now)
  <2> SUFFICES ASSUME Touches(This, x), section = "fin" PROVE ~Departs(Now)
    OBVIOUS
  <2>1. PICK j \in 1..Len(This.fin) : Now = This.fin[j]
    BY <1>1 DEF Ready, Fit
  <2> QED
    BY <1>3, <2>1 DEF Restores
<1> QED
  BY <1>2, <1>3, <1>4, <1>5, <1>6, <1>7 DEF Restores

\* Whatever raises or asserts, a script that stops x ends it FAIL or ERROR.
LEMMA BreakFails ==
    ASSUME NEW x, Ready(x), InSteps, Raise \/ AssertFail
    PROVE  \E v : Leave(v) /\ (Touches(This, x) => v \in Failures)
<1>1. Touches(This, x) => This.onRaise \in Failures /\ This.onAssert \in Failures
  BY NowInScript
<1>2. CASE Raise
  <2> DEFINE v == IF section = "body" THEN This.onRaise ELSE "ERROR"
  <2>1. Leave(v)
    BY <1>2 DEF Raise
  <2>2. Touches(This, x) => v \in Failures
    BY <1>1 DEF Failures
  <2> QED
    BY <2>1, <2>2
<1>3. CASE AssertFail
  <2> DEFINE v == IF section = "body" THEN This.onAssert ELSE "FAIL"
  <2>1. Leave(v)
    BY <1>3 DEF AssertFail
  <2>2. Touches(This, x) => v \in Failures
    BY <1>1 DEF Failures
  <2> QED
    BY <2>1, <2>2
<1> QED
  BY <1>2, <1>3

\* A step that calls nobody, and is no start.
LEMMA QuietCourse ==
    ASSUME NEW x, Ready(x), InSteps, UNCHANGED <<hub, flight, lied>>, ~Starts(Now, x),
           \/ Onward \/ Raise \/ AssertFail
           \/ Departs(Now) /\ (\E v : Leave(v))
    PROVE  Course(x)
<1>1. Calm(x) /\ Stopped(x) /\ lied \subseteq lied'
  BY QuietCalm, CalmStops
<1>2. CASE Onward
  BY <1>1, <1>2 DEF Forward, Course
<1>3. CASE Raise \/ AssertFail
  BY <1>1, <1>3, BreakFails DEF Fails, Course
<1>4. CASE Departs(Now) /\ (\E v : Leave(v))
  BY <1>1, <1>4 DEF Quits, Course
<1> QED
  BY <1>2, <1>3, <1>4

\* A step that calls the hub.
LEMMA CallCourse ==
    ASSUME NEW x, Ready(x), InSteps, Now.op \in Calls,
           NEW r \in Replies(Now.op, Now.on), Answered(Now.op, Now.on, r),
           \/ r.ok /\ Onward
           \/ Now.kind # "call" /\ Onward
           \/ Raise
    PROVE  Course(x)
<1>1. HubTypes /\ LateBirths /\ x \in Standing /\ Now.on \in SUBSET Items
  BY NowTypes DEF Ready, InSteps
<1>2. /\ lied \subseteq lied'
      /\ ~(Now.op \in {"off", "drop"} /\ x \in Now.on) => Calm(x)
      /\ Now.op = "on" /\ x \in Now.on /\ r.ok => hub'[x] = "on" \/ lied' # {}
      /\ Now.op = "off" /\ r.ok => Stopped(x)
  BY <1>1, PlainStanding
<1>3. Stops(Now, x) => Touches(This, x) /\ Now.kind = "call" /\ Now.op = "off"
  BY NowInScript
<1>4. ~Stops(Now, x) => Calm(x)
  BY <1>2 DEF Stops
<1>5. CASE (r.ok \/ Now.kind # "call") /\ Onward
  <2>1. Starts(Now, x) => hub'[x] = "on" \/ lied' # {}
    BY <1>2, <1>5 DEF Starts
  <2>2. IF Stops(Now, x) THEN Stopped(x) ELSE Calm(x)
    BY <1>2, <1>3, <1>4, <1>5
  <2> QED
    BY <1>2, <1>5, <2>1, <2>2 DEF Forward, Course
<1>6. CASE Raise
  BY <1>2, <1>3, <1>4, <1>6, BreakFails DEF Fails, Course
<1> QED
  BY <1>5, <1>6

LEMMA Courses ==
    ASSUME NEW x, Ready(x), Next \/ UNCHANGED vars
    PROVE  Course(x)
<1>1. ASSUME InSteps PROVE /\ Now.kind \in Acts \cup Registering \cup Releasing => Now.op \in Calls
                           /\ Starts(Now, x) => Now.kind = "call" /\ Wanted = {TRUE}
  BY <1>1, NowTypes DEF Ready, InSteps, Starts, Wanted
<1>2. CASE Skip
  <2>1. InSteps /\ ~Starts(Now, x) /\ Onward /\ UNCHANGED <<hub, flight, lied>>
    BY <1>1, <1>2 DEF Skip, InSteps, hubVars
  <2> QED
    BY <2>1, QuietCourse
<1>3. CASE NeedBaseline
  <2>1. InSteps /\ Now.kind = "need" /\ UNCHANGED <<hub, flight, lied>>
    BY <1>3 DEF NeedBaseline, At, InSteps
  <2>2. ~Starts(Now, x) /\ Departs(Now)
    BY <2>1 DEF Starts, Departs
  <2>3. Onward \/ Raise \/ (\E v : Leave(v))
    BY <1>3 DEF NeedBaseline, NoBaseline
  <2> QED
    BY <2>1, <2>2, <2>3, QuietCourse
<1>4. CASE PlainCall
  <2>1. InSteps /\ Now.kind = "call" /\ Now.op \in Calls
    BY <1>1, <1>4 DEF PlainCall, At, InSteps, Acts
  <2>2. PICK r \in Replies(Now.op, Now.on) :
          Answered(Now.op, Now.on, r) /\ IF r.ok THEN Onward ELSE Raise
    BY <1>4 DEF PlainCall
  <2> QED
    BY <2>1, <2>2, CallCourse
<1>5. CASE Attempt
  <2>1. InSteps /\ Now.kind \in {"try", "also"} /\ Now.op \in Calls
    BY <1>1, <1>5 DEF Attempt, At, InSteps, Acts
  <2>2. PICK r \in Replies(Now.op, Now.on) : Answered(Now.op, Now.on, r)
    BY <1>5 DEF Attempt
  <2>3. Onward /\ Now.kind # "call"
    BY <1>5, <2>1 DEF Attempt
  <2> QED
    BY <2>1, <2>2, <2>3, CallCourse
<1>6. CASE Create
  <2>1. InSteps /\ Now.kind \in Registering /\ Now.op \in Calls
    BY <1>1, <1>6 DEF Create, At, InSteps
  <2>2. PICK r \in Replies(Now.op, Now.on) :
          Answered(Now.op, Now.on, r) /\ (Onward \/ Raise)
    BY <1>6 DEF Create
  <2>3. Now.kind # "call"
    BY <2>1 DEF Registering
  <2> QED
    BY <2>1, <2>2, <2>3, CallCourse
<1>7. CASE Retirement
  <2>1. InSteps /\ Now.kind \in {"retire", "tryretire"} /\ Now.op \in Calls
    BY <1>1, <1>7 DEF Retirement, At, InSteps, Releasing
  <2>2. PICK r \in Replies(Now.op, Now.on) :
          Answered(Now.op, Now.on, r) /\ (Onward \/ Raise)
    BY <1>7 DEF Retirement
  <2>3. Now.kind # "call"
    BY <2>1
  <2> QED
    BY <2>1, <2>2, <2>3, CallCourse
<1>8. CASE PopFallback
  <2>1. InSteps /\ ~Starts(Now, x) /\ Onward /\ UNCHANGED <<hub, flight, lied>>
    BY <1>8 DEF PopFallback, At, InSteps, Starts, hubVars
  <2> QED
    BY <2>1, QuietCourse
<1>9. CASE CheckView
  <2>1. InSteps /\ ~Starts(Now, x) /\ UNCHANGED <<hub, flight, lied>>
    BY <1>9 DEF CheckView, At, InSteps, Starts
  <2>2. Onward \/ Raise \/ AssertFail
    BY <1>9 DEF CheckView
  <2> QED
    BY <2>1, <2>2, QuietCourse
<1>10. CASE FindRow
  <2>1. InSteps /\ ~Starts(Now, x) /\ UNCHANGED <<hub, flight, lied>>
    BY <1>10 DEF FindRow, At, InSteps, Starts
  <2>2. Onward \/ Raise
    BY <1>10 DEF FindRow
  <2> QED
    BY <2>1, <2>2, QuietCourse
<1>11. CASE NoteId
  <2>1. InSteps /\ ~Starts(Now, x) /\ Onward /\ UNCHANGED <<hub, flight, lied>>
    BY <1>11 DEF NoteId, At, InSteps, Starts, hubVars
  <2> QED
    BY <2>1, QuietCourse
<1>12. CASE CheckAnswer
  <2>1. InSteps /\ ~Starts(Now, x) /\ UNCHANGED <<hub, flight, lied>>
    BY <1>12 DEF CheckAnswer, At, InSteps, Starts, hubVars
  <2>2. Onward \/ AssertFail
    BY <1>12 DEF CheckAnswer
  <2> QED
    BY <2>1, <2>2, QuietCourse
<1>13. CASE ReturnVerdict
  <2>1. InSteps /\ ~Starts(Now, x) /\ Departs(Now) /\ UNCHANGED <<hub, flight, lied>>
    BY <1>13 DEF ReturnVerdict, At, InSteps, Starts, Departs, hubVars
  <2>2. \E v : Leave(v)
    BY <1>13 DEF ReturnVerdict
  <2> QED
    BY <2>1, <2>2, QuietCourse
<1>14. CASE CleanupCaseTag
  <2>1. InSteps /\ Now.kind = "cleanup" /\ Now.op \in {"purge", "drop"} /\ Onward
    BY <1>14, NowTypes DEF CleanupCaseTag, At, InSteps, Ready, Releasing
  <2>2. ~Starts(Now, x) /\ ~Stops(Now, x)
    BY <2>1, NowInScript DEF Starts
  <2>3. PICK y \in Now.on : \E r \in Replies(Now.op, {y}), stalled \in {0, 1} :
          IF y \notin known
          THEN UNCHANGED <<hubVars, registered>>
          ELSE Answered(Now.op, {y}, Reply(r.ok, r.hub, r.late, r.bad + stalled))
    BY <1>14 DEF CleanupCaseTag
  <2>4. PICK r \in Replies(Now.op, {y}), stalled \in {0, 1} :
          IF y \notin known
          THEN UNCHANGED <<hubVars, registered>>
          ELSE Answered(Now.op, {y}, Reply(r.ok, r.hub, r.late, r.bad + stalled))
    BY <2>3
  <2>5. CASE y \notin known
    BY <2>1, <2>2, <2>4, <2>5, QuietCourse DEF hubVars
  <2>6. CASE y \in known
    <3>1. Answered(Now.op, {y}, Reply(r.ok, r.hub, r.late, r.bad + stalled))
      BY <2>4, <2>6
    <3>2. HubTypes /\ LateBirths /\ x \in Standing /\ Now.op \in Calls /\ {y} \in SUBSET Items
      BY <1>1, <2>1, NowTypes DEF Ready, InSteps, Releasing
    <3>3. ~(Now.op \in {"off", "drop"} /\ x \in {y})
      BY <2>2 DEF Stops
    <3>4. lied \subseteq lied' /\ Calm(x)
      BY <3>1, <3>2, <3>3, CallStanding
    <3> QED
      BY <2>1, <2>2, <3>4 DEF Forward, Course
  <2> QED
    BY <2>5, <2>6
<1>15. CASE NextSection
  <2>1. Calm(x)
    BY <1>15, QuietCalm DEF NextSection, hubVars
  <2> QED
    BY <1>15, <2>1 DEF Course
<1>16. CASE SweepNext
  <2>1. PICK y \in registered : \E r \in Replies(ReleaseOp(y), {y}) : Answered(ReleaseOp(y), {y}, r)
    BY <1>16 DEF SweepNext
  <2>2. PICK r \in Replies(ReleaseOp(y), {y}) : Answered(ReleaseOp(y), {y}, r)
    BY <2>1
  <2>3. x \notin {y}
    BY DEF Ready
  <2>4. ReleaseOp(y) \in Calls /\ {y} \in SUBSET Items
    <3>1. y \in Items
      BY DEF Ready
    <3> QED
      BY <3>1 DEF ReleaseOp, Calls
  <2>5. Calm(x)
    BY <2>2, <2>3, <2>4, PlainStanding DEF Ready
  <2> QED
    BY <1>16, <2>5 DEF SweepNext, caseVars, Rests, Course
<1>17. CASE FinishCase \/ Over \/ UNCHANGED vars
  <2>1. Calm(x)
    BY <1>17, QuietCalm DEF FinishCase, Over, vars, hubVars
  <2> QED
    BY <1>17, <2>1 DEF FinishCase, Over, vars, Rests, Course
<1>18. CASE Land
  <2>1. PICK f \in flight :
          /\ hub' = IF f.op = "add" /\ \E y \in f.on : ~NameFree(y)
                    THEN hub ELSE CarriedOut(f.op, f.on)
          /\ flight' = flight \ {f}
          /\ UNCHANGED <<caseVars, heldVars, faults, unanswered, lied>>
    BY <1>18 DEF Land
  <2>2. f.op \in Calls /\ x \in Items
    BY DEF Ready, HubTypes, Late, Items
  <2>3. ~LateStop(x) => ~LateStop(x)' /\ ~(f.op \in {"off", "drop"} /\ x \in f.on)
    BY <2>1 DEF LateStop
  <2>4. hub'[x] = hub[x] \/ (x \in f.on /\ hub[x] \in From(f.op) /\ hub'[x] = To(f.op))
    BY <2>1, <2>2 DEF CarriedOut
  <2>5. /\ f.op \notin {"on", "off", "drop"} => "on" \notin From(f.op) /\ "off" \notin From(f.op)
        /\ To("on") = "on"
    BY <2>2 DEF From, To, Calls, Births
  <2>6. Calm(x)
    BY <2>1, <2>3, <2>4, <2>5 DEF Calm
  <2> QED
    BY <2>1, <2>6 DEF caseVars, Rests, Course
<1>19. CASE TurnPage
  <2>1. InSteps /\ ~Starts(Now, x) /\ UNCHANGED <<hub, flight, lied>>
    BY <1>19, TurnPageMoves DEF InSteps, Starts
  <2>2. CASE Turning
    <3>1. Calm(x)
      BY <2>1, QuietCalm
    <3> QED
      BY <2>2, <3>1 DEF Turning, Rests, Course
  <2>3. CASE Onward \/ Raise
    BY <2>1, <2>3, QuietCourse
  <2> QED
    BY <1>19, <2>2, <2>3, TurnPageMoves
<1> QED
  BY <1>2, <1>3, <1>4, <1>5, <1>6, <1>7, <1>8, <1>9, <1>10, <1>11, <1>12, <1>13, <1>14, <1>15,
     <1>16, <1>17, <1>18, <1>19 DEF Next, RunCase

(***************************************************************************)
(* The baseline is kept.  Either the hub has lied; or the case has failed,  *)
(* for good; or what stands is on, and nothing under way would stop it; or  *)
(* it is off, and a start is due before the case can end another way.       *)
(***************************************************************************)
Kept(x) ==
    \/ lied # {}
    \/ Touches(This, x) /\ verdict \in Failures /\ section \notin {"pre", "body"}
    \/ hub[x] = "on" /\ ~LateStop(x)
    \/ /\ hub[x] = "off" /\ ~LateStop(x) /\ Touches(This, x)
       /\ section \in {"pre", "body", "fin"} /\ Mends(This, section, todo, 0, x)
\* What is left of a section still restores what it stops.
Heed(x) ==
    Touches(This, x) /\ section \in {"pre", "body", "fin"} => Careful(This, section, todo, x)

BaselineInv ==
    Restoring(This) => /\ Fit
                       /\ registered \subseteq Items \ Standing
                       /\ \A x \in Standing : Heed(x) /\ Kept(x)

LEMMA SameScript == ASSUME NEW x, Course(x) PROVE This' = This
BY DEF Course, Forward, Fails, Quits, Rests, Onward, Leave, NextSection, This

\* The section's own steps come one after the other, and are those of the script.
LEMMA FitHolds ==
    ASSUME NEW x, Ready(x), Heed(x), Course(x)
    PROVE  Fit' /\ Heed(x)'
<1> DEFINE s == This
<1>1. This' = s /\ todo \in Seq(Step)
  BY SameScript DEF Ready, CaseTypes
<1>2. /\ \A i \in 1..Len(s.pre)  : s.pre[i] \in StepsOf(s)
      /\ \A i \in 1..Len(s.body) : s.body[i] \in StepsOf(s)
      /\ \A i \in 1..Len(s.fin)  : s.fin[i] \in StepsOf(s)
  BY DEF StepsOf
<1>3. Touches(s, x) => /\ Careful(s, "body", s.body, x)
                       /\ Careful(s, "fin", s.fin, x)
  BY DEF Ready, Restoring, Restores
<1> HIDE DEF s
<1>4. This = s
  BY DEF s
<1>5. Len(<<>>) = 0 /\ \A i \in 1..Len(<<>>) : FALSE
  OBVIOUS
<1>6. CASE Forward(x)
  <2>1. todo # <<>> /\ todo' = Tail(todo) /\ section' = section
    BY <1>6 DEF Forward, InSteps, Onward
  <2>2. \A i \in 1..Len(Tail(todo)) : i + 1 \in 1..Len(todo) /\ Tail(todo)[i] = todo[i + 1]
    BY <1>1, <2>1
  <2>3. Fit'
    BY <1>1, <1>4, <2>1, <2>2 DEF Ready, Fit
  <2>4. Heed(x)'
    BY <1>1, <1>4, <2>1, CarefulOn DEF Heed
  <2> QED
    BY <2>3, <2>4
<1>7. CASE Fails(x) \/ Quits(x)
  <2>1. /\ section' = IF section = "body" THEN "fin" ELSE "sweep"
        /\ todo' = IF section = "body" THEN s.fin ELSE <<>>
    BY <1>4, <1>7 DEF Fails, Quits, Leave
  <2> QED
    BY <1>1, <1>2, <1>3, <1>5, <2>1 DEF Fit, Heed
<1>8. CASE NextSection
  <2>1. \/ section' = "body" /\ todo' = s.body
        \/ section' = "fin" /\ todo' = s.fin
        \/ section' = "sweep" /\ todo' = <<>>
    BY <1>4, <1>8 DEF NextSection
  <2> QED
    BY <1>1, <1>2, <1>3, <1>5, <2>1 DEF Fit, Heed
<1>9. CASE Rests(x)
  BY <1>1, <1>4, <1>9 DEF Rests, Ready, Fit, Heed
<1> QED
  BY <1>6, <1>7, <1>8, <1>9 DEF Course

LEMMA KeptHolds ==
    ASSUME NEW x, Ready(x), Heed(x), Kept(x), Course(x)
    PROVE  Kept(x)'
<1> DEFINE s == This
<1>1. This' = s /\ This = s /\ todo \in Seq(Step)
  BY SameScript DEF Ready, CaseTypes
<1> HIDE DEF s
<1>2. lied \subseteq lied'
  BY DEF Course, Forward, Fails, Quits, Rests, Calm
<1> SUFFICES ASSUME lied' = {} PROVE Kept(x)'
  BY DEF Kept
<1>3. lied = {}
  BY <1>2
<1>4. CASE Forward(x)
  <2>1. /\ InSteps /\ todo # <<>> /\ todo' = Tail(todo) /\ UNCHANGED <<section, verdict>>
        /\ IF Stops(todo[1], x) THEN Stopped(x) ELSE Calm(x)
        /\ Starts(todo[1], x) => hub'[x] = "on"
    <3>1. Now = todo[1]
      BY <1>1 DEF Now
    <3> QED
      BY <1>4, <3>1 DEF Forward, Onward, InSteps
  <2>2. section \in {"pre", "body", "fin"} /\ (Stops(todo[1], x) => Touches(s, x))
    <3>1. Now = todo[1]
      BY <1>1 DEF Now
    <3> QED
      BY <1>1, <2>1, <3>1, NowInScript DEF InSteps
  <2>3. CASE Touches(s, x) /\ verdict \in Failures /\ section \notin {"pre", "body"}
    BY <1>1, <2>1, <2>3 DEF Kept
  <2>4. CASE hub[x] = "on" /\ ~LateStop(x)
    <3>1. CASE Stops(todo[1], x)
      <4>1. hub'[x] \in {"on", "off"} /\ ~LateStop(x)'
        BY <2>1, <2>4, <3>1 DEF Stopped
      <4>2. Mends(s, section, Tail(todo), 0, x)
        BY <1>1, <2>1, <2>2, <3>1, CarefulOn DEF Heed
      <4> QED
        BY <1>1, <2>1, <2>2, <3>1, <4>1, <4>2 DEF Kept
    <3>2. CASE ~Stops(todo[1], x)
      BY <2>1, <2>4, <3>2 DEF Calm, Kept
    <3> QED
      BY <3>1, <3>2
  <2>5. CASE /\ hub[x] = "off" /\ ~LateStop(x) /\ Touches(s, x)
             /\ section \in {"pre", "body", "fin"} /\ Mends(s, section, todo, 0, x)
    <3>1. hub'[x] \in {"on", "off"} /\ ~LateStop(x)'
      BY <2>1, <2>5 DEF Stopped, Calm
    <3>2. CASE Starts(todo[1], x)
      BY <2>1, <3>1, <3>2 DEF Kept
    <3>3. CASE ~Starts(todo[1], x)
      <4>1. Mends(s, section, Tail(todo), 0, x)
        BY <1>1, <2>1, <2>5, <3>3, MendsOn
      <4> QED
        BY <1>1, <2>1, <2>5, <3>1, <4>1 DEF Kept
    <3> QED
      BY <3>2, <3>3
  <2> QED
    BY <1>1, <1>3, <2>3, <2>4, <2>5 DEF Kept
<1>5. CASE Fails(x)
  <2>1. PICK v : Leave(v) /\ (Touches(s, x) => v \in Failures)
    BY <1>1, <1>5 DEF Fails
  <2>2. verdict' = v /\ section' \notin {"pre", "body"}
    BY <2>1 DEF Leave
  <2>3. CASE Touches(s, x)
    BY <1>1, <2>1, <2>2, <2>3 DEF Kept
  <2>4. CASE ~Touches(s, x)
    <3>1. Calm(x) /\ hub[x] = "on" /\ ~LateStop(x)
      BY <1>1, <1>3, <1>5, <2>4 DEF Fails, Kept
    <3> QED
      BY <3>1 DEF Calm, Kept
  <2> QED
    BY <2>3, <2>4
<1>6. CASE Quits(x)
  <2>1. InSteps /\ Departs(todo[1]) /\ todo # <<>> /\ Calm(x)
    BY <1>1, <1>6 DEF Quits, InSteps, Now
  <2>2. /\ section' = IF section = "body" THEN "fin" ELSE "sweep"
        /\ todo' = IF section = "body" THEN s.fin ELSE <<>>
    BY <1>1, <1>6 DEF Quits, Leave
  <2>3. ~(Touches(s, x) /\ section = "fin")
    BY <1>1, <1>6, NowInScript DEF Quits
  <2>4. CASE hub[x] = "on" /\ ~LateStop(x)
    BY <2>1, <2>4 DEF Calm, Kept
  <2>5. CASE /\ hub[x] = "off" /\ ~LateStop(x) /\ Touches(s, x)
             /\ section \in {"pre", "body", "fin"} /\ Mends(s, section, todo, 0, x)
    <3>1. section = "body" /\ StartedAfter(s.fin, 0, x)
      BY <1>1, <2>1, <2>5, MendsAtDeparture
    <3>2. Mends(s, "fin", s.fin, 0, x)
      BY <3>1 DEF Mends
    <3> QED
      BY <1>1, <2>1, <2>2, <2>5, <3>1, <3>2 DEF Calm, Kept
  <2> QED
    BY <1>1, <1>3, <2>1, <2>3, <2>4, <2>5 DEF Kept, InSteps
<1>7. CASE NextSection /\ Calm(x)
  <2>1. todo = <<>> /\ verdict' = verdict
        /\ \/ section = "pre" /\ section' = "body" /\ todo' = s.body
           \/ section = "body" /\ section' = "fin" /\ todo' = s.fin
           \/ section = "fin" /\ section' = "sweep"
    BY <1>1, <1>7 DEF NextSection
  <2>2. CASE Touches(s, x) /\ verdict \in Failures /\ section \notin {"pre", "body"}
    BY <1>1, <2>1, <2>2 DEF Kept
  <2>3. CASE hub[x] = "on" /\ ~LateStop(x)
    BY <1>7, <2>3 DEF Calm, Kept
  <2>4. CASE /\ hub[x] = "off" /\ ~LateStop(x) /\ Touches(s, x)
             /\ section \in {"pre", "body", "fin"} /\ Mends(s, section, todo, 0, x)
    <3>1. ~StartedAfter(<<>>, 0, x)
      BY DEF StartedAfter
    <3>2. section \in {"pre", "body"} /\ StartedAfter(s.fin, 0, x)
      BY <2>1, <2>4, <3>1 DEF Mends
    <3>3. Mends(s, section', todo', 0, x)
      BY <2>1, <3>2 DEF Mends
    <3> QED
      BY <1>1, <1>7, <2>1, <2>4, <3>2, <3>3 DEF Calm, Kept
  <2> QED
    BY <1>1, <1>3, <2>2, <2>3, <2>4 DEF Kept
<1>8. CASE Rests(x)
  <2>1. /\ UNCHANGED <<todo, verdict>> /\ section' \in {section, "over"} /\ Calm(x)
        /\ section \in {"pre", "body", "fin"} => section' = section
    BY <1>8 DEF Rests
  <2> QED
    BY <1>1, <1>3, <2>1 DEF Kept, Calm
<1> QED
  BY <1>4, <1>5, <1>6, <1>7, <1>8 DEF Course

\* Only what a step registers is swept, and no step registers what stands.
LEMMA RegisteredHolds ==
    ASSUME NEW x, Ready(x), Next \/ UNCHANGED vars
    PROVE  registered' \subseteq Items \ Standing
<1>1. CASE Create
  <2>1. InSteps /\ Now.kind \in Registering
    BY <1>1 DEF Create, At, InSteps
  <2>2. Now.on \subseteq Items /\ Now.on \cap Standing = {}
    BY <2>1, NowTypes, NowInScript DEF Ready, InSteps
  <2>3. registered' \subseteq registered \cup Now.on
    BY <1>1 DEF Create
  <2> QED
    BY <2>2, <2>3 DEF Ready
<1>2. CASE ~Create
  <2>1. CASE CleanupCaseTag \/ SweepNext
    BY <2>1 DEF CleanupCaseTag, SweepNext, Ready
  <2>2. CASE ~(CleanupCaseTag \/ SweepNext)
    BY <1>2, <2>2
       DEF Next, RunCase, Skip, NextSection, NeedBaseline, PlainCall, Attempt, Retirement,
           PopFallback, CheckView, TurnPage, FindRow, NoteId, CheckAnswer, ReturnVerdict, FinishCase,
           Land, Over, vars, heldVars, Ready
  <2> QED
    BY <2>1, <2>2
<1> QED
  BY <1>1, <1>2

LEMMA BaselineStep == IInv /\ BaselineInv /\ [Next]_vars => BaselineInv'
<1> SUFFICES ASSUME IInv, BaselineInv, [Next]_vars, Restoring(This)'
             PROVE  /\ Fit'
                    /\ registered' \subseteq Items \ Standing
                    /\ \A x \in Standing : Heed(x)' /\ Kept(x)'
  BY DEF BaselineInv
<1>1. CaseTypes /\ HubTypes /\ LateBirths
  BY Halves DEF IInv
<1>2. case' = case
  BY DEF Next, RunCase, Skip, NextSection, NeedBaseline, PlainCall, Attempt, Create, Retirement,
         PopFallback, CheckView, TurnPage, FindRow, NoteId, CheckAnswer, ReturnVerdict,
         CleanupCaseTag, SweepNext, FinishCase, Land, Over, vars, caseVars, Onward, Raise, AssertFail, NoBaseline,
         Leave
<1>3. Restoring(This)
  BY <1>2 DEF This
<1>4. ASSUME NEW x \in Standing PROVE Ready(x) /\ Heed(x) /\ Kept(x) /\ Course(x)
  <2>1. Ready(x) /\ Heed(x) /\ Kept(x)
    BY <1>1, <1>3 DEF BaselineInv, Ready
  <2> QED
    BY <2>1, Courses
<1>5. ASSUME NEW x \in Standing
      PROVE  Fit' /\ registered' \subseteq Items \ Standing /\ Heed(x)' /\ Kept(x)'
  <2>1. Ready(x) /\ Heed(x) /\ Kept(x) /\ Course(x)
    BY <1>4
  <2>2. registered' \subseteq Items \ Standing
    BY <2>1, RegisteredHolds
  <2> QED
    BY <2>1, <2>2, FitHolds, KeptHolds
<1>6. "mock" \in Standing
  BY DEF Standing
<1> QED
  BY <1>5, <1>6

LEMMA BaselineInit == Init => BaselineInv
<1> SUFFICES ASSUME Init, Restoring(This) PROVE BaselineInv
  BY DEF BaselineInv
<1>1. section = "pre" /\ todo = This.pre /\ flight = {} /\ registered = {}
  BY DEF Init, This
<1>2. Fit
  BY <1>1 DEF Fit, StepsOf
<1>3. ASSUME NEW x \in Standing PROVE Heed(x) /\ Kept(x)
  <2>1. hub[x] = "on"
    <3>1. x \in Items /\ Home(x) = "on"
      BY DEF Items, Home, Standing
    <3> QED
      BY <3>1 DEF Init
  <2>2. Kept(x)
    BY <1>1, <2>1 DEF Kept, LateStop
  <2>3. Heed(x)
    BY <1>1 DEF Heed, Restoring, Restores
  <2> QED
    BY <2>2, <2>3
<1> QED
  BY <1>1, <1>2, <1>3 DEF BaselineInv

(***************************************************************************)
(* Only an aborted case leaves the shared environment broken.  For every    *)
(* set of scripts that keep to the discipline of Restoring, as those of the *)
(* repository do, and however often the hub misbehaves: a case that returns *)
(* a verdict of its own has switched everything it stopped back on, unless  *)
(* the hub said it had and did not.                                         *)
(***************************************************************************)
THEOREM StandingHolds == ScriptsRestore => (Spec => []ReturnLeavesStanding)
<1> SUFFICES ASSUME ScriptsRestore PROVE Spec => []ReturnLeavesStanding
  OBVIOUS
<1>1. IInv /\ BaselineInv => ReturnLeavesStanding
  <2> SUFFICES ASSUME IInv, BaselineInv, section = "over",
                      verdict \in {"PASS", "OBSERVED", "BLOCKED"}, lied = {}, ~Displacing(This),
                      NEW x \in Standing
               PROVE  hub[x] = "on"
    BY DEF ReturnLeavesStanding
  <2>1. Restoring(This)
    BY DEF ScriptsRestore, This, IInv, TypeOK
  <2>2. Kept(x)
    BY <2>1 DEF BaselineInv
  <2> QED
    BY <2>2 DEF Kept, Failures
<1> QED
  BY <1>1, BaselineInit, BaselineStep, InvariantHolds, PTL DEF Spec

(***************************************************************************)
(* A case keeps the contract of CaseCustody.                               *)
(***************************************************************************)

\* No step of the body ends the case.
LEMMA StillOpen ==
    ASSUME section \in {"pre", "body", "fin"},
           Onward \/ Raise \/ AssertFail \/ NoBaseline \/ (\E v : Leave(v))
    PROVE  section # "over" /\ section' # "over"
<1>1. section' = section \/ section' \in {"fin", "sweep"}
  BY DEF Onward, Raise, AssertFail, NoBaseline, Leave
<1> QED
  BY <1>1

\* Before the sweep a step only registers, or only takes out, and reports no
\* failed fallback.
LEMMA Handling ==
    ASSUME Next \/ UNCHANGED vars
    PROVE  \/ SweepNext
           \/ FinishCase
           \/ /\ section # "over" /\ section' # "over" /\ residual' = residual
              /\ registered \subseteq registered' \/ registered' \subseteq registered
           \/ UNCHANGED <<section, registered, residual>>
<1> DEFINE Handled == /\ section # "over" /\ section' # "over" /\ residual' = residual
                      /\ registered \subseteq registered' \/ registered' \subseteq registered
<1>1. CASE Skip \/ NeedBaseline
  BY <1>1, StillOpen DEF Skip, NeedBaseline, At, heldVars
<1>2. CASE NextSection
  BY <1>2 DEF NextSection, heldVars
<1>3. CASE PlainCall \/ Attempt
  BY <1>3, StillOpen DEF PlainCall, Attempt, At
<1>4. CASE Create
  <2>1. /\ section \in {"pre", "body", "fin"} /\ residual' = residual
        /\ \E r : /\ Onward \/ Raise
                  /\ registered' = IF r.ok THEN registered \cup Now.on ELSE registered
    BY <1>4 DEF Create, At
  <2> QED
    BY <2>1, StillOpen
<1>5. CASE Retirement
  <2>1. /\ section \in {"pre", "body", "fin"} /\ residual' = residual
        /\ \E r : /\ Onward \/ Raise
                  /\ registered' = IF r.ok THEN registered \ Now.on ELSE registered
    BY <1>5 DEF Retirement, At
  <2> QED
    BY <2>1, StillOpen
<1>6. CASE PopFallback
  BY <1>6, StillOpen DEF PopFallback, At
<1>7. CASE CheckView \/ FindRow
  BY <1>7, StillOpen DEF CheckView, FindRow, At, heldVars
<1>8. CASE NoteId \/ CheckAnswer \/ ReturnVerdict
  BY <1>8, StillOpen DEF NoteId, CheckAnswer, ReturnVerdict, At, heldVars
<1>9. CASE CleanupCaseTag
  <2>1. /\ section \in {"pre", "body", "fin"} /\ residual' = residual /\ Onward
        /\ registered' \subseteq registered
    BY <1>9 DEF CleanupCaseTag, At
  <2> QED
    BY <2>1, StillOpen
<1>10. CASE Land \/ Over \/ UNCHANGED vars
  BY <1>10 DEF Land, Over, caseVars, heldVars, vars
<1>11. CASE TurnPage
  <2>1. registered' = registered /\ residual' = residual
    BY <1>11, TurnPageMoves DEF heldVars
  <2>2. CASE Turning
    BY <2>1, <2>2 DEF Turning
  <2>3. CASE Onward \/ Raise
    BY <1>11, <2>1, <2>3, TurnPageMoves, StillOpen
  <2> QED
    BY <1>11, <2>2, <2>3, TurnPageMoves
<1> QED
  BY <1>1, <1>2, <1>3, <1>4, <1>5, <1>6, <1>7, <1>8, <1>9, <1>10, <1>11 DEF Next, RunCase

\* What the sweep does to the registry: it takes one fallback out, and reports
\* it if it raises.
LEMMA SweepReleases ==
    ASSUME SweepNext
    PROVE  /\ section = "sweep" /\ section' = section
           /\ registered' \subseteq registered /\ registered' # registered
           /\ \E fails \in BOOLEAN : (residual' # {}) = (residual # {} \/ fails)
<1>1. PICK x \in registered :
           /\ registered' = registered \ {x}
           /\ residual' = residual \/ residual' = residual \cup {x}
  BY DEF SweepNext
<1>2. section = "sweep" /\ section' = section
  BY DEF SweepNext, caseVars
<1>3. CASE residual' = residual
  <2>1. (residual' # {}) = (residual # {} \/ FALSE)
    BY <1>3
  <2> QED
    BY <1>1, <1>2, <2>1
<1>4. CASE residual' = residual \cup {x}
  <2>1. (residual' # {}) = (residual # {} \/ TRUE)
    BY <1>4
  <2> QED
    BY <1>1, <1>2, <2>1
<1> QED
  BY <1>1, <1>3, <1>4

\* Every step of the case is one of the contract, or none it sees.
LEMMA StepKept ==
    ASSUME TypeOK', Next \/ UNCHANGED vars
    PROVE  [Contract!Next]_Contract!vars
<1>1. registered' \subseteq Items
  BY DEF TypeOK
<1>2. CASE SweepNext
  <2>1. PICK fails \in BOOLEAN : (residual' # {}) = (residual # {} \/ fails)
    BY <1>2, SweepReleases
  <2>2. Contract!Release(fails)
    BY <1>2, <2>1, SweepReleases DEF Contract!Release
  <2> QED
    BY <2>2 DEF Contract!Next
<1>3. CASE FinishCase
  <2>1. Append(<<>>, ~(residual # {})) = <<residual = {}>>
    OBVIOUS
  <2>2. Contract!Close
    BY <1>3, <2>1 DEF FinishCase, heldVars, Contract!Close
  <2> QED
    BY <2>2 DEF Contract!Next
<1>4. CASE /\ section # "over" /\ section' # "over" /\ residual' = residual
           /\ registered \subseteq registered'
  <2>1. Contract!Take
    BY <1>1, <1>4 DEF Contract!Take
  <2> QED
    BY <2>1 DEF Contract!Next
<1>5. CASE /\ section # "over" /\ section' # "over" /\ residual' = residual
           /\ registered' \subseteq registered /\ registered' # registered
  <2>1. Contract!Release(FALSE)
    BY <1>5 DEF Contract!Release
  <2> QED
    BY <2>1 DEF Contract!Next
<1>6. CASE UNCHANGED <<section, registered, residual>>
  BY <1>6 DEF Contract!vars
<1> QED
  BY <1>2, <1>3, <1>4, <1>5, <1>6, Handling

(***************************************************************************)
(* A case keeps the contract by which HarnessRunner knows it, whatever its  *)
(* script and however often the hub misbehaves: it takes and releases only  *)
(* while it is open, ends with nothing registered, and ends clean exactly   *)
(* when no fallback failed.                                                 *)
(***************************************************************************)
THEOREM CustodyHolds == Spec => KeepsCustody
<1>1. Init => Contract!Opened
  BY DEF Init, Contract!Opened
<1>2. IInv' /\ [Next]_vars => [Contract!Next]_Contract!vars
  <2>1. IInv' => TypeOK'
    BY DEF IInv
  <2> QED
    BY <2>1, StepKept
<1> QED
  BY <1>1, <1>2, InvariantHolds, PTL DEF Spec, KeepsCustody
=============================================================================
