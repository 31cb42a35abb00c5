--------------------------- MODULE MCCaseProgram ---------------------------
(***************************************************************************)
(* The cases of all chapters, and what is said of them together.            *)
(***************************************************************************)
EXTENDS CaseProgram, CasesUa1, CasesRecycle, CasesCreate, CasesQuery, CasesImport, CasesGroup,
        CasesUa3

AllCases ==
    Ua1Cases @@ RecycleCases @@ CreateCases @@ QueryCases @@ ImportCases @@ GroupCases @@ Ua3Cases

\* Every script of the repository that stops a baseline source starts it again.
ASSUME RestoringAssumption == ScriptsRestore

\* Every script but UA-2-2-057 gives each fallback something to find.
ASSUME TidyAssumption == ScriptsTidy

(***************************************************************************)
(* Cases that need not pass on a hub that does everything right.            *)
(***************************************************************************)
\* They wait for a value of a tag without a node.
AwaitsNoNode == {c \in DOMAIN AllCases :
    \E s \in StepsOf(AllCases[c]) : s.kind = "sample" /\ s.on \cap Loose # {}}
\* They count on a write the hub may refuse.
HopesToWrite == {c \in DOMAIN AllCases :
    \E s \in StepsOf(AllCases[c]) : s.kind = "call" /\ s.op = "write" /\ s.on \cap (Loose \cup Special) # {}}
\* They require two values that need not differ, or one that need not be good.
Impatient == {"UA-1-2-08", "UA-1-3-01", "UA-1-3-02", "UA-1-3-03", "UA-1-3-04", "UA-1-3-05", "UA-1-3-06",
              "UA-1-3-07", "UA-1-3-08", "UA-3-1-002"}
\* They ask for their own source after they disabled it, write to it, delete it
\* while it is not enabled, or let another take the endpoint of one that stayed.
OutOfOrder == {"UA-1-5-06", "UA-1-5-08", "UA-1-6-13", "UA-2-1-004", "UA-2-1-005", "UA-2-1-006", "UA-2-2-053"}
\* They call what is not there: a name not imported, a case not known.
Broken == {"UA-1-2-03", "UA-3-1-007", "UA-3-1-009"}
SelfDefeating == AwaitsNoNode \cup HopesToWrite \cup Impatient \cup OutOfOrder \cup Broken

(***************************************************************************)
(* Cases that leave something on such a hub.                                *)
(***************************************************************************)
Displaces == {c \in DOMAIN AllCases : Displacing(AllCases[c])}
Unlisted == {"UA-2-1-096", "UA-2-1-109", "UA-2-1-110", "UA-2-1-111", "UA-2-4-025", "UA-2-4-026",
             "UA-2-5-007", "UA-2-5-008"}
WrongOne == {"UA-1-5-02", "UA-2-1-011"}
ParentFirst == {"UA-2-5-003", "UA-2-5-005", "UA-2-5-013"}
Forgetful == Displaces \cup Unlisted \cup WrongOne \cup ParentFirst


(***************************************************************************)
(* On such a hub a case leaves everything as it found it.                   *)
(***************************************************************************)
LeavesNothing ==
    section = "over" /\ faults = 0 /\ case \notin Forgetful
    => \A x \in Items : hub[x] = Home(x)
=============================================================================
