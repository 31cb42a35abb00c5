---------------------------- MODULE CaseCustody ----------------------------
(***************************************************************************)
(* What the harness promises about the resources of its cases, whatever    *)
(* runner keeps it: cases run one at a time, a resource a case took into    *)
(* custody leaves it before the case closes, and a case is closed as clean  *)
(* exactly when none of its releases failed.  A killed harness stops with   *)
(* whatever it holds.                                                       *)
(***************************************************************************)
EXTENDS Sequences

CONSTANT Resources

VARIABLES
    open,       \* a case is open
    custody,    \* what it has created and still has to release
    faulty,     \* one of its releases failed
    ledger      \* for every closed case: was it clean?

vars == <<open, custody, faulty, ledger>>

Init ==
    /\ open = FALSE
    /\ custody = {}
    /\ faulty = FALSE
    /\ ledger = <<>>

\* After the first Open: where the story of a single case starts.
Opened ==
    /\ open = TRUE
    /\ custody = {}
    /\ faulty = FALSE
    /\ ledger = <<>>

Open ==
    /\ ~open
    /\ open' = TRUE
    /\ faulty' = FALSE
    /\ UNCHANGED <<custody, ledger>>

\* Into custody, and out of it: one resource, or several that one request is for.
Take ==
    /\ open
    /\ custody \subseteq custody'
    /\ custody' \subseteq Resources
    /\ UNCHANGED <<open, faulty, ledger>>

Release(fails) ==
    /\ open
    /\ custody' \subseteq custody
    /\ custody' # custody
    /\ faulty' = (faulty \/ fails)
    /\ UNCHANGED <<open, ledger>>

Close ==
    /\ open
    /\ custody = {}
    /\ open' = FALSE
    /\ ledger' = Append(ledger, ~faulty)
    /\ UNCHANGED <<custody, faulty>>

Next ==
    \/ Open
    \/ Take
    \/ \E fails \in BOOLEAN : Release(fails)
    \/ Close

Spec == Init /\ [][Next]_vars
=============================================================================
