-------------------------- MODULE MCHarnessRunner --------------------------
(* Two cases over two resources; PASS, FAIL, ERROR and one status that is   *)
(* neither success nor failure.                                             *)
EXTENDS HarnessRunner
CONSTANTS ds1, tag1
MCResources == {ds1, tag1}
MCDataSources == {ds1}
MCVerdicts == {"PASS", "FAIL", "ERROR", "BLOCKED"}
=============================================================================
