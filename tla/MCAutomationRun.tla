-------------------------- MODULE MCAutomationRun --------------------------
(* The empty key and one real key, and one of the statuses a finished run    *)
(* reports.                                                                 *)
EXTENDS AutomationRun
CONSTANTS k1
MCKeys == {NoKey, k1}
MCHarnessStatus == {"FINISHED"}
=============================================================================
