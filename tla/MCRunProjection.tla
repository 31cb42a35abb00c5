-------------------------- MODULE MCRunProjection --------------------------
(* Two cases over one resource; PASS, FAIL and ERROR.                       *)
EXTENDS RunProjection
CONSTANT ds1
MCResources == {ds1}
MCDataSources == {ds1}
MCVerdicts == {"PASS", "FAIL", "ERROR"}
=============================================================================
