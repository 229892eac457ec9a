----------------------- MODULE MCConformanceVerdicts -----------------------
(***************************************************************************)
(* TLC instance of ConformanceVerdicts: two contents of which one is       *)
(* permitted, four records at three times, the deadline and the retention  *)
(* between the second time and the third, and every record's calibrated    *)
(* time off by the whole bound in one direction or the other.              *)
(***************************************************************************)
EXTENDS ConformanceVerdicts

Extremes == {-Bound, Bound}

\* One node without calibration; two nodes with it.
OneOrTwoNodes == {[shared |-> TRUE, bounded |-> FALSE], [shared |-> FALSE, bounded |-> TRUE]}
=============================================================================
