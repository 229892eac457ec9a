------------------------ MODULE MCExperimentHarness ------------------------
(***************************************************************************)
(* TLC instance of ExperimentHarness: all three experiments, two requests  *)
(* of the load injector of which one may be pending, three polls.          *)
(***************************************************************************)
EXTENDS ExperimentHarness
=============================================================================
