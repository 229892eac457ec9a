------------------------ MODULE MCActuationPipeline ------------------------
(* Executions of the pipeline as model values.                             *)
EXTENDS ActuationPipeline, TLC

CONSTANTS r1, r2, r3
=============================================================================
