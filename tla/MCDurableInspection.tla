------------------------ MODULE MCDurableInspection ------------------------
(* Two inspections, both failures of the same bottle.                      *)
EXTENDS DurableInspection

MCFailed == {1, 2}
MCBottle == [e \in Events |-> 1]
=============================================================================
