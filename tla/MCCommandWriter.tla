-------------------------- MODULE MCCommandWriter --------------------------
(* Small instance of CommandWriter: one command id carried by two          *)
(* different contents, an S7 command of two frames and an OPC UA command   *)
(* of one frame.                                                           *)
EXTENDS CommandWriter, TLC

CONSTANTS i1, c1, c2, d1, d2

MCIds        == {i1}
MCCommands   == {c1, c2}
MCIdOf       == c1 :> i1 @@ c2 :> i1
MCDeadline   == c1 :> 1 @@ c2 :> 2
MCFrames     == c1 :> 2 @@ c2 :> 1
MCThreaded   == {c1}
=============================================================================
