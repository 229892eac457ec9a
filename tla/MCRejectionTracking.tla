------------------------ MODULE MCRejectionTracking ------------------------
(* Two failed inspections of one bottle, and a failed and a passed one of  *)
(* another bottle that carry the sequences of the first two.               *)
EXTENDS RejectionTracking

Message(sequence, bottle, passed, at) ==
    [session |-> "s", sequence |-> sequence, bottle |-> bottle, passed |-> passed,
     at |-> at]

MCAbout == <<Message(1, 1, FALSE, 0), Message(2, 1, FALSE, 0), Message(1, 2, FALSE, 1),
             Message(2, 2, TRUE, 0)>>
=============================================================================
