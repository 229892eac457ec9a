------------------------- MODULE MCEvidenceCapture -------------------------
(***************************************************************************)
(* TLC instance of EvidenceCapture: a journal of one line, two records and *)
(* one restart, two ticks of the clocks, which drift either way.           *)
(***************************************************************************)
EXTENDS EvidenceCapture

OneOffset == {-3}
EitherWay == {<<1, -1>>, <<-1, 1>>}
=============================================================================
