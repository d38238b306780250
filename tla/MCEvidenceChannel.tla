------------------------- MODULE MCEvidenceChannel -------------------------
(* Two panels, two periods with evidence and one without; a cache of one,  *)
(* so that a second answer evicts the first.                               *)
EXTENDS EvidenceChannel

MCSelections == {"may", "june", "gap"}
=============================================================================
