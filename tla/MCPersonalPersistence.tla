------------------------ MODULE MCPersonalPersistence ------------------------
(* One tab whose use cases overlap, and two tabs on one origin. *)
EXTENDS PersonalPersistence
=============================================================================
