------------------------ MODULE MCStandaloneChannel ------------------------
(* Two inputs suffice to tell a current result from a former one.           *)
EXTENDS StandaloneChannel
=============================================================================
