------------------------ MODULE MCForecastController ------------------------
(* Four drafts, two of which are economically equal: they share a           *)
(* fingerprint, so one's submission may be answered by the other's cache;   *)
(* the other two make the third baseline evict the first.                   *)
EXTENDS ForecastController

MCModels == {"draft", "copy", "other", "third"}
MCFingerprintOf ==
  [m \in MCModels |-> CASE m = "other" -> "f2" [] m = "third" -> "f3" [] OTHER -> "f1"]
=============================================================================
