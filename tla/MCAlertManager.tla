---------------------------- MODULE MCAlertManager ---------------------------
(* Instances of AlertManager for TLC: "tap" came from a remote tap and kept *)
(* its id, "local" has none, "bad" cannot be inserted, "test" is a test     *)
(* alert, "noise" is filtered, "odd" raises.  "local" and "odd" share a     *)
(* deduplication key.                                                       *)
EXTENDS AlertManager

MCDedupKey == [a \in Alert |-> IF a = "odd" THEN "local" ELSE a]
=============================================================================
