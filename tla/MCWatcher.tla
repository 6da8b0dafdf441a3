----------------------------- MODULE MCWatcher -----------------------------
(* Three events: e1 has a LastTimestamp, e2 an EventTime, and e3 neither.  *)
EXTENDS EventWatcher

CONSTANTS e1, e2, e3

TheStamp == [e \in Events |-> CASE e = e1 -> "last"
                                [] e = e2 -> "eventTime"
                                [] e = e3 -> "none"]
=============================================================================
