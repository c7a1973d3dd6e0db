---------------------------- MODULE MCEventLog ----------------------------
(* Two processes, a keyed and an unkeyed operation, every kind of fault. *)
EXTENDS EventLog
============================================================================
