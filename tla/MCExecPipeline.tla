-------------------------- MODULE MCExecPipeline --------------------------
(* Two processes that recover, decide, act and crash. *)
EXTENDS ExecPipeline

\* A loaded policy allows the action: every call goes through both phases.
Allowed == { [mode |-> "gate", packs |-> TRUE, escape |-> FALSE, decision |-> "allow"] }
============================================================================
