---------------------------- MODULE Enforcement -----------------------------
(***************************************************************************)
(* What is made of a decision of the policy: whether the mode enforces it, *)
(* and what the approval channel may answer.  Nothing here has state.      *)
(***************************************************************************)
NoRule == "none"

\* Only Gate blocks, and only a deny.
ApplyConstraint(decision, mode) == mode = "gate" /\ decision.outcome = "deny"

\* The answers a channel can give: the callback is a stub that times out, CI
\* looks the matched rule up in its allow-list, a terminal asks somebody.
ObtainApproval(channel, autoApprove, decision) ==
  CASE channel = "callback" -> {"timed_out"}
    [] channel = "ci" ->
         {IF decision.rule \in autoApprove \ {NoRule} THEN "approved" ELSE "rejected"}
    [] channel = "tty" -> {"approved", "rejected"}
=============================================================================
