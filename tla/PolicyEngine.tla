---------------------------- MODULE PolicyEngine ----------------------------
(***************************************************************************)
(* What the policy says of an intent: its risk class, the rules it         *)
(* matches, and the decision.  Nothing here has state; PolicyServer has    *)
(* these operators called for every command, on the packs found then.      *)
(*                                                                         *)
(* A regular expression is a name, and an intent carries the names that    *)
(* match its executable, its joined argv or its path.  The classifier's    *)
(* pattern tables are reduced the same way: `signs` are the tables that    *)
(* have a pattern for the command, `place` the kind of path.               *)
(*                                                                         *)
(* A match is a tree of blocks.  Here it is the sequence of its blocks,    *)
(* each after the ones nested in it and the outermost last; a block is a   *)
(* record with only the keys its JSON object has, and `not`, `all_of` and  *)
(* `any_of` name the places of the nested blocks.                          *)
(***************************************************************************)
EXTENDS Naturals, SequencesExt, Enforcement

-----------------------------------------------------------------------------
(* The classifier *)

\* The most severe table with a matching pattern; C0 comes last, and a
\* command in no table is C1.
ClassifyShell(signs) ==
  CASE "C4" \in signs -> "C4"
    [] "C4" \notin signs /\ "C3" \in signs -> "C3"
    [] signs \cap {"C3", "C4"} = {} /\ "C2" \in signs -> "C2"
    [] signs = {"C0"} -> "C0"
    [] OTHER -> "C1"

ClassifyFileWrite(place, mode) ==
  CASE place = "system"  -> "C4"
    [] place = "dotfile" -> "C3"
    [] place = "plain" /\ mode = "overwrite" -> "C2"
    [] OTHER -> "C1"

ClassifyFileRead(place) == IF place = "dotfile" THEN "C3" ELSE "C0"

RiskClass(intent) ==
  CASE intent.action_type = "shell_command" -> ClassifyShell(intent.signs)
    [] intent.action_type = "file_write" -> ClassifyFileWrite(intent.place, intent.mode)
    [] intent.action_type = "file_read"  -> ClassifyFileRead(intent.place)

-----------------------------------------------------------------------------
(* Matching *)

Has(m, key) == key \in DOMAIN m

\* A field that does not apply to the kind of action does not match.
FieldsMatch(m, intent) ==
  /\ Has(m, "action_type")   => intent.action_type = m.action_type
  /\ Has(m, "risk_class")    => RiskClass(intent) = m.risk_class
  /\ Has(m, "risk_class_in") => RiskClass(intent) \in m.risk_class_in
  /\ Has(m, "executable_matches") =>
       intent.action_type = "shell_command" /\ m.executable_matches \in intent.executable
  /\ Has(m, "command_matches") =>
       intent.action_type = "shell_command" /\ m.command_matches \in intent.command
  /\ Has(m, "path_matches") =>
       intent.action_type # "shell_command" /\ m.path_matches \in intent.path

\* Whether a block matches, given which of the blocks nested in it do.  One
\* composition key is used, `not` before `all_of` before `any_of`, and then
\* nothing else in the block; a block without keys matches everything.
BlockMatches(b, matches, intent) ==
  CASE Has(b, "not") -> ~matches[b.not]
    [] ~Has(b, "not") /\ Has(b, "all_of") -> \A k \in b.all_of : matches[k]
    [] ~Has(b, "not") /\ ~Has(b, "all_of") /\ Has(b, "any_of") ->
         \E k \in b.any_of : matches[k]
    [] OTHER -> FieldsMatch(b, intent)

CompileMatch(m, intent) ==
  LET matches[n \in 1..Len(m)] == BlockMatches(m[n], matches, intent)
  IN matches[Len(m)]

-----------------------------------------------------------------------------
(* Evaluation *)

\* The rule that decides for its pack, the first that matches, if there is one.
FirstHit(rules, intent) ==
  {rules[n] : n \in {i \in DOMAIN rules :
      /\ CompileMatch(rules[i].match, intent)
      /\ \A j \in 1..(i - 1) : ~CompileMatch(rules[j].match, intent)}}

\* A bug: packs are tried last to first.
MatchedRuleReversed(packs, intent) ==
  UNION {FirstHit(packs[k].rules, intent) : k \in {i \in DOMAIN packs :
      \A j \in (i + 1)..Len(packs) : FirstHit(packs[j].rules, intent) = {}}}

\* The rule that decides, of the first pack in load order that has one.
MatchedRule(packs, intent) ==
  UNION {FirstHit(packs[k].rules, intent) : k \in {i \in DOMAIN packs :
      \A j \in 1..(i - 1) : FirstHit(packs[j].rules, intent) = {}}}

\* deny > require-approval > allow; an engine without packs allows.
MostRestrictive(defaults) ==
  CASE "deny" \in defaults -> "deny"
    [] "deny" \notin defaults /\ "require-approval" \in defaults -> "require-approval"
    [] OTHER -> "allow"

Evaluate(packs, intent) ==
  LET hit == MatchedRule(packs, intent)
  IN IF hit # {}
     THEN CHOOSE d \in {[outcome |-> r.decision, rule |-> r.id] : r \in hit} : TRUE
     ELSE [outcome |-> MostRestrictive({packs[k].default_decision : k \in DOMAIN packs}),
           rule |-> NoRule]
=============================================================================
