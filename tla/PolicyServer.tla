---------------------------- MODULE PolicyServer ----------------------------
(***************************************************************************)
(* The server with the policy engine it asks: McpServer, whose Policy is   *)
(* PolicyEngine's Evaluate, and what the packs' authors may rely on.       *)
(***************************************************************************)
EXTENDS McpServer, PolicyEngine

ASSUME EngineAssumption ==
  \A c \in Configs, message \in Messages :
    Policy(c.packs, Intent(message)) = Evaluate(c.packs, Intent(message))

Decisions == {"allow", "deny", "require-approval"}

\* The places of the blocks nested in a block.
Nested(b) ==
  (IF Has(b, "not") THEN {b.not} ELSE {})
    \cup (IF Has(b, "all_of") THEN b.all_of ELSE {})
    \cup (IF Has(b, "any_of") THEN b.any_of ELSE {})

\* What the schema lets through: a match is a finite tree, so its blocks have an
\* order in which the nested ones come first.
IsMatch(m) ==
  /\ Len(m) \in Nat \ {0}
  /\ \A n \in 1..Len(m) : Nested(m[n]) \subseteq 1..(n - 1)

IsPack(p) ==
  /\ Len(p.rules) \in Nat /\ DOMAIN p.rules = 1..Len(p.rules)
  /\ \A n \in DOMAIN p.rules : IsMatch(p.rules[n].match) /\ p.rules[n].decision \in Decisions
  /\ p.default_decision \in Decisions

ArePacks(packs) ==
  /\ Len(packs) \in Nat /\ DOMAIN packs = 1..Len(packs)
  /\ \A k \in DOMAIN packs : IsPack(packs[k])

ASSUME PacksAssumption == \A c \in Configs : ArePacks(c.packs)

-----------------------------------------------------------------------------
(* What the schema says *)

\* All conditions of a match block hold.
BlockHolds(b, holds, intent) ==
  /\ FieldsMatch(b, intent)
  /\ Has(b, "not")    => ~holds[b.not]
  /\ Has(b, "all_of") => \A k \in b.all_of : holds[k]
  /\ Has(b, "any_of") => \E k \in b.any_of : holds[k]

AllConditionsHold(m, intent) ==
  LET holds[n \in 1..Len(m)] == BlockHolds(m[n], holds, intent)
  IN holds[Len(m)]

\* Matches for which the code agrees: a composition key stands alone.
UnmixedBlock(b) ==
  DOMAIN b \cap {"not", "all_of", "any_of"} # {} => \E key \in DOMAIN b : DOMAIN b = {key}
Unmixed(m) == \A n \in 1..Len(m) : UnmixedBlock(m[n])

\* Pairs of pack and rule that match, and those of them nothing precedes.
Matching(packs, intent) ==
  UNION {{<<k, n>> : n \in {i \in DOMAIN packs[k].rules :
                              AllConditionsHold(packs[k].rules[i].match, intent)}} :
          k \in DOMAIN packs}
Before(x, y) == x[1] < y[1] \/ (x[1] = y[1] /\ x[2] < y[2])

\* In Gate mode, what the first matching rule says, and where none matches no
\* pack's default forbids, is all that runs; what needs an approval got it.
\* The exception is a pack with a block that mixes a composition key with
\* other keys: compileMatch drops those (runExec, PolicyEngine.evaluate).
GateRunsAllowed ==
  config.mode = "gate" /\ (\A k \in DOMAIN config.packs :
      \A n \in DOMAIN config.packs[k].rules : Unmixed(config.packs[k].rules[n].match)) =>
    \A r \in ran :
      LET m == Matching(config.packs, IntentOf(r.line))
          first == {config.packs[x[1]].rules[x[2]].decision :
                      x \in {y \in m : \A z \in m : z # y => Before(y, z)}}
          verdicts == IF m # {} THEN first
                      ELSE {config.packs[k].default_decision : k \in DOMAIN config.packs}
      IN /\ "deny" \notin verdicts
         /\ "require-approval" \in verdicts => r.approval = "approved"
         /\ config.packs = <<>> => config.escape
=============================================================================
