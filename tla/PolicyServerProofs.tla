------------------------- MODULE PolicyServerProofs -------------------------
(***************************************************************************)
(* Proofs about PolicyServer, for any packs: the engine reads a match the  *)
(* way the schema does where no block is mixed, the first rule that        *)
(* matches decides, and so only what the packs allow runs in Gate mode.    *)
(***************************************************************************)
EXTENDS PolicyServer, McpServerProofs, WellFoundedInduction

-----------------------------------------------------------------------------
(* Reading a match *)

\* The answers, block by block, that compileMatch builds up.
IsCompiled(f, m, intent) == f = [n \in 1..Len(m) |-> BlockMatches(m[n], f, intent)]

\* The same for the schema's reading.
IsHeld(f, m, intent) == f = [n \in 1..Len(m) |-> BlockHolds(m[n], f, intent)]

\* A set of numbers that is not empty has a smallest element.
LEMMA Smallest ==
  ASSUME NEW T \in SUBSET Nat, T # {}
  PROVE  \E m \in T : \A n \in T : m <= n
<1>1. PICK m \in T : \A n \in T : ~ (<<n, m>> \in OpToRel(<, Nat))
  BY NatLessThanWellFounded, WFMin
<1>2. \A n \in T : ~ (n < m)
  BY <1>1 DEF OpToRel
<1>3. QED
  BY <1>2

\* A block is answered by itself and the blocks nested in it.
LEMMA SameNested ==
  ASSUME NEW b, NEW f, NEW g, NEW intent, \A k \in Nested(b) : f[k] = g[k]
  PROVE  BlockMatches(b, f, intent) = BlockMatches(b, g, intent)
<1>1. Has(b, "not") => f[b.not] = g[b.not]
  BY DEF Nested
<1>2. Has(b, "all_of") => \A k \in b.all_of : f[k] = g[k]
  BY DEF Nested
<1>3. Has(b, "any_of") => \A k \in b.any_of : f[k] = g[k]
  BY DEF Nested
<1>4. CASE Has(b, "not")
  BY <1>1, <1>4 DEF BlockMatches
<1>5. CASE ~Has(b, "not") /\ Has(b, "all_of")
  BY <1>2, <1>5 DEF BlockMatches
<1>6. CASE ~Has(b, "not") /\ ~Has(b, "all_of") /\ Has(b, "any_of")
  BY <1>3, <1>6 DEF BlockMatches
<1>7. CASE ~Has(b, "not") /\ ~Has(b, "all_of") /\ ~Has(b, "any_of")
  BY <1>7 DEF BlockMatches
<1>8. QED
  BY <1>4, <1>5, <1>6, <1>7

\* An unmixed block is read the same both ways.
LEMMA UnmixedAgree ==
  ASSUME NEW b, NEW f, NEW intent, UnmixedBlock(b)
  PROVE  BlockMatches(b, f, intent) = BlockHolds(b, f, intent)
<1>1. CASE DOMAIN b = {"not"}
  BY <1>1 DEF BlockMatches, BlockHolds, FieldsMatch, Has
<1>2. CASE DOMAIN b = {"all_of"}
  BY <1>2 DEF BlockMatches, BlockHolds, FieldsMatch, Has
<1>3. CASE DOMAIN b = {"any_of"}
  BY <1>3 DEF BlockMatches, BlockHolds, FieldsMatch, Has
<1>4. CASE DOMAIN b \cap {"not", "all_of", "any_of"} = {}
  <2>1. FieldsMatch(b, intent) \in BOOLEAN
    BY DEF FieldsMatch
  <2>2. QED
    BY <1>4, <2>1 DEF BlockMatches, BlockHolds, Has
<1>5. CASE DOMAIN b \cap {"not", "all_of", "any_of"} # {}
  <2>1. PICK key \in DOMAIN b : DOMAIN b = {key}
    BY <1>5 DEF UnmixedBlock
  <2>2. key \in {"not", "all_of", "any_of"}
    BY <1>5, <2>1
  <2>3. QED
    BY <1>1, <1>2, <1>3, <2>1, <2>2
<1>6. QED
  BY <1>4, <1>5

\* Two ways of answering the blocks of a tree are the same.
LEMMA OneCompiled ==
  ASSUME NEW m, IsMatch(m), NEW intent, NEW f, NEW g,
         IsCompiled(f, m, intent), IsCompiled(g, m, intent)
  PROVE  \A n \in 1..Len(m) : f[n] = g[n]
<1> DEFINE T == {n \in 1..Len(m) : f[n] # g[n]}
<1>1. SUFFICES ASSUME T # {} PROVE FALSE
  OBVIOUS
<1>2. PICK n \in T : \A k \in T : n <= k
  <2>1. T \in SUBSET Nat
    BY DEF IsMatch
  <2> HIDE DEF T
  <2>2. QED
    BY <1>1, <2>1, Smallest
<1>3. \A k \in Nested(m[n]) : f[k] = g[k]
  <2>1. \A k \in 1..(n - 1) : k \in 1..Len(m) /\ ~(n <= k)
    BY DEF IsMatch
  <2>2. \A k \in 1..(n - 1) : f[k] = g[k]
    BY <1>2, <2>1
  <2>3. QED
    BY <2>2 DEF IsMatch
<1>4. f[n] = BlockMatches(m[n], f, intent) /\ g[n] = BlockMatches(m[n], g, intent)
  BY DEF IsCompiled
<1>5. QED
  BY <1>2, <1>3, <1>4, SameNested

\* The answers for a tree exist, however its blocks are nested: answering them
\* one after the other, each finds the answers it needs.
LEMMA CompiledExists ==
  ASSUME NEW m, IsMatch(m), NEW intent
  PROVE  \E f : IsCompiled(f, m, intent)
<1> DEFINE Upto(f, n) == f = [k \in 1..n |-> BlockMatches(m[k], f, intent)]
           T == {n \in 0..Len(m) : ~ \E f : Upto(f, n)}
<1>1. Len(m) \in Nat
  BY DEF IsMatch
<1>2. SUFFICES ASSUME T # {} PROVE FALSE
  <2>1. Len(m) \in 0..Len(m)
    BY <1>1
  <2>2. T = {} => \E f : Upto(f, Len(m))
    BY <2>1
  <2>3. QED
    BY <1>2, <2>2 DEF IsCompiled
<1>3. PICK n \in T : \A k \in T : n <= k
  <2>1. T \in SUBSET Nat
    BY <1>1
  <2> HIDE DEF T
  <2>2. QED
    BY <1>2, <2>1, Smallest
<1>4. n \in 0..Len(m) /\ ~ \E f : Upto(f, n)
  BY <1>3
<1>5. CASE n = 0
  <2> DEFINE g == [k \in 1..0 |-> TRUE]
  <2>1. [k \in 1..0 |-> BlockMatches(m[k], g, intent)] = g
    OBVIOUS
  <2>2. Upto(g, 0)
    BY <2>1
  <2> HIDE DEF g, Upto
  <2>3. QED
    BY <1>4, <1>5, <2>2
<1>6. CASE n # 0
  <2>1. n \in 1..Len(m) /\ n - 1 \in 0..Len(m) /\ n - 1 \notin T
    BY <1>1, <1>3, <1>4, <1>6
  <2>2. PICK f : Upto(f, n - 1)
    BY <2>1
  <2> DEFINE g == [k \in 1..n |-> IF k = n THEN BlockMatches(m[n], f, intent) ELSE f[k]]
  <2>3. \A k \in 1..(n - 1) : g[k] = f[k]
    BY <2>1
  <2>4. ASSUME NEW k \in 1..n
        PROVE  g[k] = BlockMatches(m[k], g, intent)
    <3>1. k \in 1..Len(m) /\ 1..(k - 1) \subseteq 1..(n - 1)
      BY <1>1, <2>1
    <3>2. \A j \in Nested(m[k]) : g[j] = f[j]
      BY <2>3, <3>1 DEF IsMatch
    <3>3. BlockMatches(m[k], g, intent) = BlockMatches(m[k], f, intent)
      BY <3>2, SameNested
    <3>4. CASE k = n
      BY <2>1, <3>3, <3>4
    <3>5. CASE k # n
      <4>1. k \in 1..(n - 1)
        BY <2>1, <3>5
      <4>2. f[k] = BlockMatches(m[k], f, intent)
        BY <2>2, <4>1
      <4>3. QED
        BY <2>3, <3>3, <4>1, <4>2
    <3>6. QED
      BY <3>4, <3>5
  <2>5. Upto(g, n)
    <3>1. g = [k \in 1..n |-> g[k]]
      OBVIOUS
    <3> HIDE DEF g
    <3>2. QED
      BY <2>4, <3>1
  <2> HIDE DEF g, Upto
  <2>6. QED
    BY <1>4, <2>5
<1>7. QED
  BY <1>5, <1>6

\* What compileMatch says of a tree is what answering all its blocks says of the
\* outermost.
LEMMA CompileMatchIs ==
  ASSUME NEW m, IsMatch(m), NEW intent
  PROVE  \E f : IsCompiled(f, m, intent) /\ CompileMatch(m, intent) = f[Len(m)]
<1>1. CompileMatch(m, intent) = (CHOOSE f : IsCompiled(f, m, intent))[Len(m)]
  BY Zenon DEF CompileMatch, IsCompiled
<1>2. QED
  BY <1>1, CompiledExists

\* Where no block is mixed, the engine reads a match as the schema does.
LEMMA ReadingsAgree ==
  ASSUME NEW m, IsMatch(m), Unmixed(m), NEW intent
  PROVE  CompileMatch(m, intent) = AllConditionsHold(m, intent)
<1>1. ASSUME NEW f PROVE IsCompiled(f, m, intent) <=> IsHeld(f, m, intent)
  <2>1. \A n \in 1..Len(m) : BlockMatches(m[n], f, intent) = BlockHolds(m[n], f, intent)
    BY UnmixedAgree DEF Unmixed
  <2>2. [n \in 1..Len(m) |-> BlockMatches(m[n], f, intent)]
          = [n \in 1..Len(m) |-> BlockHolds(m[n], f, intent)]
    BY <2>1
  <2>3. QED
    BY <2>2 DEF IsCompiled, IsHeld
<1>2. PICK f : IsCompiled(f, m, intent) /\ CompileMatch(m, intent) = f[Len(m)]
  BY CompileMatchIs
<1>3. AllConditionsHold(m, intent) = (CHOOSE g : IsHeld(g, m, intent))[Len(m)]
  BY Zenon DEF AllConditionsHold, IsHeld
<1>4. PICK g : IsHeld(g, m, intent) /\ AllConditionsHold(m, intent) = g[Len(m)]
  BY <1>1, <1>2, <1>3
<1>5. f[Len(m)] = g[Len(m)]
  BY <1>1, <1>2, <1>4, OneCompiled DEF IsMatch
<1>6. QED
  BY <1>2, <1>4, <1>5

-----------------------------------------------------------------------------
(* Which rule decides *)

Hits(rules, intent) == {n \in DOMAIN rules : CompileMatch(rules[n].match, intent)}

\* At most one rule of a pack decides: the first that matches.
LEMMA FirstHitIs ==
  ASSUME NEW p, IsPack(p), NEW intent
  PROVE  /\ FirstHit(p.rules, intent) = {} <=> Hits(p.rules, intent) = {}
         /\ \A n \in Hits(p.rules, intent) :
              (\A i \in Hits(p.rules, intent) : n <= i) =>
                FirstHit(p.rules, intent) = {p.rules[n]}
<1> DEFINE rules == p.rules
           H == Hits(rules, intent)
           First(n) == n \in H /\ \A j \in 1..(n - 1) : ~CompileMatch(rules[j].match, intent)
<1>1. DOMAIN rules = 1..Len(rules) /\ Len(rules) \in Nat /\ H \in SUBSET Nat /\ H \subseteq DOMAIN rules
  BY DEF IsPack, Hits
<1>2. FirstHit(rules, intent) = {rules[n] : n \in {i \in DOMAIN rules : First(i)}}
  BY DEF FirstHit, Hits
<1>3. ASSUME NEW n \in H
      PROVE  First(n) <=> \A i \in H : n <= i
  <2>1. ASSUME First(n), NEW i \in H PROVE n <= i
    <3>1. CompileMatch(rules[i].match, intent)
      BY <2>1 DEF Hits
    <3>2. i \notin 1..(n - 1) /\ i \in Nat /\ i >= 1 /\ n \in Nat
      BY <1>1, <2>1, <3>1
    <3>3. QED
      BY <3>2
  <2>2. ASSUME \A i \in H : n <= i, NEW j \in 1..(n - 1)
        PROVE  ~CompileMatch(rules[j].match, intent)
    <3>1. j \in DOMAIN rules /\ ~(n <= j)
      BY <1>1
    <3>2. j \notin H
      BY <2>2, <3>1
    <3>3. QED
      BY <3>1, <3>2 DEF Hits
  <2>3. QED
    BY <2>1, <2>2
<1>4. FirstHit(rules, intent) = {} <=> H = {}
  <2>1. H # {} => \E n \in H : First(n)
    <3> HIDE DEF H, First
    <3>1. QED
      BY <1>1, <1>3, Smallest
  <2>2. \A n : First(n) => n \in H /\ n \in DOMAIN rules
    BY <1>1
  <2> HIDE DEF H, First
  <2>3. QED
    BY <1>2, <2>1, <2>2
<1>5. ASSUME NEW n \in H, \A i \in H : n <= i
      PROVE  FirstHit(rules, intent) = {rules[n]}
  <2>1. \A k : First(k) <=> k = n
    <3>1. ASSUME NEW k, First(k) PROVE k = n
      <4>1. k \in H
        BY <3>1
      <4>2. k <= n /\ n <= k
        BY <1>3, <1>5, <3>1, <4>1
      <4>3. k \in Nat /\ n \in Nat
        BY <1>1, <4>1
      <4>4. QED
        BY <4>2, <4>3
    <3>2. QED
      BY <1>3, <1>5, <3>1
  <2>2. n \in DOMAIN rules
    BY <1>1
  <2> HIDE DEF H, First
  <2>3. {i \in DOMAIN rules : First(i)} = {n}
    BY <2>1, <2>2
  <2>4. QED
    BY <1>2, <2>3
<1>6. QED
  BY <1>4, <1>5

\* Rule n of pack k decides if it is the first of its pack that matches, and no
\* earlier pack has one.
Decides(packs, intent, k, n) ==
  /\ k \in DOMAIN packs /\ n \in Hits(packs[k].rules, intent)
  /\ \A i \in Hits(packs[k].rules, intent) : n <= i
  /\ \A j \in 1..(k - 1) : Hits(packs[j].rules, intent) = {}

\* The loops of the engine stop at the rule that decides, or at none.
LEMMA MatchedRuleIs ==
  ASSUME NEW packs, ArePacks(packs), NEW intent
  PROVE  /\ \A k, n : Decides(packs, intent, k, n) =>
                        MatchedRule(packs, intent) = {packs[k].rules[n]}
         /\ \/ \E k, n : Decides(packs, intent, k, n)
            \/ /\ MatchedRule(packs, intent) = {}
               /\ \A k \in DOMAIN packs : Hits(packs[k].rules, intent) = {}
<1> DEFINE Open(k) == k \in DOMAIN packs /\ \A j \in 1..(k - 1) : Hits(packs[j].rules, intent) = {}
           P == {k \in DOMAIN packs : Hits(packs[k].rules, intent) # {}}
<1>1. DOMAIN packs = 1..Len(packs) /\ Len(packs) \in Nat /\ \A k \in DOMAIN packs : IsPack(packs[k])
  BY DEF ArePacks
<1>2. \A k \in DOMAIN packs : 1..(k - 1) \subseteq DOMAIN packs
  BY <1>1
<1>3. \A k \in DOMAIN packs :
        (\A j \in 1..(k - 1) : FirstHit(packs[j].rules, intent) = {}) <=> Open(k)
  BY <1>1, <1>2, FirstHitIs
<1>4. \A r : r \in MatchedRule(packs, intent) <=>
               \E k : Open(k) /\ r \in FirstHit(packs[k].rules, intent)
  <2> HIDE DEF Open
  <2>1. \A k : Open(k) => k \in DOMAIN packs
    BY DEF Open
  <2>2. MatchedRule(packs, intent)
          = UNION {FirstHit(packs[k].rules, intent) : k \in {i \in DOMAIN packs : Open(i)}}
    BY <1>3 DEF MatchedRule
  <2>3. QED
    BY <2>1, <2>2
<1>5. ASSUME NEW k, NEW n, Decides(packs, intent, k, n)
      PROVE  MatchedRule(packs, intent) = {packs[k].rules[n]}
  <2>1. FirstHit(packs[k].rules, intent) = {packs[k].rules[n]} /\ Open(k)
    BY <1>1, <1>5, FirstHitIs DEF Decides
  <2>2. ASSUME NEW i, Open(i), i # k PROVE FirstHit(packs[i].rules, intent) = {}
    <3>1. i \in DOMAIN packs /\ k \in DOMAIN packs /\ Hits(packs[k].rules, intent) # {}
      BY <1>5, <2>2 DEF Decides
    <3>2. k \notin 1..(i - 1)
      BY <2>2, <3>1
    <3>3. i \in 1..(k - 1)
      BY <1>1, <2>2, <3>1, <3>2
    <3>4. Hits(packs[i].rules, intent) = {}
      BY <1>5, <3>3 DEF Decides
    <3>5. QED
      BY <1>1, <3>1, <3>4, FirstHitIs
  <2> HIDE DEF Open
  <2>3. QED
    BY <1>4, <2>1, <2>2
<1>6. CASE P = {}
  <2>1. \A k \in DOMAIN packs : Hits(packs[k].rules, intent) = {}
    BY <1>6
  <2>2. \A k \in DOMAIN packs : FirstHit(packs[k].rules, intent) = {}
    BY <1>1, <2>1, FirstHitIs
  <2>3. MatchedRule(packs, intent) = {}
    BY <1>4, <2>2
  <2>4. QED
    BY <1>5, <2>1, <2>3
<1>7. CASE P # {}
  <2>1. PICK k \in P : \A i \in P : k <= i
    <3>1. P \in SUBSET Nat
      BY <1>1
    <3> HIDE DEF P
    <3>2. QED
      BY <1>7, <3>1, Smallest
  <2>2. PICK n \in Hits(packs[k].rules, intent) : \A i \in Hits(packs[k].rules, intent) : n <= i
    <3>1. Hits(packs[k].rules, intent) \in SUBSET Nat /\ Hits(packs[k].rules, intent) # {}
      BY <1>1, <2>1 DEF IsPack, Hits
    <3>2. QED
      BY <3>1, Smallest
  <2>3. \A j \in 1..(k - 1) : Hits(packs[j].rules, intent) = {}
    <3>1. \A j \in 1..(k - 1) : j \in DOMAIN packs /\ ~(k <= j)
      BY <1>1, <2>1
    <3>2. QED
      BY <2>1, <3>1
  <2>4. Decides(packs, intent, k, n)
    BY <2>1, <2>2, <2>3 DEF Decides
  <2>5. QED
    BY <1>5, <2>4
<1>8. QED
  BY <1>6, <1>7

-----------------------------------------------------------------------------
(* What is decided *)

Defaults(packs) == {packs[k].default_decision : k \in DOMAIN packs}

\* The decision is that of the rule that decides, or made from the defaults.
LEMMA EvaluateIs ==
  ASSUME NEW packs, ArePacks(packs), NEW intent
  PROVE  /\ \A k, n : Decides(packs, intent, k, n) =>
              Evaluate(packs, intent) = [outcome |-> packs[k].rules[n].decision,
                                         rule    |-> packs[k].rules[n].id]
         /\ (\A k \in DOMAIN packs : Hits(packs[k].rules, intent) = {}) =>
              Evaluate(packs, intent) = [outcome |-> MostRestrictive(Defaults(packs)),
                                         rule    |-> NoRule]
<1>1. ASSUME NEW k, NEW n, Decides(packs, intent, k, n)
      PROVE  Evaluate(packs, intent) = [outcome |-> packs[k].rules[n].decision,
                                        rule    |-> packs[k].rules[n].id]
  <2> DEFINE r == packs[k].rules[n]
  <2>1. MatchedRule(packs, intent) = {r}
    BY <1>1, MatchedRuleIs
  <2> HIDE DEF r
  <2>2. {[outcome |-> q.decision, rule |-> q.id] : q \in {r}} = {[outcome |-> r.decision, rule |-> r.id]}
    OBVIOUS
  <2>3. Evaluate(packs, intent) = [outcome |-> r.decision, rule |-> r.id]
    BY <2>1, <2>2 DEF Evaluate
  <2>4. QED
    BY <2>3 DEF r
<1>2. ASSUME \A k \in DOMAIN packs : Hits(packs[k].rules, intent) = {}
      PROVE  Evaluate(packs, intent) = [outcome |-> MostRestrictive(Defaults(packs)),
                                        rule    |-> NoRule]
  <2>1. ~ \E k, n : Decides(packs, intent, k, n)
    BY <1>2 DEF Decides
  <2>2. MatchedRule(packs, intent) = {}
    BY <2>1, MatchedRuleIs
  <2>3. QED
    BY <2>2 DEF Evaluate, Defaults
<1>3. QED
  BY <1>1, <1>2

\* "Evaluation is deterministic and total": any packs decide any intent one way
\* (engine.ts, PolicyEngine.evaluate).
THEOREM EvaluationIsTotal ==
  ASSUME NEW packs, ArePacks(packs), NEW intent
  PROVE  Evaluate(packs, intent).outcome \in Decisions
<1>1. ASSUME NEW k, NEW n, Decides(packs, intent, k, n)
      PROVE  Evaluate(packs, intent).outcome \in Decisions
  <2>1. packs[k].rules[n].decision \in Decisions
    BY <1>1 DEF Decides, Hits, ArePacks, IsPack
  <2>2. QED
    BY <1>1, <2>1, EvaluateIs
<1>2. ASSUME \A k \in DOMAIN packs : Hits(packs[k].rules, intent) = {}
      PROVE  Evaluate(packs, intent).outcome \in Decisions
  <2>1. MostRestrictive(Defaults(packs)) \in Decisions
    BY DEF MostRestrictive, Decisions
  <2>2. QED
    BY <1>2, <2>1, EvaluateIs
<1>3. QED
  BY <1>1, <1>2, MatchedRuleIs

Severity(outcome) ==
  CASE outcome = "allow" -> 0 [] outcome = "require-approval" -> 1 [] outcome = "deny" -> 2

\* A pack loaded after the others changes nothing of what their rules decide, and
\* where it has no rule for an intent either, its default can only make the
\* decision more restrictive (PolicyEngine.loadPack, evaluate).
THEOREM LaterPacksGiveWay ==
  ASSUME NEW packs, ArePacks(packs), NEW intent,
         NEW more, ArePacks(more), Len(more) = Len(packs) + 1,
         \A k \in DOMAIN packs : more[k] = packs[k]
  PROVE  /\ (\E k \in DOMAIN packs : Hits(packs[k].rules, intent) # {}) =>
              Evaluate(more, intent) = Evaluate(packs, intent)
         /\ (\A k \in DOMAIN more : Hits(more[k].rules, intent) = {}) =>
              Severity(Evaluate(packs, intent).outcome) <= Severity(Evaluate(more, intent).outcome)
<1>1. /\ Len(packs) \in Nat /\ DOMAIN packs = 1..Len(packs) /\ DOMAIN more = 1..(Len(packs) + 1)
      /\ DOMAIN packs \subseteq DOMAIN more
  BY DEF ArePacks
<1>2. ASSUME \E k \in DOMAIN packs : Hits(packs[k].rules, intent) # {}
      PROVE  Evaluate(more, intent) = Evaluate(packs, intent)
  <2>1. PICK k, n : Decides(packs, intent, k, n)
    BY <1>2, MatchedRuleIs
  <2>2. k \in DOMAIN packs /\ 1..(k - 1) \subseteq DOMAIN packs
    BY <1>1, <2>1 DEF Decides
  <2>3. Decides(more, intent, k, n) /\ more[k] = packs[k]
    BY <1>1, <2>1, <2>2 DEF Decides
  <2>4. QED
    BY <2>1, <2>3, EvaluateIs
<1>3. ASSUME \A k \in DOMAIN more : Hits(more[k].rules, intent) = {}
      PROVE  Severity(Evaluate(packs, intent).outcome) <= Severity(Evaluate(more, intent).outcome)
  <2>1. \A k \in DOMAIN packs : Hits(packs[k].rules, intent) = {}
    BY <1>1, <1>3
  <2>2. Defaults(packs) \subseteq Defaults(more)
    BY <1>1 DEF Defaults
  <2>3. Severity(MostRestrictive(Defaults(packs))) <= Severity(MostRestrictive(Defaults(more)))
    BY <2>2 DEF Severity, MostRestrictive
  <2>4. Evaluate(packs, intent) = [outcome |-> MostRestrictive(Defaults(packs)), rule |-> NoRule]
    BY <2>1, EvaluateIs
  <2>5. Evaluate(more, intent) = [outcome |-> MostRestrictive(Defaults(more)), rule |-> NoRule]
    BY <1>3, EvaluateIs
  <2>6. /\ Evaluate(packs, intent).outcome = MostRestrictive(Defaults(packs))
        /\ Evaluate(more, intent).outcome = MostRestrictive(Defaults(more))
    BY <2>4, <2>5
  <2>7. QED
    BY <2>3, <2>6
<1>4. QED
  BY <1>2, <1>3

-----------------------------------------------------------------------------
(* What runs *)

\* For unmixed packs, what the schema says matches is what the engine finds.
LEMMA MatchingIs ==
  ASSUME NEW packs, ArePacks(packs), NEW intent,
         \A k \in DOMAIN packs : \A n \in DOMAIN packs[k].rules : Unmixed(packs[k].rules[n].match)
  PROVE  \A x : x \in Matching(packs, intent) <=>
                 \E k \in DOMAIN packs : \E n \in Hits(packs[k].rules, intent) : x = <<k, n>>
<1>1. \A k \in DOMAIN packs : \A n \in DOMAIN packs[k].rules :
        CompileMatch(packs[k].rules[n].match, intent)
          = AllConditionsHold(packs[k].rules[n].match, intent)
  BY ReadingsAgree DEF ArePacks, IsPack
<1>2. QED
  BY <1>1 DEF Matching, Hits

\* The rule that decides is the first in the order of the packs and their rules.
LEMMA DecidesFirst ==
  ASSUME NEW packs, ArePacks(packs), NEW intent,
         \A k \in DOMAIN packs : \A n \in DOMAIN packs[k].rules : Unmixed(packs[k].rules[n].match),
         NEW k, NEW n, Decides(packs, intent, k, n)
  PROVE  {y \in Matching(packs, intent) : \A z \in Matching(packs, intent) : z # y => Before(y, z)}
           = {<<k, n>>}
<1> DEFINE M == Matching(packs, intent)
<1>1. \A x : x \in M <=> \E i \in DOMAIN packs : \E j \in Hits(packs[i].rules, intent) : x = <<i, j>>
  BY MatchingIs
<1>2. \A i \in DOMAIN packs : i \in Nat /\ i >= 1 /\ \A j \in Hits(packs[i].rules, intent) : j \in Nat
  BY DEF ArePacks, IsPack, Hits
<1>3. <<k, n>> \in M
  BY <1>1 DEF Decides
<1> HIDE DEF M
<1>4. ASSUME NEW i \in DOMAIN packs, NEW j \in Hits(packs[i].rules, intent), <<i, j>> # <<k, n>>
      PROVE  Before(<<k, n>>, <<i, j>>) /\ ~Before(<<i, j>>, <<k, n>>)
  <2>1. i \notin 1..(k - 1)
    BY <1>4 DEF Decides
  <2>2. k \in Nat /\ i \in Nat /\ i >= 1 /\ n \in Nat /\ j \in Nat
    BY <1>2, <1>4 DEF Decides
  <2>3. k <= i
    BY <2>1, <2>2
  <2>4. k = i => n <= j /\ n # j
    BY <1>4 DEF Decides
  <2>5. QED
    BY <2>2, <2>3, <2>4 DEF Before
<1>5. \A y \in M : (\A z \in M : z # y => Before(y, z)) <=> y = <<k, n>>
  BY <1>1, <1>3, <1>4
<1>6. {y \in M : \A z \in M : z # y => Before(y, z)} = {<<k, n>>}
  BY <1>3, <1>5
<1>7. QED
  BY <1>6 DEF M

\* What ran came in as a line.
LEMMA RanWasRead ==
  ASSUME SInv, NEW r \in ran
  PROVE  config \in Configs /\ input[r.line] \in Messages
<1>1. /\ received \in 0..MaxLines /\ current \in 0..received
      /\ (current = 0) <=> pc \in {"idle", "exited"}
  BY DEF SInv, ServerTypes
<1>2. CASE r.line \in Handled
  <2>1. r.line \in 1..received
    BY <1>2, HandledIs DEF SInv
  <2>2. r.line \in 1..MaxLines
    BY <1>1, <2>1, LinesAssumption
  <2>3. QED
    BY <2>2 DEF SInv, ServerTypes
<1>3. CASE r.line = current /\ pc = "recording"
  <2>1. r.line \in 1..MaxLines
    BY <1>1, <1>3, LinesAssumption
  <2>2. QED
    BY <2>1 DEF SInv, ServerTypes
<1>4. QED
  BY <1>2, <1>3 DEF SInv, RanFits

\* In Gate mode only commands run that the first matching rule, or else every
\* default, allows, or that got the approval it asks for; without packs the
\* opt-in is needed (runExec, PolicyEngine.evaluate, compileMatch).
THEOREM OnlyAllowedRuns == Spec => []GateRunsAllowed
<1>1. SInv => GateRunsAllowed
  <2> SUFFICES ASSUME SInv, config.mode = "gate", NEW r \in ran,
                      \A k \in DOMAIN config.packs : \A n \in DOMAIN config.packs[k].rules :
                        Unmixed(config.packs[k].rules[n].match)
               PROVE  LET m == Matching(config.packs, IntentOf(r.line))
                          first == {config.packs[x[1]].rules[x[2]].decision :
                                     x \in {y \in m : \A z \in m : z # y => Before(y, z)}}
                          verdicts == IF m # {} THEN first
                                      ELSE {config.packs[k].default_decision : k \in DOMAIN config.packs}
                      IN /\ "deny" \notin verdicts
                         /\ "require-approval" \in verdicts => r.approval = "approved"
                         /\ config.packs = <<>> => config.escape
    BY DEF GateRunsAllowed
  <2> DEFINE packs == config.packs
             intent == IntentOf(r.line)
             M == Matching(packs, intent)
             first == {packs[x[1]].rules[x[2]].decision :
                        x \in {y \in M : \A z \in M : z # y => Before(y, z)}}
             verdicts == IF M # {} THEN first ELSE Defaults(packs)
             says == Evaluate(packs, intent).outcome
  <2>1. ArePacks(packs) /\ Policy(packs, intent) = Evaluate(packs, intent)
    BY RanWasRead, PacksAssumption, EngineAssumption DEF IntentOf
  <2>2. /\ packs = <<>> => config.escape
        /\ packs # <<>> =>
             says = "allow" \/ (says = "require-approval" /\ r.approval = "approved")
    BY <2>1 DEF SInv, OnlyDecidedRuns, Decided
  <2>3. \A k \in DOMAIN packs : \A n \in DOMAIN packs[k].rules : Unmixed(packs[k].rules[n].match)
    OBVIOUS
  <2>4. \A x : x \in M <=> \E k \in DOMAIN packs : \E n \in Hits(packs[k].rules, intent) : x = <<k, n>>
    BY <2>1, <2>3, MatchingIs
  <2> HIDE DEF packs, intent
  <2>5. CASE packs = <<>>
    <3>1. M = {} /\ Defaults(packs) = {}
      BY <2>4, <2>5 DEF Defaults
    <3>2. verdicts = {}
      BY <3>1
    <3>3. QED
      BY <2>2, <2>5, <3>2 DEF packs, intent, Defaults
  <2>6. ASSUME packs # <<>>, NEW k, NEW n, Decides(packs, intent, k, n)
        PROVE  verdicts = {says}
    <3>1. <<k, n>> \in M
      BY <2>4, <2>6 DEF Decides
    <3>2. {y \in M : \A z \in M : z # y => Before(y, z)} = {<<k, n>>}
      BY <2>1, <2>3, <2>6, DecidesFirst
    <3>3. first = {packs[x[1]].rules[x[2]].decision : x \in {<<k, n>>}}
      BY <3>2
    <3>4. first = {packs[k].rules[n].decision}
      BY <3>3
    <3>5. says = packs[k].rules[n].decision
      BY <2>1, <2>6, EvaluateIs
    <3>6. QED
      BY <3>1, <3>4, <3>5
  <2>7. ASSUME packs # <<>>, \A k \in DOMAIN packs : Hits(packs[k].rules, intent) = {}
        PROVE  verdicts = Defaults(packs) /\ says = MostRestrictive(Defaults(packs))
    <3>1. M = {}
      BY <2>4, <2>7
    <3>2. QED
      BY <2>1, <2>7, <3>1, EvaluateIs
  <2>8. packs # <<>> => /\ "deny" \notin verdicts
                        /\ "require-approval" \in verdicts => r.approval = "approved"
    <3> SUFFICES ASSUME packs # <<>>
                 PROVE  /\ "deny" \notin verdicts
                        /\ "require-approval" \in verdicts => r.approval = "approved"
      OBVIOUS
    <3> HIDE DEF verdicts, says
    <3>1. CASE \E k, n : Decides(packs, intent, k, n)
      BY <2>2, <2>6, <3>1
    <3>2. CASE \A k \in DOMAIN packs : Hits(packs[k].rules, intent) = {}
      BY <2>2, <2>7, <3>2 DEF MostRestrictive
    <3>3. QED
      BY <2>1, <3>1, <3>2, MatchedRuleIs
  <2>9. QED
    BY <2>2, <2>5, <2>8 DEF packs, intent, Defaults
<1>2. QED
  BY <1>1, Invariance, PTL
=============================================================================
