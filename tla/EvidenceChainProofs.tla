------------------------ MODULE EvidenceChainProofs -------------------------
(***************************************************************************)
(* Proofs about EvidenceChain, for any number of events, keys, signers and *)
(* attestations.                                                           *)
(***************************************************************************)
EXTENDS EvidenceChain, FiniteSetTheorems, SequenceTheorems, WellFoundedInduction, TLAPS

-----------------------------------------------------------------------------
(* Hashes, events and the log *)

\* Hashes are what they are of, and neither missing nor junk.
LEMMA HashesDiffer ==
  \A x, y : /\ Hash(x) = Hash(y) => x = y
            /\ Hash(x) # NoHash /\ Hash(x) # Junk /\ Junk # NoHash
BY DEF Hash, NoHash, Junk

\* What an event as recorded says.
EventIs(e, n, outcome, previous) ==
  /\ DOMAIN e = EventFields /\ e = [f \in EventFields |-> e[f]]
  /\ e.sequence = n /\ e.event_id = n + 1 /\ e.receipt_id = n + 1 /\ e.chain_segment_id = DefaultSegment
  /\ e.classified_intent = n + 1 /\ e.policy_decision = n + 1
  /\ e.execution_result = (IF outcome = "allowed_executed" THEN n + 1 ELSE Absent)
  /\ e.outcome = outcome /\ e.previous_event_hash = previous
  /\ e.event_hash = Hash(Draft(n, outcome, previous))
  /\ Without(e, {"event_hash"}) = Draft(n, outcome, previous)

\* A finished draft says what the draft says, and is sealed with its hash.
LEMMA FinalEvent ==
  \A n, outcome, previous :
    EventIs(FinalizeEvent(Draft(n, outcome, previous)), n, outcome, previous)
<1> SUFFICES ASSUME NEW n, NEW outcome, NEW previous
             PROVE  EventIs(FinalizeEvent(Draft(n, outcome, previous)), n, outcome, previous)
  OBVIOUS
<1> DEFINE d == Draft(n, outcome, previous)
           e == FinalizeEvent(d)
<1>1. DOMAIN d = EventFields \ {"event_hash"}
  BY DEF Draft, EventFields
<1>2. e = [f \in EventFields |-> IF f = "event_hash" THEN Hash(d) ELSE d[f]]
  BY <1>1 DEF FinalizeEvent, Plus, EventFields
<1>3. Without(e, {"event_hash"}) = d
  <2>1. DOMAIN e \ {"event_hash"} = DOMAIN d
    BY <1>1, <1>2 DEF EventFields
  <2>2. \A f \in DOMAIN d : e[f] = d[f]
    BY <1>1, <1>2 DEF EventFields
  <2>3. d = [f \in DOMAIN d |-> d[f]]
    BY DEF Draft
  <2>4. QED
    BY <2>1, <2>2, <2>3 DEF Without
<1>4. /\ e.sequence = n /\ e.event_id = n + 1 /\ e.receipt_id = n + 1 /\ e.chain_segment_id = DefaultSegment
      /\ e.classified_intent = n + 1 /\ e.policy_decision = n + 1
      /\ e.execution_result = (IF outcome = "allowed_executed" THEN n + 1 ELSE Absent)
      /\ e.outcome = outcome /\ e.previous_event_hash = previous
  BY <1>2 DEF Draft, EventFields
<1>5. e.event_hash = Hash(d) /\ DOMAIN e = EventFields /\ e = [f \in EventFields |-> e[f]]
  BY <1>2 DEF EventFields
<1>6. QED
  BY <1>3, <1>4, <1>5 DEF EventIs

\* The hash an event at place i names.
PreviousHash(s, i) == IF i = 1 THEN NoHash ELSE s[i - 1].event_hash

IsSeq(s) == Len(s) \in Nat /\ s = [i \in 1..Len(s) |-> s[i]]

Recorded(s, i) ==
  \E outcome \in Outcomes : EventIs(s[i], i - 1, outcome, PreviousHash(s, i))

\* The log: as many events as recorded, each naming the one before.
LogFits ==
  /\ IsSeq(log) /\ Len(log) <= MaxEvents
  /\ \A i \in 1..Len(log) : Recorded(log, i)

\* A sequence is a function on 1..n.
LEMMA SeqIs ==
  \A s : IsSeq(s) <=> \E S : s \in Seq(S)
<1>1. ASSUME NEW s, IsSeq(s) PROVE s \in Seq({s[i] : i \in 1..Len(s)})
  <2>1. s \in [1..Len(s) -> {s[i] : i \in 1..Len(s)}]
    BY <1>1 DEF IsSeq
  <2>2. QED
    BY <1>1, <2>1 DEF IsSeq
<1>2. ASSUME NEW s, NEW S, s \in Seq(S) PROVE IsSeq(s)
  BY <1>2 DEF IsSeq
<1>3. QED
  BY <1>1, <1>2

\* One more entry.
LEMMA Appended ==
  ASSUME NEW s, NEW e, IsSeq(s)
  PROVE  /\ IsSeq(Append(s, e)) /\ Len(Append(s, e)) = Len(s) + 1
         /\ \A i \in 1..Len(s) : Append(s, e)[i] = s[i]
         /\ Append(s, e)[Len(s) + 1] = e
<1>1. PICK S : s \in Seq(S)
  BY SeqIs
<1>2. s \in Seq(S \cup {e}) /\ e \in S \cup {e} /\ Append(s, e) \in Seq(S \cup {e})
  BY <1>1
<1>3. IsSeq(Append(s, e))
  BY <1>2, SeqIs
<1>4. QED
  BY <1>1, <1>2, <1>3

\* What is known of a recorded event.
LEMMA RecordedIs ==
  ASSUME LogFits, NEW i \in 1..Len(log)
  PROVE  /\ log[i].sequence = i - 1 /\ log[i].event_id = i /\ log[i].receipt_id = i
         /\ log[i].chain_segment_id = DefaultSegment /\ log[i].classified_intent = i
         /\ log[i].policy_decision = i /\ log[i].execution_result \in {Absent, i}
         /\ log[i].outcome \in Outcomes
         /\ log[i].previous_event_hash = PreviousHash(log, i)
         /\ DOMAIN log[i] = EventFields /\ log[i] = [f \in EventFields |-> log[i][f]]
         /\ VerifyEventHash(log[i])
         /\ log[i].event_hash # NoHash /\ log[i].event_hash # Junk
<1>1. PICK outcome \in Outcomes : EventIs(log[i], i - 1, outcome, PreviousHash(log, i))
  BY DEF LogFits, Recorded
<1>2. i \in Nat /\ (i - 1) + 1 = i
  BY DEF LogFits, IsSeq
<1>3. log[i].event_hash # NoHash /\ log[i].event_hash # Junk
  BY <1>1, HashesDiffer DEF EventIs
<1>4. QED
  BY <1>1, <1>2, <1>3 DEF EventIs, VerifyEventHash

\* Two events are equal once they verify and have the same hash.
LEMMA SameHash ==
  ASSUME NEW a, NEW b, VerifyEventHash(a), VerifyEventHash(b), a.event_hash = b.event_hash,
         "event_hash" \in DOMAIN a, "event_hash" \in DOMAIN b,
         a = [f \in DOMAIN a |-> a[f]], b = [f \in DOMAIN b |-> b[f]]
  PROVE  a = b
<1>1. Without(a, {"event_hash"}) = Without(b, {"event_hash"})
  BY HashesDiffer DEF VerifyEventHash
<1>2. DOMAIN a \ {"event_hash"} = DOMAIN b \ {"event_hash"}
  BY <1>1 DEF Without
<1>3. DOMAIN a = DOMAIN b
  BY <1>2
<1>4. \A f \in DOMAIN a \ {"event_hash"} : a[f] = b[f]
  BY <1>1, <1>2 DEF Without
<1>5. \A f \in DOMAIN a : a[f] = b[f]
  BY <1>4
<1>6. QED
  BY <1>3, <1>5

\* No two recorded events have the same hash.
LEMMA RecordedOnce ==
  ASSUME LogFits, NEW i \in 1..Len(log), NEW j \in 1..Len(log),
         log[i].event_hash = log[j].event_hash
  PROVE  i = j
<1>1. log[i] = log[j]
  BY RecordedIs, SameHash DEF EventFields
<1>2. i \in Nat /\ j \in Nat
  BY DEF LogFits, IsSeq
<1>3. log[i].sequence = i - 1 /\ log[j].sequence = j - 1
  BY RecordedIs
<1>4. i - 1 = j - 1
  BY <1>1, <1>3
<1>5. QED
  BY <1>2, <1>4

\* Recording goes on from the head and leaves what there is.
LEMMA RecordKeepsLog ==
  ASSUME LogFits, NEW outcome \in Outcomes, Record(outcome)
  PROVE  /\ LogFits' /\ Len(log') = Len(log) + 1
         /\ \A i \in 1..Len(log) : log'[i] = log[i]
<1> DEFINE n == Len(log)
           previous == IF n = 0 THEN NoHash ELSE log[n].event_hash
           e == FinalizeEvent(Draft(n, outcome, previous))
<1>1. n \in Nat /\ n < MaxEvents /\ log' = Append(log, e) /\ IsSeq(log) /\ MaxEvents \in Nat
  BY EvidenceAssumption DEF Record, LogFits, IsSeq
<1>2. EventIs(e, n, outcome, previous)
  BY FinalEvent
<1> HIDE DEF e
<1>3. /\ IsSeq(log') /\ Len(log') = n + 1 /\ log'[n + 1] = e
      /\ \A i \in 1..n : log'[i] = log[i]
  BY <1>1, Appended
<1>4. \A i \in 1..(n + 1) : PreviousHash(log', i) = IF i = n + 1 THEN previous ELSE PreviousHash(log, i)
  <2>1. SUFFICES ASSUME NEW i \in 1..(n + 1)
                 PROVE  PreviousHash(log', i) = IF i = n + 1 THEN previous ELSE PreviousHash(log, i)
    OBVIOUS
  <2>2. CASE i = 1
    BY <1>1, <2>2 DEF PreviousHash
  <2>3. CASE i # 1
    <3>1. i - 1 \in 1..n /\ (i = n + 1 => i - 1 = n /\ n # 0)
      BY <1>1, <2>3
    <3>2. QED
      BY <1>3, <2>3, <3>1 DEF PreviousHash
  <2>4. QED
    BY <2>2, <2>3
<1>5. ASSUME NEW i \in 1..(n + 1)
      PROVE  Recorded(log', i)
  <2>1. CASE i = n + 1
    <3>1. i - 1 = n
      BY <1>1, <2>1
    <3>2. QED
      BY <1>2, <1>3, <1>4, <2>1, <3>1 DEF Recorded
  <2>2. CASE i # n + 1
    <3>1. i \in 1..n
      BY <1>1, <2>2
    <3>2. QED
      BY <1>3, <1>4, <2>2, <3>1 DEF LogFits, Recorded
  <2>3. QED
    BY <2>1, <2>2
<1>6. QED
  BY <1>1, <1>3, <1>5 DEF LogFits

\* Events a to b of the log.
Stretch(events, a, b) ==
  /\ a \in 1..Len(log) /\ b \in a..Len(log)
  /\ events = [k \in 1..(b - a + 1) |-> log[a + k - 1]]

\* The length, the entries and the ends of a stretch.
LEMMA StretchIs ==
  ASSUME LogFits, NEW events, NEW a, NEW b, Stretch(events, a, b)
  PROVE  /\ IsSeq(events) /\ Len(events) = b - a + 1 /\ Len(events) \in Nat \ {0}
         /\ a \in Nat /\ b \in Nat /\ a <= b /\ Len(log) \in Nat /\ b <= Len(log) /\ a >= 1
         /\ \A k \in 1..Len(events) : a + k - 1 \in 1..Len(log) /\ events[k] = log[a + k - 1]
         /\ Last(events) = log[b] /\ Head(events) = log[a] /\ events # <<>>
<1>1. /\ Len(log) \in Nat /\ a \in Nat /\ b \in Nat /\ a <= b /\ b <= Len(log) /\ a >= 1
  BY DEF Stretch, LogFits, IsSeq
<1>2. PICK m \in Nat \ {0} : m = b - a + 1
  BY <1>1
<1>3. events = [k \in 1..m |-> log[a + k - 1]]
  BY <1>2 DEF Stretch
<1>4. events \in [1..m -> {log[a + k - 1] : k \in 1..m}]
  BY <1>3
<1>5. /\ events \in Seq({log[a + k - 1] : k \in 1..m}) /\ Len(events) = m
  BY <1>2, <1>4, LenProperties
<1>6. \A k \in 1..m : a + k - 1 \in 1..Len(log) /\ events[k] = log[a + k - 1]
  BY <1>1, <1>2, <1>3
<1>7. a + m - 1 = b /\ a + 1 - 1 = a
  BY <1>1, <1>2
<1>8. events[m] = log[b] /\ events[1] = log[a] /\ 1 \in 1..m /\ m \in 1..m
  BY <1>2, <1>6, <1>7
<1>9. Last(events) = log[b] /\ Head(events) = log[a] /\ events # <<>>
  BY <1>5, <1>8 DEF Last
<1>10. QED
  BY <1>1, <1>2, <1>5, <1>6, <1>9, SeqIs

\* Its entries alone.
LEMMA StretchAt ==
  ASSUME LogFits, NEW events, NEW a, NEW b, Stretch(events, a, b)
  PROVE  /\ IsSeq(events)
         /\ \A k \in 1..Len(events) : a + k - 1 \in 1..Len(log) /\ events[k] = log[a + k - 1]
BY StretchIs

\* A stretch stays one as the log grows.
LEMMA StretchStays ==
  ASSUME LogFits, LogFits', Len(log) <= Len(log'), \A i \in 1..Len(log) : log'[i] = log[i],
         NEW events, NEW a, NEW b, Stretch(events, a, b)
  PROVE  /\ events = [k \in 1..(b - a + 1) |-> log'[a + k - 1]]
         /\ a \in 1..Len(log') /\ b \in a..Len(log')
         /\ PreviousHash(log', a) = PreviousHash(log, a)
<1>1. /\ a \in Nat /\ b \in Nat /\ a <= b /\ b <= Len(log) /\ a >= 1
      /\ Len(log) \in Nat /\ Len(log') \in Nat /\ Len(events) = b - a + 1
      /\ \A k \in 1..Len(events) : a + k - 1 \in 1..Len(log)
  BY StretchIs DEF LogFits, IsSeq
<1>2. \A k \in 1..(b - a + 1) : log'[a + k - 1] = log[a + k - 1]
  BY <1>1
<1>3. events = [k \in 1..(b - a + 1) |-> log'[a + k - 1]]
  BY <1>2 DEF Stretch
<1>4. a # 1 => a - 1 \in 1..Len(log)
  BY <1>1
<1>5. PreviousHash(log', a) = PreviousHash(log, a)
  BY <1>4 DEF PreviousHash
<1>6. QED
  BY <1>1, <1>3, <1>5

\* A set of numbers that is not empty has a smallest element.
LEMMA Smallest ==
  ASSUME NEW T \in SUBSET Nat, T # {}
  PROVE  \E m \in T : \A n \in T : m <= n
<1>1. PICK m \in T : \A n \in T : ~ (<<n, m>> \in OpToRel(<, Nat))
  BY NatLessThanWellFounded, WFMin
<1>2. \A n \in T : ~ (n < m)
  BY <1>1 DEF OpToRel
<1>3. QED
  BY <1>2

\* What the filter has kept of the first n events.
IsKept(f, start, end) ==
  f = [n \in 0..Len(log) |->
         IF n = 0 THEN <<>>
         ELSE IF log[n].sequence \in start..end THEN Append(f[n - 1], log[n])
         ELSE f[n - 1]]

\* How many events those are.
KeptSize(n, start, end) ==
  IF n <= start \/ end < start THEN 0
  ELSE IF n <= end + 1 THEN n - start ELSE end + 1 - start

KeptOf(n, start, end) == [k \in 1..KeptSize(n, start, end) |-> log[start + k]]

\* One event more is kept or not, as its sequence says.
LEMMA KeptStep ==
  ASSUME LogFits, NEW start \in Nat, NEW end \in Nat, NEW n \in 1..Len(log)
  PROVE  KeptOf(n, start, end) =
           IF log[n].sequence \in start..end THEN Append(KeptOf(n - 1, start, end), log[n])
           ELSE KeptOf(n - 1, start, end)
<1> DEFINE s == KeptOf(n - 1, start, end)
           z == KeptSize(n - 1, start, end)
<1>1. n \in Nat /\ n >= 1 /\ log[n].sequence = n - 1 /\ z \in Nat
  BY RecordedIs DEF LogFits, IsSeq, KeptSize
<1>2. CASE n - 1 \in start..end
  <2>1. KeptSize(n, start, end) = z + 1 /\ start + (z + 1) = n
    BY <1>1, <1>2 DEF KeptSize
  <2>2. IsSeq(s) /\ Len(s) = z
    <3>1. s = [k \in 1..z |-> log[start + k]]
      BY DEF KeptOf
    <3> HIDE DEF s, z
    <3>2. s \in [1..z -> {log[start + k] : k \in 1..z}]
      BY <3>1
    <3>3. PICK S : s \in [1..z -> S]
      BY <3>2
    <3>4. s \in Seq(S) /\ Len(s) = z
      BY <1>1, <3>3, LenProperties
    <3>5. QED
      BY <3>4, SeqIs
  <2>3. /\ IsSeq(Append(s, log[n])) /\ Len(Append(s, log[n])) = z + 1
        /\ \A k \in 1..z : Append(s, log[n])[k] = s[k]
        /\ Append(s, log[n])[z + 1] = log[n]
    BY <2>2, Appended
  <2>4. \A k \in 1..z : s[k] = log[start + k]
    BY DEF KeptOf
  <2> HIDE DEF s, z
  <2>5. \A k \in 1..(z + 1) : Append(s, log[n])[k] = log[start + k]
    BY <1>1, <2>1, <2>3, <2>4
  <2>6. Append(s, log[n]) = [k \in 1..(z + 1) |-> log[start + k]]
    BY <2>3, <2>5 DEF IsSeq
  <2>7. QED
    BY <1>1, <1>2, <2>1, <2>6 DEF KeptOf, s
<1>3. CASE n - 1 \notin start..end
  <2>1. KeptSize(n, start, end) = z
    BY <1>1, <1>3 DEF KeptSize
  <2>2. QED
    BY <1>1, <1>3, <2>1 DEF KeptOf
<1>4. QED
  BY <1>2, <1>3

\* The filter keeps what its recursion says: the only function that satisfies it.
LEMMA InRangeIs ==
  ASSUME LogFits, NEW start \in Nat, NEW end \in Nat
  PROVE  InRange(start, end) = KeptOf(Len(log), start, end)
<1> DEFINE L == Len(log)
<1>1. L \in Nat
  BY DEF LogFits, IsSeq
<1>2. \E f : IsKept(f, start, end)
  <2> DEFINE g == [n \in 0..L |-> KeptOf(n, start, end)]
  <2>1. ASSUME NEW n \in 0..L
        PROVE  g[n] = IF n = 0 THEN <<>>
                      ELSE IF log[n].sequence \in start..end THEN Append(g[n - 1], log[n])
                      ELSE g[n - 1]
    <3>1. CASE n = 0
      <4>1. KeptOf(0, start, end) = <<>>
        BY DEF KeptOf, KeptSize
      <4>2. QED
        BY <1>1, <3>1, <4>1
    <3>2. CASE n # 0
      <4>1. n \in 1..L /\ n - 1 \in 0..L
        BY <1>1, <3>2
      <4>2. g[n - 1] = KeptOf(n - 1, start, end) /\ g[n] = KeptOf(n, start, end)
        BY <4>1
      <4>3. QED
        BY <3>2, <4>1, <4>2, KeptStep
    <3>3. QED
      BY <3>1, <3>2
  <2>2. IsKept(g, start, end)
    BY <2>1, Zenon DEF IsKept
  <2>3. QED
    BY <2>2
<1>3. PICK f : IsKept(f, start, end) /\ InRange(start, end) = f[L]
  <2>1. InRange(start, end) = (CHOOSE f : IsKept(f, start, end))[L]
    BY Zenon DEF InRange, IsKept
  <2>2. QED
    BY <1>2, <2>1
<1>4. \A n \in 0..L : f[n] = KeptOf(n, start, end)
  <2> DEFINE T == {n \in 0..L : f[n] # KeptOf(n, start, end)}
  <2>1. SUFFICES ASSUME T # {} PROVE FALSE
    OBVIOUS
  <2>2. PICK m \in T : \A n \in T : m <= n
    <3>1. T \in SUBSET Nat
      BY <1>1
    <3>2. QED
      BY <2>1, <3>1, Smallest
  <2>3. CASE m = 0
    <3>1. f[0] = <<>>
      BY <1>1, <1>3 DEF IsKept
    <3>2. KeptOf(0, start, end) = <<>>
      BY DEF KeptOf, KeptSize
    <3>3. QED
      BY <2>2, <2>3, <3>1, <3>2
  <2>4. CASE m # 0
    <3>1. m \in 1..L /\ m - 1 \in 0..L /\ m - 1 \notin T
      BY <1>1, <2>2, <2>4
    <3>2. f[m - 1] = KeptOf(m - 1, start, end)
      BY <3>1
    <3>3. f[m] = IF log[m].sequence \in start..end THEN Append(f[m - 1], log[m]) ELSE f[m - 1]
      BY <1>3, <2>4, <3>1 DEF IsKept
    <3>4. f[m] = KeptOf(m, start, end)
      BY <3>1, <3>2, <3>3, KeptStep
    <3>5. QED
      BY <2>2, <3>4
  <2>5. QED
    BY <2>3, <2>4
<1>5. QED
  BY <1>1, <1>3, <1>4

\* What is exported is a stretch of the log that begins where it was asked to.
LEMMA RangeIsStretch ==
  ASSUME LogFits, NEW start \in Nat, NEW end \in Nat, InRange(start, end) # <<>>
  PROVE  \E b : Stretch(InRange(start, end), start + 1, b)
<1>1. PICK z \in Nat : z = KeptSize(Len(log), start, end)
  BY DEF KeptSize, LogFits, IsSeq
<1>2. InRange(start, end) = [k \in 1..z |-> log[start + k]]
  BY <1>1, InRangeIs DEF KeptOf
<1>3. z # 0
  BY <1>2
<1>4. /\ start + 1 \in 1..Len(log) /\ start + z \in (start + 1)..Len(log)
      /\ start + z - (start + 1) + 1 = z
  <2>1. PICK n \in Nat : n = Len(log)
    BY DEF LogFits, IsSeq
  <2>2. z >= 1 /\ start + z <= n
    BY <1>1, <1>3, <2>1 DEF KeptSize
  <2>3. QED
    BY <2>1, <2>2
<1>5. \A k \in 1..z : (start + 1) + k - 1 = start + k
  BY <1>1
<1>6. InRange(start, end) = [k \in 1..z |-> log[(start + 1) + k - 1]]
  BY <1>2, <1>5
<1>7. Stretch(InRange(start, end), start + 1, start + z)
  BY <1>4, <1>6 DEF Stretch
<1>8. QED
  BY <1>7

\* The head before a range is the hash its first event names.
LEMMA HeadBefore ==
  ASSUME LogFits, NEW start \in Nat, start + 1 \in 1..Len(log)
  PROVE  FindHashBefore(log, start) = PreviousHash(log, start + 1)
<1> DEFINE prev == {i \in DOMAIN log : log[i].sequence = start - 1}
<1>1. DOMAIN log = 1..Len(log) /\ Len(log) \in Nat
  BY DEF LogFits, IsSeq
<1>2. CASE start = 0
  BY <1>2 DEF FindHashBefore, PreviousHash
<1>3. CASE start # 0
  <2>1. start \in 1..Len(log) /\ start + 1 # 1 /\ start + 1 - 1 = start
    BY <1>1, <1>3
  <2>2. \A i \in 1..Len(log) : log[i].sequence = start - 1 <=> i = start
    <3>1. SUFFICES ASSUME NEW i \in 1..Len(log)
                   PROVE  log[i].sequence = start - 1 <=> i = start
      OBVIOUS
    <3>2. log[i].sequence = i - 1
      BY RecordedIs
    <3>3. i - 1 = start - 1 <=> i = start
      BY <1>1
    <3>4. QED
      BY <3>2, <3>3
  <2>3. prev = {start}
    BY <1>1, <2>1, <2>2
  <2>4. (CHOOSE i \in prev : TRUE) = start
    BY <2>3
  <2>5. FindHashBefore(log, start) = log[start].event_hash
    BY <1>3, <2>3, <2>4 DEF FindHashBefore
  <2>6. QED
    BY <2>1, <2>5 DEF PreviousHash
<1>4. QED
  BY <1>2, <1>3

-----------------------------------------------------------------------------
(* Receipts *)

\* The receipts of the first n events, each naming the one before.
IsV02Receipts(f, n, events, prov, key) ==
  f = [i \in 1..n |->
         GenerateReceiptV02(events[i], IF i = 1 THEN NoHash ELSE f[i - 1].receipt_hash, prov, key)]

\* There is such a chain of receipts for any number of events.
LEMMA V02ReceiptsExist ==
  ASSUME NEW events, NEW prov, NEW key
  PROVE  \A n \in Nat : \E f : IsV02Receipts(f, n, events, prov, key)
<1> DEFINE T == {n \in Nat : ~\E f : IsV02Receipts(f, n, events, prov, key)}
<1>1. SUFFICES ASSUME T # {} PROVE FALSE
  OBVIOUS
<1>2. PICK m \in T : \A n \in T : m <= n
  BY <1>1, Smallest
<1>3. CASE m = 0
  <2>1. IsV02Receipts(<<>>, 0, events, prov, key)
    BY DEF IsV02Receipts
  <2>2. QED
    BY <1>2, <1>3, <2>1
<1>4. CASE m # 0
  <2>1. m \in Nat /\ m - 1 \in Nat /\ m - 1 \notin T
    BY <1>2, <1>4
  <2>2. PICK f : IsV02Receipts(f, m - 1, events, prov, key)
    BY <2>1
  <2> DEFINE last == GenerateReceiptV02(events[m], IF m = 1 THEN NoHash ELSE f[m - 1].receipt_hash,
                                        prov, key)
             g == [i \in 1..m |-> IF i = m THEN last ELSE f[i]]
  <2>3. ASSUME NEW i \in 1..m
        PROVE  g[i] = GenerateReceiptV02(events[i],
                        IF i = 1 THEN NoHash ELSE g[i - 1].receipt_hash, prov, key)
    <3>1. i # 1 => i - 1 \in 1..m /\ i - 1 # m
      BY <2>1
    <3>2. i # 1 => g[i - 1] = f[i - 1]
      BY <3>1
    <3>3. CASE i = m
      BY <3>2, <3>3
    <3>4. CASE i # m
      <4>1. i \in 1..(m - 1) /\ g[i] = f[i]
        BY <2>1, <3>4
      <4>2. f[i] = GenerateReceiptV02(events[i],
                     IF i = 1 THEN NoHash ELSE f[i - 1].receipt_hash, prov, key)
        BY <2>2, <4>1 DEF IsV02Receipts
      <4>3. QED
        BY <3>2, <4>1, <4>2
    <3>5. QED
      BY <3>3, <3>4
  <2> HIDE DEF last
  <2>4. IsV02Receipts(g, m, events, prov, key)
    BY <2>3, Zenon DEF IsV02Receipts
  <2>5. QED
    BY <1>2, <2>4
<1>5. QED
  BY <1>3, <1>4

\* Each event gets a receipt, whatever the chain of receipts is.
LEMMA V02ReceiptsAre ==
  ASSUME NEW events, NEW prov, NEW key, IsSeq(events)
  PROVE  LET rs == GenerateV02Receipts(events, prov, key)
         IN /\ rs = [i \in 1..Len(events) |-> rs[i]]
            /\ \A i \in 1..Len(events) :
                 \E h : rs[i] = GenerateReceiptV02(events[i], h, prov, key)
<1> DEFINE rs == GenerateV02Receipts(events, prov, key)
<1>1. rs = CHOOSE f : IsV02Receipts(f, Len(events), events, prov, key)
  BY Zenon DEF GenerateV02Receipts, IsV02Receipts
<1>2. Len(events) \in Nat
  BY DEF IsSeq
<1>3. IsV02Receipts(rs, Len(events), events, prov, key)
  BY <1>1, <1>2, V02ReceiptsExist
<1> HIDE DEF rs
<1>4. \A i \in 1..Len(events) :
        rs[i] = GenerateReceiptV02(events[i], IF i = 1 THEN NoHash ELSE rs[i - 1].receipt_hash, prov, key)
  BY <1>3, Zenon DEF IsV02Receipts
<1>5. rs = [i \in 1..Len(events) |-> rs[i]]
  BY <1>3 DEF IsV02Receipts
<1>6. QED
  BY <1>4, <1>5, Zenon DEF rs

DraftFields ==
  {"schema_version", "receipt_id", "witness_event_id", "chain_segment_id",
   "policy_decision_hash", "classified_intent_hash", "execution_result_hash", "outcome"}
V02Fields ==
  V01Fields \cup {"prev_hash", "artifact_digest", "attestation_digest", "signature"}

\* What a receipt says of its event.
Says(r, ev) ==
  /\ r.receipt_id = ev.receipt_id /\ r.witness_event_id = ev.event_id
  /\ r.chain_segment_id = ev.chain_segment_id /\ r.outcome = ev.outcome
  /\ r.policy_decision_hash = Hash(ev.policy_decision)
  /\ r.classified_intent_hash = Hash(ev.classified_intent)
  /\ r.execution_result_hash = HashOrNull(ev.execution_result)

IsV01(r, ev) ==
  /\ DOMAIN r = V01Fields /\ r = [f \in V01Fields |-> r[f]]
  /\ r.schema_version = "v0.1" /\ Says(r, ev) /\ VerifySelfHash(r)

IsV02(r, ev, key, artifactDigest, attestationDigest) ==
  /\ DOMAIN r = V02Fields /\ r = [f \in V02Fields |-> r[f]]
  /\ r.schema_version = "v0.2" /\ Says(r, ev) /\ VerifyReceiptV02(r, key)
  /\ r.artifact_digest = artifactDigest /\ r.attestation_digest = attestationDigest

\* A v0.1 receipt is a draft with its hash.
LEMMA V01FieldsAre == V01Fields = DraftFields \cup {"receipt_hash"}
BY DEF V01Fields, DraftFields

\* A receipt of the first version.
LEMMA V01Is == \A ev : IsV01(GenerateReceipt(ev), ev)
<1> SUFFICES ASSUME NEW ev PROVE IsV01(GenerateReceipt(ev), ev)
  OBVIOUS
<1> DEFINE d == ReceiptDraft(ev, "v0.1")
           r == GenerateReceipt(ev)
<1>1. DOMAIN d = DraftFields /\ d = [f \in DOMAIN d |-> d[f]] /\ Says(d, ev) /\ d.schema_version = "v0.1"
  BY DEF ReceiptDraft, DraftFields, Says
<1>2. r = [f \in V01Fields |-> IF f = "receipt_hash" THEN Hash(d) ELSE d[f]]
  BY <1>1, V01FieldsAre DEF GenerateReceipt, Plus
<1> HIDE DEF d, r
<1>3. DOMAIN r = V01Fields /\ r = [f \in V01Fields |-> r[f]]
  BY <1>2
<1>4. \A f \in DraftFields : r[f] = d[f]
  BY <1>2 DEF DraftFields, V01Fields
<1>5. r.schema_version = "v0.1" /\ Says(r, ev)
  BY <1>1, <1>4 DEF Says, DraftFields
<1>6. Without(r, {"receipt_hash"}) = d
  <2>1. DOMAIN r \ {"receipt_hash"} = DraftFields
    BY <1>3 DEF V01Fields, DraftFields
  <2>2. QED
    BY <1>1, <1>4, <2>1 DEF Without
<1>7. r.receipt_hash = Hash(d)
  BY <1>2 DEF V01Fields
<1>8. QED
  BY <1>3, <1>5, <1>6, <1>7 DEF IsV01, VerifySelfHash, r

\* A signed receipt.
LEMMA V02Is ==
  \A ev, h, prov, key :
    IsV02(GenerateReceiptV02(ev, h, prov, key), ev, key, prov.artifact_digest, prov.attestation_digest)
<1> SUFFICES ASSUME NEW ev, NEW h, NEW prov, NEW key
             PROVE  IsV02(GenerateReceiptV02(ev, h, prov, key), ev, key,
                          prov.artifact_digest, prov.attestation_digest)
  OBVIOUS
<1> DEFINE d0 == ReceiptDraft(ev, "v0.2")
           d1 == Plus(d0, "prev_hash", h)
           d2 == Plus(d1, "artifact_digest", prov.artifact_digest)
           d == Plus(d2, "attestation_digest", prov.attestation_digest)
           S == [by |-> key, over |-> d]
           p == Plus(d, "receipt_hash", Hash(d))
           r == GenerateReceiptV02(ev, h, prov, key)
           F == DraftFields \cup {"prev_hash", "artifact_digest", "attestation_digest"}
<1>1. DOMAIN d0 = DraftFields /\ Says(d0, ev) /\ d0.schema_version = "v0.2"
  BY DEF ReceiptDraft, DraftFields, Says
<1>2. /\ DOMAIN d1 = DraftFields \cup {"prev_hash"}
      /\ \A f \in DraftFields : d1[f] = d0[f]
  BY <1>1 DEF Plus, DraftFields
<1>3. /\ DOMAIN d2 = DraftFields \cup {"prev_hash", "artifact_digest"}
      /\ \A f \in DraftFields : d2[f] = d0[f]
      /\ d2.artifact_digest = prov.artifact_digest
  BY <1>2 DEF Plus, DraftFields
<1>4. /\ DOMAIN d = F /\ d = [f \in F |-> d[f]]
      /\ \A f \in DraftFields : d[f] = d0[f]
      /\ d.artifact_digest = prov.artifact_digest
      /\ d.attestation_digest = prov.attestation_digest
  BY <1>3 DEF Plus, DraftFields
<1>5. r = Plus(p, "signature", S)
  BY Zenon DEF GenerateReceiptV02, SignReceiptV02
<1> HIDE DEF d0, d1, d2, d, S, r, p
<1>6. /\ DOMAIN p = F \cup {"receipt_hash"} /\ p.receipt_hash = Hash(d)
      /\ \A f \in F : p[f] = d[f]
  BY <1>4 DEF Plus, p, DraftFields
<1>7. /\ DOMAIN r = F \cup {"receipt_hash", "signature"} /\ r.receipt_hash = Hash(d)
      /\ r.signature = S /\ \A f \in F : r[f] = d[f]
      /\ r = [f \in DOMAIN r |-> r[f]]
  BY <1>5, <1>6 DEF Plus, DraftFields
<1>8. DOMAIN r = V02Fields
  BY <1>7, V01FieldsAre DEF V02Fields
<1>9. SigningPreImage(r) = d
  <2>1. DOMAIN r \ {"signature", "receipt_hash"} = F
    BY <1>7 DEF DraftFields
  <2>2. QED
    BY <1>4, <1>7, <2>1 DEF SigningPreImage, Without
<1>10. VerifyReceiptV02(r, key)
  BY <1>7, <1>9 DEF VerifyReceiptV02, S
<1>11. /\ r.schema_version = "v0.2" /\ Says(r, ev)
       /\ r.artifact_digest = prov.artifact_digest /\ r.attestation_digest = prov.attestation_digest
  <2>1. \A f \in DraftFields : r[f] = d0[f]
    BY <1>4, <1>7
  <2>2. r.artifact_digest = d.artifact_digest /\ r.attestation_digest = d.attestation_digest
    BY <1>7
  <2>3. QED
    BY <1>1, <1>4, <2>1, <2>2 DEF Says, DraftFields
<1>12. r = [f \in V02Fields |-> r[f]]
  BY <1>7, <1>8
<1>13. QED
  BY <1>8, <1>10, <1>11, <1>12 DEF IsV02, r

\* What an edit leaves of a receipt.
EditKeeps(e, r, f) ==
  /\ DOMAIN e = DOMAIN r \cup {f} /\ e = [g \in DOMAIN e |-> e[g]]
  /\ \A g \in DOMAIN r \ {f, "receipt_hash"} : e[g] = r[g]
  /\ f # "receipt_hash" => e[f] = AlteredValue(f)

\* The fields of an edited receipt.
LEMMA EditedIs ==
  ASSUME NEW r, "receipt_hash" \in DOMAIN r, NEW f, NEW rehash \in BOOLEAN
  PROVE  EditKeeps(EditedReceipt(r, f, rehash), r, f)
<1> DEFINE a == Plus(r, f, AlteredValue(f))
           e == EditedReceipt(r, f, rehash)
<1>1. /\ DOMAIN a = DOMAIN r \cup {f} /\ a = [g \in DOMAIN a |-> a[g]] /\ a[f] = AlteredValue(f)
      /\ \A g \in DOMAIN r \ {f} : a[g] = r[g]
  BY DEF Plus
<1>2. CASE ~rehash
  <2>1. e = a
    BY <1>2 DEF EditedReceipt
  <2> HIDE DEF a, e
  <2>2. EditKeeps(a, r, f)
    BY <1>1 DEF EditKeeps
  <2>3. QED
    BY <2>1, <2>2 DEF e
<1>3. CASE rehash
  <2>1. \E x : e = [a EXCEPT !.receipt_hash = x]
    BY <1>3, Zenon DEF EditedReceipt
  <2>2. PICK x : e = [a EXCEPT !.receipt_hash = x]
    BY <2>1
  <2> HIDE DEF a, e
  <2>3. DOMAIN e = DOMAIN a /\ e = [g \in DOMAIN e |-> e[g]]
    BY <1>1, <2>2
  <2>4. \A g \in DOMAIN a \ {"receipt_hash"} : e[g] = a[g]
    BY <1>1, <2>2
  <2>5. EditKeeps(e, r, f)
    BY <1>1, <2>3, <2>4 DEF EditKeeps
  <2>6. QED
    BY <2>5 DEF e
<1>4. QED
  BY <1>2, <1>3

\* A signed receipt that was edited verifies under no key, unless nothing changed.
LEMMA NoForgery ==
  ASSUME NEW r, r = [g \in DOMAIN r |-> r[g]], NEW signed, VerifyReceiptV02(r, signed),
         NEW f, NEW rehash \in BOOLEAN, NEW key,
         {"signature", "receipt_hash"} \subseteq DOMAIN r,
         VerifyReceiptV02(EditedReceipt(r, f, rehash), key)
  PROVE  EditedReceipt(r, f, rehash) = r /\ key = signed
<1> DEFINE e == EditedReceipt(r, f, rehash)
<1>1. /\ DOMAIN e = DOMAIN r \cup {f} /\ e = [g \in DOMAIN e |-> e[g]]
      /\ \A g \in DOMAIN r \ {f, "receipt_hash"} : e[g] = r[g]
      /\ f # "receipt_hash" => e[f] = AlteredValue(f)
  <2>1. "receipt_hash" \in DOMAIN r
    OBVIOUS
  <2>2. EditKeeps(e, r, f)
    BY <2>1, EditedIs
  <2> HIDE DEF e
  <2>3. QED
    BY <2>2 DEF EditKeeps
<1>2. e.signature = [by |-> key, over |-> SigningPreImage(e)]
      /\ e.receipt_hash = Hash(SigningPreImage(e))
  BY DEF VerifyReceiptV02
<1>3. r.signature = [by |-> signed, over |-> SigningPreImage(r)]
      /\ r.receipt_hash = Hash(SigningPreImage(r))
  BY DEF VerifyReceiptV02
<1> HIDE DEF e
<1>4. f # "signature"
  <2>1. AlteredValue("signature") = Junk
    BY DEF AlteredValue
  <2>2. Junk # [by |-> key, over |-> SigningPreImage(e)]
    BY DEF Junk
  <2>3. QED
    BY <1>1, <1>2, <2>1, <2>2
<1>5. e.signature = r.signature
  BY <1>1, <1>4
<1>6. key = signed /\ SigningPreImage(e) = SigningPreImage(r)
  BY <1>2, <1>3, <1>5
<1>7. e.receipt_hash = r.receipt_hash
  BY <1>2, <1>3, <1>6
<1>8. \A g \in DOMAIN r \ {"signature", "receipt_hash"} : e[g] = r[g]
  BY <1>1, <1>6 DEF SigningPreImage, Without
<1> DEFINE sealed == {"signature", "receipt_hash"}
<1>11. DOMAIN e \ sealed = DOMAIN r \ sealed
  <2>1. DOMAIN SigningPreImage(e) = DOMAIN e \ sealed /\ DOMAIN SigningPreImage(r) = DOMAIN r \ sealed
    BY DEF SigningPreImage, Without
  <2>2. QED
    BY <1>6, <2>1
<1>12. DOMAIN e = DOMAIN r
  BY <1>1, <1>11
<1>9. e = r
  <2>1. \A g \in DOMAIN r : e[g] = r[g]
    BY <1>5, <1>7, <1>8
  <2>2. QED
    BY <1>1, <1>12, <2>1
<1>10. QED
  BY <1>6, <1>9 DEF e

-----------------------------------------------------------------------------
(* What is written out, and what one change makes of it *)

\* A receipt of an event, of either version; a signed one says whose and of what.
ReceiptBy(r, ev, key) ==
  \/ IsV01(r, ev)
  \/ /\ key \in Signers
     /\ \E attestation \in Attestations : IsV02(r, ev, key, 1, Hash(attestation))

ReceiptOf(r, ev) == ReceiptBy(r, ev, signer)

PackageFields ==
  {"kind", "chain_segment_id", "start_sequence", "end_sequence", "chain_head_before_range",
   "chain_head_after_range", "events", "receipts"}

\* A package is a stretch of the log between the right heads, with a receipt of
\* each of its events.
PackageOf(file, a, b) ==
  /\ file.kind = "package"
  /\ DOMAIN file = PackageFields /\ file = [f \in PackageFields |-> file[f]]
  /\ Stretch(file.events, a, b)
  /\ file.chain_head_before_range = PreviousHash(log, a)
  /\ file.chain_head_after_range = log[b].event_hash
  /\ file.receipts = [i \in 1..Len(file.events) |-> file.receipts[i]]
  /\ \A i \in 1..Len(file.events) : ReceiptOf(file.receipts[i], file.events[i])

ChainOf(file, b) ==
  /\ file.kind = "chain" /\ file = [kind |-> "chain", events |-> file.events]
  /\ Stretch(file.events, 1, b)

ReceiptAlone(file, i) ==
  /\ file.kind = "receipt" /\ file = [kind |-> "receipt", receipt |-> file.receipt]
  /\ ReceiptOf(file.receipt, log[i])

Issued(file) ==
  \/ file = NoArtifact
  \/ \E a, b \in 1..Len(log) : PackageOf(file, a, b)
  \/ \E b \in 1..Len(log) : ChainOf(file, b)
  \/ \E i \in 1..Len(log) : ReceiptAlone(file, i)

\* An entry left out, repeated, or swapped with the next one.
Rearranged(now, was) ==
  \E i \in DOMAIN was :
    \/ now = RemoveAt(was, i) \/ now = InsertAt(was, i, was[i])
    \/ i < Len(was) /\ now = Swapped(was, i)

\* Whatever was made of one event.
EventEdited(now, was) == \E i \in DOMAIN was : \E e : now = [was EXCEPT ![i] = e]

\* What was made of a receipt.
Edited(now, was) == \E f : \E rehash \in BOOLEAN : now = EditedReceipt(was, f, rehash)

ReceiptEdited(now, was) ==
  \E i \in DOMAIN was : \E r : Edited(r, was[i]) /\ now = [was EXCEPT ![i] = r]

EventsChanged(now, was) ==
  /\ was.kind \in {"package", "chain"} /\ now.kind = was.kind
  /\ now = [was EXCEPT !.events = now.events]
  /\ Rearranged(now.events, was.events) \/ EventEdited(now.events, was.events)

ReceiptsChanged(now, was) ==
  /\ was.kind = "package" /\ now.kind = "package"
  /\ now = [was EXCEPT !.receipts = now.receipts]
  /\ Rearranged(now.receipts, was.receipts) \/ ReceiptEdited(now.receipts, was.receipts)

FieldChanged(now, was) ==
  /\ was.kind = "package"
  /\ \E f \in PackageFields \ {"kind", "events", "receipts"} : now = [was EXCEPT ![f] = AlteredValue(f)]

ReceiptChanged(now, was) ==
  /\ was.kind = "receipt"
  /\ \E r : Edited(r, was.receipt) /\ now = [was EXCEPT !.receipt = r]

OneChange(now, was) ==
  \/ EventsChanged(now, was) \/ ReceiptsChanged(now, was)
  \/ FieldChanged(now, was) \/ ReceiptChanged(now, was)
  \/ now = [kind |-> "unrecognized"]

\* The inductive invariant: the log is what was recorded, what was written out
\* was cut from it, and the file is that, but for one change.
EInv ==
  /\ LogFits
  /\ signer \in Signers \cup {NoKey}
  /\ Issued(issued)
  /\ artifact = issued \/ (issued # NoArtifact /\ OneChange(artifact, issued))

\* What was written out stays cut from the log as the log grows.
LEMMA RecordKeepsIssued ==
  ASSUME LogFits, NEW outcome \in Outcomes, Record(outcome), Issued(issued)
  PROVE  Issued(issued)'
<1>1. /\ LogFits' /\ Len(log') = Len(log) + 1 /\ Len(log) \in Nat
      /\ \A i \in 1..Len(log) : log'[i] = log[i]
  BY RecordKeepsLog DEF LogFits, IsSeq
<1>2. issued' = issued /\ signer' = signer
  BY DEF Record
<1>3. \A r, ev : ReceiptOf(r, ev) => ReceiptOf(r, ev)'
  BY <1>2 DEF ReceiptOf, ReceiptBy
<1>4. 1..Len(log) \subseteq 1..Len(log') /\ Len(log) <= Len(log')
  BY <1>1
<1>5. \A events, a, b : Stretch(events, a, b) =>
        Stretch(events, a, b)' /\ PreviousHash(log, a)' = PreviousHash(log, a)
  <2>1. SUFFICES ASSUME NEW events, NEW a, NEW b, Stretch(events, a, b)
                 PROVE  Stretch(events, a, b)' /\ PreviousHash(log, a)' = PreviousHash(log, a)
    OBVIOUS
  <2>2. /\ events = [k \in 1..(b - a + 1) |-> log'[a + k - 1]]
        /\ a \in 1..Len(log') /\ b \in a..Len(log')
        /\ PreviousHash(log', a) = PreviousHash(log, a)
    BY <1>1, <1>4, <2>1, StretchStays
  <2>3. QED
    BY <2>2 DEF Stretch, PreviousHash
<1>6. CASE issued = NoArtifact
  BY <1>2, <1>6 DEF Issued
<1>7. ASSUME NEW a \in 1..Len(log), NEW b \in 1..Len(log), PackageOf(issued, a, b)
      PROVE  Issued(issued)'
  <2>1. Stretch(issued.events, a, b)' /\ PreviousHash(log, a)' = PreviousHash(log, a)
    BY <1>2, <1>5, <1>7 DEF PackageOf
  <2>2. log'[b] = log[b]
    BY <1>1
  <2>3. \A i \in 1..Len(issued.events) : ReceiptOf(issued.receipts[i], issued.events[i])'
    BY <1>2, <1>3, <1>7 DEF PackageOf
  <2>4. PackageOf(issued, a, b)'
    BY <1>2, <1>7, <2>1, <2>2, <2>3 DEF PackageOf
  <2>5. QED
    BY <1>4, <2>4 DEF Issued
<1>8. ASSUME NEW b \in 1..Len(log), ChainOf(issued, b)
      PROVE  Issued(issued)'
  <2>1. ChainOf(issued, b)'
    BY <1>2, <1>5, <1>8 DEF ChainOf
  <2>2. QED
    BY <1>4, <2>1 DEF Issued
<1>9. ASSUME NEW i \in 1..Len(log), ReceiptAlone(issued, i)
      PROVE  Issued(issued)'
  <2>1. ReceiptAlone(issued, i)'
    BY <1>1, <1>2, <1>3, <1>9 DEF ReceiptAlone
  <2>2. QED
    BY <1>4, <2>1 DEF Issued
<1>10. QED
  BY <1>6, <1>7, <1>8, <1>9 DEF Issued

\* A package as it is exported.
LEMMA ExportFits ==
  ASSUME EInv, NEW start \in 0..MaxEvents, NEW end \in 0..MaxEvents, NEW receipts,
         ExportEvidencePackage(start, end, receipts), UNCHANGED log,
         signer' \in Signers \cup {NoKey},
         LET events == InRange(start, end)
         IN /\ receipts = [i \in 1..Len(events) |-> receipts[i]]
            /\ \A i \in 1..Len(events) : ReceiptBy(receipts[i], events[i], signer')
  PROVE  EInv'
<1> DEFINE events == InRange(start, end)
<1>1. LogFits /\ start \in Nat /\ end \in Nat /\ events # <<>>
  BY EvidenceAssumption DEF EInv, ExportEvidencePackage
<1>2. PICK b : Stretch(events, start + 1, b)
  BY <1>1, RangeIsStretch
<1>3. /\ Last(events) = log[b] /\ start + 1 \in 1..Len(log) /\ b \in 1..Len(log)
  BY <1>1, <1>2, StretchIs DEF Stretch
<1>4. FindHashBefore(log, start) = PreviousHash(log, start + 1)
  BY <1>1, <1>3, HeadBefore
<1> HIDE DEF events
<1>5. artifact' = [kind |-> "package", chain_segment_id |-> Head(events).chain_segment_id,
                   start_sequence |-> start, end_sequence |-> end,
                   chain_head_before_range |-> PreviousHash(log, start + 1),
                   chain_head_after_range |-> log[b].event_hash,
                   events |-> events, receipts |-> receipts]
      /\ issued' = artifact'
  BY <1>3, <1>4 DEF ExportEvidencePackage, events
<1>6. /\ issued'.kind = "package" /\ issued'.events = events /\ issued'.receipts = receipts
      /\ DOMAIN issued' = PackageFields /\ issued' = [f \in PackageFields |-> issued'[f]]
      /\ issued'.chain_head_before_range = PreviousHash(log, start + 1)
      /\ issued'.chain_head_after_range = log[b].event_hash
  BY <1>5 DEF PackageFields
<1>7. log' = log
  OBVIOUS
<1>8. PackageOf(issued, start + 1, b)'
  <2>1. Stretch(issued.events, start + 1, b)' /\ PreviousHash(log, start + 1)' = PreviousHash(log, start + 1)
    BY <1>2, <1>6, <1>7 DEF Stretch, PreviousHash, events
  <2>2. issued'.receipts = [i \in 1..Len(issued'.events) |-> issued'.receipts[i]]
    BY <1>6 DEF events
  <2>3. \A i \in 1..Len(issued'.events) : ReceiptOf(issued.receipts[i], issued.events[i])'
    BY <1>6 DEF events, ReceiptOf, ReceiptBy
  <2>4. QED
    BY <1>6, <1>7, <2>1, <2>2, <2>3 DEF PackageOf
<1>9. LogFits'
  BY <1>1, <1>7 DEF LogFits, Recorded, PreviousHash
<1>10. Issued(issued)'
  BY <1>3, <1>7, <1>8 DEF Issued
<1>11. QED
  BY <1>5, <1>9, <1>10 DEF EInv

\* A package with receipts of the first version.
LEMMA ExportV01Fits == ASSUME EInv, ExportV01 PROVE EInv'
<1>1. PICK start \in 0..MaxEvents, end \in 0..MaxEvents :
        ExportEvidencePackage(start, end, [i \in DOMAIN InRange(start, end) |->
                                             GenerateReceipt(InRange(start, end)[i])])
  BY DEF ExportV01
<1> DEFINE events == InRange(start, end)
           receipts == [i \in DOMAIN events |-> GenerateReceipt(events[i])]
<1>2. LogFits /\ start \in Nat /\ end \in Nat /\ events # <<>>
  BY <1>1, EvidenceAssumption DEF EInv, ExportEvidencePackage
<1>3. IsSeq(events)
  BY <1>2, RangeIsStretch, StretchIs
<1> HIDE DEF events
<1>4. DOMAIN events = 1..Len(events)
  BY <1>3 DEF IsSeq
<1>5. /\ receipts = [i \in 1..Len(events) |-> receipts[i]]
      /\ \A i \in 1..Len(events) : IsV01(receipts[i], events[i])
  BY <1>4, V01Is
<1> HIDE DEF receipts
<1>6. \A i \in 1..Len(events) : ReceiptBy(receipts[i], events[i], signer')
  BY <1>5 DEF ReceiptBy
<1>7. ExportEvidencePackage(start, end, receipts) /\ UNCHANGED log /\ signer' \in Signers \cup {NoKey}
  BY <1>1 DEF ExportV01, EInv, receipts, events
<1>8. QED
  BY <1>5, <1>6, <1>7, ExportFits DEF events

\* A package with signed receipts.
LEMMA ExportV02Fits ==
  ASSUME EInv, NEW key \in Signers, NEW attestation \in Attestations, ExportV02(key, attestation)
  PROVE  EInv'
<1> DEFINE prov == [artifact_digest |-> 1, attestation_digest |-> Hash(attestation)]
<1>1. PICK start \in 0..MaxEvents, end \in 0..MaxEvents :
        ExportEvidencePackage(start, end, GenerateV02Receipts(InRange(start, end), prov, key))
  BY DEF ExportV02
<1> DEFINE events == InRange(start, end)
           receipts == GenerateV02Receipts(events, prov, key)
<1>2. LogFits /\ start \in Nat /\ end \in Nat /\ events # <<>>
  BY <1>1, EvidenceAssumption DEF EInv, ExportEvidencePackage
<1>3. IsSeq(events)
  BY <1>2, RangeIsStretch, StretchIs
<1>4. prov.artifact_digest = 1 /\ prov.attestation_digest = Hash(attestation)
  OBVIOUS
<1>5. signer' = key /\ log' = log
  BY DEF ExportV02
<1> HIDE DEF events, prov
<1>7. /\ receipts = [i \in 1..Len(events) |-> receipts[i]]
      /\ \A i \in 1..Len(events) : IsV02(receipts[i], events[i], key, 1, Hash(attestation))
  BY <1>3, <1>4, V02ReceiptsAre, V02Is
<1> HIDE DEF receipts
<1>9. \A i \in 1..Len(events) : ReceiptBy(receipts[i], events[i], signer')
  BY <1>5, <1>7 DEF ReceiptBy
<1>10. ExportEvidencePackage(start, end, receipts) /\ UNCHANGED log /\ signer' \in Signers \cup {NoKey}
  BY <1>1, <1>5 DEF receipts, events, prov
<1>11. QED
  BY <1>7, <1>9, <1>10, ExportFits DEF events

\* The log's own file.
LEMMA CopyChainFits == ASSUME EInv, CopyChain PROVE EInv'
<1>1. /\ log' = log /\ signer' = signer /\ log # <<>> /\ LogFits /\ artifact' = issued'
      /\ issued' = [kind |-> "chain", events |-> log]
  BY DEF CopyChain, EInv
<1>2. Len(log) \in Nat /\ log = [i \in 1..Len(log) |-> log[i]] /\ Len(log) # 0
  BY <1>1, SeqIs DEF LogFits, IsSeq
<1>3. \A k \in 1..Len(log) : 1 + k - 1 = k
  BY <1>2
<1>4. Len(log) - 1 + 1 = Len(log) /\ Len(log) \in 1..Len(log) /\ 1 \in 1..Len(log)
  BY <1>2
<1>5. log = [k \in 1..(Len(log) - 1 + 1) |-> log[1 + k - 1]]
  BY <1>2, <1>3, <1>4
<1>6. Stretch(log, 1, Len(log))
  BY <1>4, <1>5, <1>2 DEF Stretch
<1>7. ChainOf(issued, Len(log))'
  BY <1>1, <1>6 DEF ChainOf, Stretch
<1>8. Issued(issued)'
  BY <1>1, <1>4, <1>7 DEF Issued
<1>9. LogFits'
  BY <1>1 DEF LogFits, Recorded, PreviousHash
<1>10. QED
  BY <1>1, <1>8, <1>9 DEF EInv

\* A receipt by itself.
LEMMA TakeReceiptFits ==
  ASSUME EInv, NEW r, TakeReceipt(r), NEW i \in 1..Len(log), ReceiptOf(r, log[i])
  PROVE  EInv'
<1>1. /\ log' = log /\ signer' = signer /\ LogFits /\ artifact' = issued'
      /\ issued' = [kind |-> "receipt", receipt |-> r]
  BY DEF TakeReceipt, EInv
<1>2. ReceiptAlone(issued, i)'
  BY <1>1 DEF ReceiptAlone, ReceiptOf, ReceiptBy
<1>3. Issued(issued)'
  BY <1>1, <1>2 DEF Issued
<1>4. LogFits'
  BY <1>1 DEF LogFits, Recorded, PreviousHash
<1>5. QED
  BY <1>1, <1>3, <1>4 DEF EInv

\* The receipt of an event of the log.
LEMMA TakeReceiptOfLogFits == ASSUME EInv, TakeReceiptOfLog PROVE EInv'
<1>1. PICK i \in DOMAIN log : TakeReceipt(GenerateReceipt(log[i]))
  BY DEF TakeReceiptOfLog
<1>2. i \in 1..Len(log)
  BY <1>1 DEF EInv, LogFits, IsSeq
<1>3. ReceiptOf(GenerateReceipt(log[i]), log[i])
  BY V01Is DEF ReceiptOf, ReceiptBy
<1>4. QED
  BY <1>1, <1>2, <1>3, TakeReceiptFits

\* Whose receipts a package that was written out has.
LEMMA PackageReceipts ==
  ASSUME LogFits, NEW file, NEW a, NEW b, PackageOf(file, a, b)
  PROVE  /\ DOMAIN file.receipts = 1..Len(file.events) /\ DOMAIN file.events = 1..Len(file.events)
         /\ IsSeq(file.receipts) /\ Len(file.receipts) = Len(file.events)
         /\ \A i \in 1..Len(file.events) :
              /\ a + i - 1 \in 1..Len(log) /\ file.events[i] = log[a + i - 1]
              /\ ReceiptOf(file.receipts[i], log[a + i - 1])
<1>1. /\ IsSeq(file.events)
      /\ \A i \in 1..Len(file.events) : a + i - 1 \in 1..Len(log) /\ file.events[i] = log[a + i - 1]
  <2>1. Stretch(file.events, a, b)
    BY DEF PackageOf
  <2>2. QED
    BY <2>1, StretchAt
<1>2. file.receipts = [i \in 1..Len(file.events) |-> file.receipts[i]]
  BY DEF PackageOf
<1>3. IsSeq(file.receipts) /\ Len(file.receipts) = Len(file.events)
  <2> DEFINE n == Len(file.events)
             s == file.receipts
  <2>1. n \in Nat
    BY <1>1 DEF IsSeq
  <2>2. s = [i \in 1..n |-> s[i]]
    BY <1>2
  <2> HIDE DEF n, s
  <2>3. s \in [1..n -> {s[i] : i \in 1..n}]
    BY <2>2
  <2>4. s \in Seq({s[i] : i \in 1..n}) /\ Len(s) = n
    BY <2>1, <2>3, LenProperties
  <2>5. QED
    BY <2>4, SeqIs DEF n, s
<1>4. DOMAIN file.receipts = 1..Len(file.events) /\ DOMAIN file.events = 1..Len(file.events)
  BY <1>1, <1>2 DEF IsSeq
<1>5. QED
  BY <1>1, <1>3, <1>4 DEF PackageOf

\* A receipt of a package.
LEMMA TakeReceiptOfPackageFits == ASSUME EInv, TakeReceiptOfPackage PROVE EInv'
<1>1. PICK i \in DOMAIN artifact.receipts : TakeReceipt(artifact.receipts[i])
  BY DEF TakeReceiptOfPackage
<1>2. artifact = issued /\ issued.kind = "package"
  BY <1>1 DEF TakeReceipt, TakeReceiptOfPackage
<1>3. PICK a \in 1..Len(log), b \in 1..Len(log) : PackageOf(issued, a, b)
  BY <1>2 DEF EInv, Issued, NoArtifact, ChainOf, ReceiptAlone
<1>4. a + i - 1 \in 1..Len(log) /\ ReceiptOf(artifact.receipts[i], log[a + i - 1])
  BY <1>2, <1>3, PackageReceipts DEF EInv
<1>5. QED
  BY <1>1, <1>4, TakeReceiptFits

\* What fits the log, and what is issued, depend on nothing but the log, the file
\* issued and the signer.
LEMMA IssuedStays ==
  ASSUME LogFits, Issued(issued), UNCHANGED <<log, issued, signer>>
  PROVE  LogFits' /\ Issued(issued)'
<1>1. LogFits'
  BY DEF LogFits, Recorded, PreviousHash
<1>2. \A r, ev : ReceiptOf(r, ev)' <=> ReceiptOf(r, ev)
  BY DEF ReceiptOf, ReceiptBy
<1>3. \A events, a, b : Stretch(events, a, b)' <=> Stretch(events, a, b)
  BY DEF Stretch
<1>4. \A a : PreviousHash(log, a)' = PreviousHash(log, a)
  BY DEF PreviousHash
<1>5. \A a, b : PackageOf(issued, a, b) => PackageOf(issued, a, b)'
  BY <1>2, <1>3, <1>4 DEF PackageOf
<1>6. \A b : ChainOf(issued, b) => ChainOf(issued, b)'
  BY <1>3 DEF ChainOf
<1>7. \A i : ReceiptAlone(issued, i) => ReceiptAlone(issued, i)'
  BY <1>2 DEF ReceiptAlone
<1>8. Issued(issued)'
  BY <1>5, <1>6, <1>7 DEF Issued
<1>9. QED
  BY <1>1, <1>8

\* One change at most.
LEMMA AlterFits == ASSUME EInv, Alter PROVE EInv'
<1>1. artifact = issued /\ UNCHANGED <<log, issued, signer>>
  BY DEF Alter, AlterFile, AlterEvent, DropDefault, AlterReceipt, AlterReceiptAlone, Rearrange
<1>2. issued # NoArtifact
  BY <1>1 DEF Alter, NoArtifact
<1>3. OneChange(artifact', artifact)
  <2>1. /\ artifact.kind \in {"package", "chain"} => {"kind", "events"} \subseteq DOMAIN artifact
        /\ artifact.kind = "package" => {"kind", "receipts"} \subseteq DOMAIN artifact
    <3>1. CASE \E a, b \in 1..Len(log) : PackageOf(issued, a, b)
      BY <1>1, <3>1 DEF PackageOf, PackageFields
    <3>2. CASE \E b \in 1..Len(log) : ChainOf(issued, b)
      <4>1. issued.kind = "chain" /\ issued = [kind |-> "chain", events |-> issued.events]
        BY <3>2 DEF ChainOf
      <4>2. DOMAIN issued = {"kind", "events"}
        BY <4>1
      <4>3. QED
        BY <1>1, <4>1, <4>2
    <3>3. CASE \E i \in 1..Len(log) : ReceiptAlone(issued, i)
      BY <1>1, <3>3 DEF ReceiptAlone
    <3>4. QED
      BY <1>2, <3>1, <3>2, <3>3 DEF EInv, Issued
  <2>2. ASSUME artifact.kind \in {"package", "chain"}, NEW i \in DOMAIN artifact.events,
               Rearrange("events", i)
        PROVE  OneChange(artifact', artifact)
    <3>1. PICK events : artifact' = [artifact EXCEPT !.events = events] /\ Rearranged(events, artifact.events)
      BY <2>2 DEF Rearrange, AlterFile, Rearranged
    <3>2. artifact'.events = events /\ artifact'.kind = artifact.kind
      BY <2>2, <2>1, <3>1
    <3>3. QED
      BY <2>2, <3>1, <3>2 DEF OneChange, EventsChanged
  <2>3. ASSUME artifact.kind \in {"package", "chain"}, NEW i \in DOMAIN artifact.events,
               \/ DropDefault(i)
               \/ \E f \in DOMAIN artifact.events[i] \cup {"unknown"}, rehash \in BOOLEAN :
                    AlterEvent(i, f, rehash)
        PROVE  OneChange(artifact', artifact)
    <3>1. PICK events : artifact' = [artifact EXCEPT !.events = events] /\ EventEdited(events, artifact.events)
      <4>1. PICK e : artifact' = [artifact EXCEPT !.events[i] = e]
        BY <2>3 DEF DropDefault, AlterEvent, AlterFile
      <4>2. QED
        BY <2>3, <4>1 DEF EventEdited
    <3>3. artifact'.events = events /\ artifact'.kind = artifact.kind
      BY <2>3, <2>1, <3>1
    <3>4. QED
      BY <2>3, <3>1, <3>3 DEF OneChange, EventsChanged
  <2>4. ASSUME artifact.kind = "package", NEW i \in DOMAIN artifact.receipts,
               Rearrange("receipts", i)
        PROVE  OneChange(artifact', artifact)
    <3>1. PICK receipts : artifact' = [artifact EXCEPT !.receipts = receipts] /\ Rearranged(receipts, artifact.receipts)
      BY <2>4 DEF Rearrange, AlterFile, Rearranged
    <3>2. artifact'.receipts = receipts /\ artifact'.kind = artifact.kind
      BY <2>4, <2>1, <3>1
    <3>3. QED
      BY <2>4, <3>1, <3>2 DEF OneChange, ReceiptsChanged
  <2>5. ASSUME artifact.kind = "package", NEW i \in DOMAIN artifact.receipts,
               NEW f, NEW rehash \in BOOLEAN, AlterReceipt(i, f, rehash)
        PROVE  OneChange(artifact', artifact)
    <3> DEFINE r == EditedReceipt(artifact.receipts[i], f, rehash)
               receipts == [artifact.receipts EXCEPT ![i] = r]
    <3>1. artifact' = [artifact EXCEPT !.receipts = receipts]
      BY <2>5 DEF AlterReceipt, AlterFile
    <3>2. ReceiptEdited(receipts, artifact.receipts)
      <4>1. Edited(r, artifact.receipts[i])
        BY DEF Edited
      <4>2. QED
        BY <2>5, <4>1 DEF ReceiptEdited
    <3> HIDE DEF receipts
    <3>3. artifact'.receipts = receipts /\ artifact'.kind = artifact.kind
      BY <2>5, <2>1, <3>1
    <3>4. QED
      BY <2>5, <3>1, <3>2, <3>3 DEF OneChange, ReceiptsChanged
  <2>6. ASSUME artifact.kind = "package", NEW f \in DOMAIN artifact \ {"kind", "events", "receipts"},
               AlterFile([artifact EXCEPT ![f] = AlteredValue(f)])
        PROVE  OneChange(artifact', artifact)
    <3>1. DOMAIN artifact = PackageFields
      BY <1>1, <2>6 DEF EInv, Issued, NoArtifact, PackageOf, ChainOf, ReceiptAlone
    <3>2. QED
      BY <2>6, <3>1 DEF AlterFile, OneChange, FieldChanged
  <2>7. ASSUME artifact.kind = "receipt", NEW f, NEW rehash \in BOOLEAN,
               AlterReceiptAlone(f, rehash)
        PROVE  OneChange(artifact', artifact)
    <3> DEFINE r == EditedReceipt(artifact.receipt, f, rehash)
    <3>1. artifact' = [artifact EXCEPT !.receipt = r]
      BY <2>7 DEF AlterReceiptAlone, AlterFile
    <3>2. Edited(r, artifact.receipt)
      BY DEF Edited
    <3>3. QED
      BY <2>7, <3>1, <3>2 DEF OneChange, ReceiptChanged
  <2>8. ASSUME AlterFile([kind |-> "unrecognized"])
        PROVE  OneChange(artifact', artifact)
    BY <2>8 DEF AlterFile, OneChange
  <2>9. QED
    BY <2>2, <2>3, <2>4, <2>5, <2>6, <2>7, <2>8 DEF Alter
<1>4. LogFits' /\ Issued(issued)'
  BY <1>1, IssuedStays DEF EInv
<1>5. QED
  BY <1>1, <1>2, <1>3, <1>4 DEF EInv

\* The inductive invariant holds.
THEOREM EvidenceInvariance == Spec => []EInv
<1>1. Init => EInv
  <2>1. ASSUME Init PROVE EInv
    <3>1. log = <<>> /\ Len(log) = 0 /\ MaxEvents \in Nat
      BY <2>1, EvidenceAssumption DEF Init
    <3>2. LogFits
      BY <3>1 DEF LogFits, IsSeq
    <3>3. QED
      BY <2>1, <3>2 DEF Init, EInv, Issued
  <2>2. QED
    BY <2>1
<1>2. EInv /\ [Next]_vars => EInv'
  <2>1. SUFFICES ASSUME EInv, [Next]_vars PROVE EInv'
    OBVIOUS
  <2>2. ASSUME NEW outcome \in Outcomes, Record(outcome) PROVE EInv'
    <3>1. LogFits /\ Issued(issued)
      BY <2>1 DEF EInv
    <3>2. LogFits' /\ Issued(issued)'
      BY <2>2, <3>1, RecordKeepsLog, RecordKeepsIssued
    <3>3. UNCHANGED <<artifact, issued, signer>>
      BY <2>2 DEF Record
    <3>4. QED
      BY <2>1, <3>2, <3>3 DEF EInv
  <2>3. CASE UNCHANGED vars
    <3>1. UNCHANGED <<log, artifact, issued, signer>>
      BY <2>3 DEF vars
    <3>2. LogFits' /\ Issued(issued)'
      BY <2>1, <3>1, IssuedStays DEF EInv
    <3>3. QED
      BY <2>1, <3>1, <3>2 DEF EInv
  <2>4. QED
    BY <2>1, <2>2, <2>3, ExportV01Fits, ExportV02Fits, CopyChainFits, TakeReceiptOfLogFits,
       TakeReceiptOfPackageFits, AlterFits DEF Next
<1>3. QED
  BY <1>1, <1>2, PTL DEF Spec

\* A receipt that was written out by itself.
LEMMA AloneIs ==
  ASSUME EInv, artifact # NoArtifact, artifact.kind = "receipt"
  PROVE  /\ issued.kind = "receipt" /\ issued = [kind |-> "receipt", receipt |-> issued.receipt]
         /\ \E i \in 1..Len(log) : ReceiptOf(issued.receipt, log[i])
         /\ \/ artifact = issued
            \/ \E r : Edited(r, issued.receipt) /\ artifact = [issued EXCEPT !.receipt = r]
<1>1. issued.kind = "receipt"
  <2>1. CASE artifact = issued
    BY <2>1
  <2>2. CASE EventsChanged(artifact, issued) \/ ReceiptsChanged(artifact, issued)
    BY <2>2 DEF EventsChanged, ReceiptsChanged
  <2>3. CASE FieldChanged(artifact, issued)
    <3>1. PICK f \in PackageFields \ {"kind", "events", "receipts"} :
            artifact = [issued EXCEPT ![f] = AlteredValue(f)]
      BY <2>3 DEF FieldChanged
    <3>2. artifact.kind = issued.kind
      BY <3>1
    <3>3. QED
      BY <3>2
  <2>4. CASE ReceiptChanged(artifact, issued)
    BY <2>4 DEF ReceiptChanged
  <2>5. CASE artifact = [kind |-> "unrecognized"]
    BY <2>5
  <2>6. QED
    BY <2>1, <2>2, <2>3, <2>4, <2>5 DEF EInv, OneChange
<1>2. PICK i \in 1..Len(log) : ReceiptAlone(issued, i)
  BY <1>1 DEF EInv, Issued, NoArtifact, PackageOf, ChainOf
<1>3. artifact # issued => ReceiptChanged(artifact, issued)
  BY <1>1 DEF EInv, OneChange, EventsChanged, ReceiptsChanged, FieldChanged
<1>4. QED
  BY <1>1, <1>2, <1>3 DEF ReceiptAlone, ReceiptChanged

\* An edit leaves a receipt's version alone or makes it an unknown one.
LEMMA VersionEdited ==
  ASSUME NEW r, r = [g \in DOMAIN r |-> r[g]], "schema_version" \in DOMAIN r,
         "receipt_hash" \in DOMAIN r, NEW f, NEW rehash \in BOOLEAN
  PROVE  EditedReceipt(r, f, rehash).schema_version \in {r.schema_version, "altered"}
<1> DEFINE e == EditedReceipt(r, f, rehash)
<1>5. EditKeeps(e, r, f)
  BY EditedIs
<1> HIDE DEF e
<1>1. AlteredValue("schema_version") = "altered"
  BY DEF AlteredValue
<1>2. CASE f = "schema_version"
  <2>1. e[f] = AlteredValue(f)
    BY <1>2, <1>5 DEF EditKeeps
  <2>2. QED
    BY <1>1, <1>2, <2>1 DEF e
<1>3. CASE f # "schema_version"
  <2>1. "schema_version" \in DOMAIN r \ {f, "receipt_hash"}
    BY <1>3
  <2>2. e["schema_version"] = r["schema_version"]
    BY <1>5, <2>1 DEF EditKeeps
  <2>3. QED
    BY <2>2 DEF e
<1>4. QED
  BY <1>2, <1>3

\* A signed receipt that verifies is as it was issued, and by its signer's key.
LEMMA SignedIsIssued ==
  ASSUME NEW was, NEW ev, ReceiptOf(was, ev), NEW r,
         r = was \/ Edited(r, was),
         r.schema_version = "v0.2", NEW key, VerifyReceiptV02(r, key)
  PROVE  r = was /\ key = signer
<1>1. CASE IsV01(was, ev)
  <2>1. /\ was = [g \in DOMAIN was |-> was[g]] /\ {"schema_version", "receipt_hash"} \subseteq DOMAIN was
        /\ was.schema_version = "v0.1"
    BY <1>1 DEF IsV01, V01Fields
  <2>2. QED
    BY <2>1, VersionEdited DEF Edited
<1>2. CASE \E attestation \in Attestations : IsV02(was, ev, signer, 1, Hash(attestation))
  <2>1. /\ was = [g \in DOMAIN was |-> was[g]] /\ VerifyReceiptV02(was, signer)
        /\ {"signature", "receipt_hash"} \subseteq DOMAIN was
    BY <1>2 DEF IsV02, V02Fields, V01Fields
  <2>2. CASE r = was
    BY <2>1, <2>2 DEF VerifyReceiptV02
  <2>3. CASE r # was
    BY <2>1, <2>3, NoForgery DEF Edited
  <2>4. QED
    BY <2>2, <2>3
<1>3. QED
  BY <1>1, <1>2 DEF ReceiptOf, ReceiptBy

\* A receipt by itself that verifies as a signed one is as it was issued.
LEMMA SignedAlone ==
  ASSUME EInv, artifact # NoArtifact, artifact.kind = "receipt",
         artifact.receipt.schema_version = "v0.2", NEW key, VerifyReceiptV02(artifact.receipt, key)
  PROVE  artifact = issued /\ key = signer
<1>1. PICK i \in 1..Len(log) : ReceiptOf(issued.receipt, log[i])
  BY AloneIs
<1>2. /\ issued = [kind |-> "receipt", receipt |-> issued.receipt]
      /\ \/ artifact = issued
         \/ \E r : Edited(r, issued.receipt) /\ artifact = [issued EXCEPT !.receipt = r]
  BY AloneIs
<1>3. /\ artifact = [issued EXCEPT !.receipt = artifact.receipt]
      /\ artifact.receipt = issued.receipt \/ Edited(artifact.receipt, issued.receipt)
  BY <1>2
<1>4. artifact.receipt = issued.receipt /\ key = signer
  BY <1>1, <1>3, SignedIsIssued
<1>5. QED
  BY <1>2, <1>3, <1>4

\* Provenance is only ever said of a receipt as it was issued, and of the
\* attestation it names.
THEOREM ProvenanceIsBound == Spec => []ProvenanceBinds
<1>1. EInv => ProvenanceBinds
  <2>1. SUFFICES ASSUME EInv, artifact # NoArtifact,
                        NEW key \in KeyArgs, NEW builder \in KeyArgs,
                        NEW attestation \in Attestations \cup {NotGiven, NoFile},
                        RunVerify(artifact, [checkProvenance |-> TRUE, publicKey |-> key,
                                             builderKey |-> builder, attestation |-> attestation]) = 0
                 PROVE  /\ artifact.kind = "receipt" /\ Unaltered /\ key = signer
                        /\ attestation \in Attestations
                        /\ Hash(attestation) = issued.receipt.attestation_digest
                        /\ (IF builder = NoKey THEN signer ELSE builder) \in attestation.signers
                        /\ attestation.subjects[1] = issued.receipt.artifact_digest
    BY DEF ProvenanceBinds
  <2> DEFINE args == [checkProvenance |-> TRUE, publicKey |-> key,
                      builderKey |-> builder, attestation |-> attestation]
  <2>2. /\ args.checkProvenance /\ args.publicKey = key /\ args.builderKey = builder
        /\ args.attestation = attestation
    OBVIOUS
  <2> HIDE DEF args
  <2>3. VerifyArtifact(artifact, key) /\ RunProvenanceCheck(artifact, args) = 0
    BY <2>1, <2>2 DEF RunVerify, args
  <2> DEFINE builderKey == IF builder = NoKey THEN key ELSE builder
  <2>4. /\ attestation # NotGiven /\ attestation # NoFile
        /\ artifact.kind = "receipt" /\ artifact.receipt.schema_version = "v0.2"
        /\ CheckProvenance(attestation, artifact.receipt, builderKey)
    BY <2>2, <2>3 DEF RunProvenanceCheck
  <2>5. VerifyReceiptV02(artifact.receipt, key)
    BY <2>3, <2>4 DEF VerifyArtifact
  <2>6. artifact = issued /\ key = signer
    BY <2>1, <2>4, <2>5, SignedAlone
  <2>7. attestation \in Attestations
    BY <2>4
  <2>8. attestation.subjects \in Seq(Nat) /\ attestation.subjects # <<>>
    BY <2>4, <2>7, AttestationAssumption DEF CheckProvenance
  <2>9. Head(attestation.subjects) = attestation.subjects[1]
    BY <2>8
  <2>10. QED
    BY <2>1, <2>4, <2>6, <2>7, <2>9 DEF CheckProvenance, Unaltered
<1>2. QED
  BY <1>1, EvidenceInvariance, PTL

-----------------------------------------------------------------------------
(* Chains that verify *)

Formed(e) == DOMAIN e = EventFields /\ e = [f \in EventFields |-> e[f]]

AllFormed(events) == IsSeq(events) /\ \A i \in 1..Len(events) : Formed(events[i])

\* A chain verifies when nothing is wrong with any of its events.
LEMMA ValidChain ==
  ASSUME NEW events, NEW before
  PROVE  VerifyChain(events, before).valid <=>
           \A i \in DOMAIN events :
             /\ events[i].previous_event_hash = (IF i = 1 THEN before ELSE events[i - 1].event_hash)
             /\ VerifyEventHash(events[i])
             /\ i > 1 => events[i].sequence = events[i - 1].sequence + 1
<1> DEFINE broken == {i \in DOMAIN events : BreakAt(events, before, i) # "none"}
<1>1. VerifyChain(events, before).valid <=> broken = {}
  <2>1. CASE broken = {}
    BY <2>1 DEF VerifyChain, Verdict
  <2>2. CASE broken # {}
    BY <2>2 DEF VerifyChain, Verdict
  <2>3. QED
    BY <2>1, <2>2
<1>2. \A i \in DOMAIN events :
        BreakAt(events, before, i) = "none" <=>
          /\ events[i].previous_event_hash = (IF i = 1 THEN before ELSE events[i - 1].event_hash)
          /\ VerifyEventHash(events[i])
          /\ i > 1 => events[i].sequence = events[i - 1].sequence + 1
  BY Zenon DEF BreakAt
<1>3. QED
  BY <1>1, <1>2

\* Any chain that verifies between two heads of the log is the log between them.
LEMMA VerifiedIsStretch ==
  ASSUME LogFits, NEW a \in 1..Len(log), NEW b \in 1..Len(log),
         NEW events, AllFormed(events), events # <<>>,
         VerifyChain(events, PreviousHash(log, a)).valid,
         Last(events).event_hash = log[b].event_hash
  PROVE  Stretch(events, a, b)
<1> DEFINE m == Len(events)
<1>1. /\ m \in Nat /\ m # 0 /\ DOMAIN events = 1..m /\ events = [i \in 1..m |-> events[i]]
      /\ \A i \in 1..m : Formed(events[i])
  BY SeqIs DEF AllFormed, IsSeq
<1>2. \A i \in 1..m :
        /\ events[i].previous_event_hash = (IF i = 1 THEN PreviousHash(log, a) ELSE events[i - 1].event_hash)
        /\ VerifyEventHash(events[i])
  BY <1>1, ValidChain
<1>3. events[m].event_hash = log[b].event_hash
  BY DEF Last
<1>4. a \in Nat /\ b \in Nat /\ a >= 1 /\ b >= 1 /\ Len(log) \in Nat /\ a <= Len(log) /\ b <= Len(log)
  BY DEF LogFits, IsSeq
<1> HIDE DEF m
<1>5. ASSUME NEW i \in 1..m, NEW j \in 1..Len(log), events[i].event_hash = log[j].event_hash
      PROVE  events[i] = log[j]
  <2>1. /\ VerifyEventHash(events[i]) /\ Formed(events[i])
        /\ VerifyEventHash(log[j]) /\ Formed(log[j])
    BY <1>1, <1>2, RecordedIs DEF Formed
  <2>2. QED
    BY <1>5, <2>1, SameHash DEF Formed, EventFields
<1>6. \A k \in Nat : k < m => k < b /\ events[m - k] = log[b - k]
  <2> DEFINE T == {k \in Nat : k < m /\ ~(k < b /\ events[m - k] = log[b - k])}
  <2>1. SUFFICES ASSUME T # {} PROVE FALSE
    OBVIOUS
  <2>2. PICK k \in T : \A n \in T : k <= n
    BY <2>1, Smallest
  <2>3. CASE k = 0
    <3>1. m - 0 = m /\ b - 0 = b /\ m \in 1..m
      BY <1>1, <1>4
    <3>2. events[m] = log[b]
      BY <1>3, <1>5, <3>1
    <3>3. QED
      BY <1>4, <2>2, <2>3, <3>1, <3>2
  <2>4. CASE k # 0
    <3>1. k - 1 \in Nat /\ k - 1 < m /\ k - 1 \notin T /\ k \in Nat /\ k < m
      <4>1. k \in Nat /\ k < m
        BY <2>2
      <4>2. k - 1 \in Nat /\ k - 1 < m /\ ~(k <= k - 1)
        BY <1>1, <2>4, <4>1
      <4>3. QED
        BY <2>2, <4>1, <4>2
    <3>2. k - 1 < b /\ events[m - (k - 1)] = log[b - (k - 1)]
      BY <3>1
    <3> DEFINE i == m - (k - 1)
               j == b - (k - 1)
    <3>3. /\ i \in 1..m /\ i # 1 /\ i - 1 = m - k /\ m - k \in 1..m
          /\ j \in 1..Len(log) /\ j - 1 = b - k /\ (j # 1 => b - k \in 1..Len(log) /\ k < b)
      <4>1. m \in Nat /\ b \in Nat /\ k \in Nat /\ k # 0 /\ k < m /\ k - 1 < b /\ b <= Len(log)
            /\ Len(log) \in Nat
        BY <1>1, <1>4, <2>4, <3>1, <3>2
      <4> HIDE DEF T
      <4>2. i \in 1..m /\ i # 1 /\ i - 1 = m - k /\ m - k \in 1..m
        BY <4>1
      <4>3. j \in 1..Len(log) /\ j - 1 = b - k /\ (j # 1 => b - k \in 1..Len(log) /\ k < b)
        BY <4>1
      <4>4. QED
        BY <4>2, <4>3
    <3> HIDE DEF i, j
    <3>4. /\ events[i].previous_event_hash = events[m - k].event_hash
          /\ events[i] = log[j] /\ VerifyEventHash(events[m - k])
      BY <1>2, <3>2, <3>3 DEF i, j
    <3>5. log[j].previous_event_hash = PreviousHash(log, j)
      BY <3>3, RecordedIs
    <3>6. j # 1
      <4>1. events[m - k].event_hash # NoHash
        BY <3>4, HashesDiffer DEF VerifyEventHash
      <4>2. QED
        BY <3>4, <3>5, <4>1 DEF PreviousHash
    <3>7. events[m - k].event_hash = log[b - k].event_hash
      BY <3>3, <3>4, <3>5, <3>6 DEF PreviousHash
    <3>8. events[m - k] = log[b - k] /\ k < b
      BY <1>5, <3>3, <3>6, <3>7
    <3>9. QED
      BY <2>2, <3>8
  <2>5. QED
    BY <2>3, <2>4
<1>7. m <= b
  <2>1. m - 1 \in Nat /\ m - 1 < m
    BY <1>1
  <2>2. m - 1 < b
    BY <1>6, <2>1
  <2>3. QED
    BY <1>1, <1>4, <2>2
<1>8. \A i \in 1..m : events[i] = log[b - m + i]
  <2>1. SUFFICES ASSUME NEW i \in 1..m PROVE events[i] = log[b - m + i]
    OBVIOUS
  <2>2. m - i \in Nat /\ m - i < m /\ m - (m - i) = i /\ b - (m - i) = b - m + i
    BY <1>1, <1>4
  <2>3. QED
    BY <1>6, <2>2
<1> DEFINE c == b - m + 1
<1>9. c \in 1..Len(log) /\ c \in Nat
  BY <1>1, <1>4, <1>7
<1>10. PreviousHash(log, c) = PreviousHash(log, a)
  <2>1. 1 \in 1..m
    BY <1>1
  <2>2. events[1] = log[c]
    BY <1>8, <2>1
  <2>3. events[1].previous_event_hash = PreviousHash(log, a)
    BY <1>2, <2>1
  <2>4. log[c].previous_event_hash = PreviousHash(log, c)
    BY <1>9, RecordedIs
  <2>5. QED
    BY <2>2, <2>3, <2>4
<1> HIDE DEF c
<1>11. c = a
  <2>1. \A i \in 2..Len(log) : /\ i - 1 \in 1..Len(log)
                               /\ PreviousHash(log, i) = log[i - 1].event_hash
                               /\ PreviousHash(log, i) # NoHash
    <3>1. SUFFICES ASSUME NEW i \in 2..Len(log)
                   PROVE  /\ i - 1 \in 1..Len(log)
                          /\ PreviousHash(log, i) = log[i - 1].event_hash
                          /\ PreviousHash(log, i) # NoHash
      OBVIOUS
    <3>2. i - 1 \in 1..Len(log) /\ i # 1
      BY <1>4
    <3>3. log[i - 1].event_hash # NoHash
      BY <3>2, RecordedIs
    <3>4. QED
      BY <3>2, <3>3 DEF PreviousHash
  <2>2. PreviousHash(log, 1) = NoHash
    BY DEF PreviousHash
  <2>3. CASE a = 1 \/ c = 1
    <3>1. a # 1 => a \in 2..Len(log)
      BY <1>4
    <3>2. c # 1 => c \in 2..Len(log)
      BY <1>4, <1>9
    <3>3. QED
      BY <1>10, <2>1, <2>2, <2>3, <3>1, <3>2
  <2>4. CASE a # 1 /\ c # 1
    <3>1. a \in 2..Len(log) /\ c \in 2..Len(log)
      BY <1>4, <1>9, <2>4
    <3>2. log[a - 1].event_hash = log[c - 1].event_hash
      BY <1>10, <2>1, <3>1
    <3>3. a - 1 = c - 1
      BY <2>1, <3>1, <3>2, RecordedOnce
    <3>4. QED
      BY <1>4, <1>9, <3>3
  <2>5. QED
    BY <2>3, <2>4
<1>12. /\ m = b - a + 1 /\ b \in a..Len(log)
       /\ \A k \in 1..m : b - m + k = a + k - 1
  BY <1>1, <1>4, <1>7, <1>11 DEF c
<1>13. events = [k \in 1..(b - a + 1) |-> log[a + k - 1]]
  BY <1>1, <1>8, <1>12
<1>14. QED
  BY <1>12, <1>13 DEF Stretch

\* The largest of some places of a sequence.
LEMMA Largest ==
  ASSUME NEW n \in Nat, NEW T \in SUBSET (1..n), T # {}
  PROVE  \E m \in T : \A i \in T : m >= i
<1> DEFINE K == {k \in Nat : \E i \in T : k = n - i}
<1>1. PICK k \in K : \A j \in K : k <= j
  <2>1. PICK i \in T : TRUE
    OBVIOUS
  <2>2. n - i \in K
    BY <2>1
  <2>3. QED
    BY <2>2, Smallest
<1>2. PICK m \in T : k = n - m
  BY <1>1
<1>3. \A i \in T : n - m <= n - i
  <2>1. \A i \in T : n - i \in K
    OBVIOUS
  <2>2. QED
    BY <1>1, <1>2, <2>1
<1>4. \A i \in T : m >= i
  BY <1>2, <1>3
<1>5. QED
  BY <1>2, <1>4

Companion(events, id) == SelectLastInSeq(events, LAMBDA e : e.event_id = id)

\* The companion of a receipt is an event with the id it names, if there is one.
LEMMA CompanionIs ==
  ASSUME NEW events, IsSeq(events), NEW id
  PROVE  /\ Companion(events, id) # 0 =>
              /\ Companion(events, id) \in 1..Len(events)
              /\ events[Companion(events, id)].event_id = id
         /\ \A i \in 1..Len(events) :
              events[i].event_id = id => Companion(events, id) # 0
<1> DEFINE I == {i \in 1..Len(events) : events[i].event_id = id}
<1>1. Companion(events, id) = IF I # {} THEN Max(I) ELSE 0
  BY DEF Companion, SelectLastInSeq
<1>2. CASE I = {}
  BY <1>1, <1>2
<1>3. CASE I # {}
  <2>1. Len(events) \in Nat
    BY DEF IsSeq
  <2>2. \E m \in I : \A i \in I : m >= i
    BY <1>3, <2>1, Largest
  <2>3. Max(I) \in I
    BY <2>2 DEF Max
  <2>4. PICK c \in 1..Len(events) : c = Max(I) /\ events[c].event_id = id
    BY <2>3
  <2>5. Companion(events, id) = c /\ c # 0
    BY <1>1, <1>3, <2>1, <2>4
  <2>6. QED
    BY <2>4, <2>5
<1>4. QED
  BY <1>2, <1>3

\* Left out, repeated or swapped, the entries are the same ones.
LEMMA RearrangedSeq ==
  ASSUME NEW S, NEW was \in Seq(S), NEW now, Rearranged(now, was)
  PROVE  now \in Seq(S)
<1>1. PICK i \in 1..Len(was) :
        \/ now = RemoveAt(was, i) \/ now = InsertAt(was, i, was[i])
        \/ i < Len(was) /\ now = Swapped(was, i)
  BY DEF Rearranged
<1>2. i \in Nat /\ Len(was) \in Nat /\ was[i] \in S /\ 1 <= i /\ i <= Len(was)
  OBVIOUS
<1>3. SubSeq(was, 1, i - 1) \in Seq(S)
  <2>1. \A k \in 1..(i - 1) : was[k] \in S
    BY <1>2
  <2>2. QED
    BY <1>2, <2>1, SubSeqProperties
<1>4. SubSeq(was, i + 1, Len(was)) \in Seq(S) /\ SubSeq(was, i, Len(was)) \in Seq(S)
  <2>1. (\A k \in (i + 1)..Len(was) : was[k] \in S) /\ (\A k \in i..Len(was) : was[k] \in S)
    BY <1>2
  <2>2. QED
    BY <1>2, <2>1, SubSeqProperties
<1>5. CASE now = RemoveAt(was, i)
  BY <1>3, <1>4, <1>5, ConcatProperties DEF RemoveAt
<1>6. CASE now = InsertAt(was, i, was[i])
  <2>1. <<was[i]>> \in Seq(S)
    BY <1>2
  <2>2. SubSeq(was, 1, i - 1) \o <<was[i]>> \in Seq(S)
    BY <1>3, <2>1, ConcatProperties
  <2>3. QED
    BY <1>4, <1>6, <2>2, ConcatProperties DEF InsertAt
<1>7. CASE i < Len(was) /\ now = Swapped(was, i)
  <2>1. i + 1 \in 1..Len(was) /\ was[i + 1] \in S
    BY <1>2, <1>7
  <2>2. QED
    BY <1>2, <1>7, <2>1 DEF Swapped
<1>8. QED
  BY <1>1, <1>5, <1>6, <1>7

\* Whatever is read as an event has the shape of one, and what has it is read as
\* it is.
LEMMA ReadsFormed == \A e : Formed(ParseEvent(e)) /\ (Formed(e) => ParseEvent(e) = e)
BY DEF Formed, ParseEvent, EventFields

\* What is made of events that are read.
Parsed(events) == [i \in DOMAIN events |-> ParseEvent(events[i])]

\* Events that are as they were written are read as they are.
LEMMA ReadsAsWritten ==
  ASSUME NEW events, AllFormed(events)
  PROVE  Parsed(events) = events
<1>1. /\ DOMAIN events = 1..Len(events) /\ events = [i \in 1..Len(events) |-> events[i]]
      /\ \A i \in 1..Len(events) : ParseEvent(events[i]) = events[i]
  BY ReadsFormed DEF AllFormed, IsSeq
<1>2. QED
  BY <1>1 DEF Parsed

\* Changed in one place, a chain of events is still read as one: rearranged, or
\* with another event in one place.
LEMMA ChangedReads ==
  ASSUME NEW was, AllFormed(was), NEW now, Rearranged(now, was) \/ EventEdited(now, was)
  PROVE  /\ AllFormed(Parsed(now))
         /\ \/ Rearranged(Parsed(now), was)
            \/ \E i \in 1..Len(was) : \E e : Formed(e) /\ Parsed(now) = [was EXCEPT ![i] = e]
<1> DEFINE S == {was[i] : i \in 1..Len(was)}
<1>1. was \in Seq(S) /\ (\A e \in S : Formed(e)) /\ DOMAIN was = 1..Len(was) /\ Len(was) \in Nat
      /\ was = [k \in 1..Len(was) |-> was[k]]
  <2>1. was \in [1..Len(was) -> S] /\ Len(was) \in Nat
    BY DEF AllFormed, IsSeq
  <2>2. \A e \in S : Formed(e)
    BY DEF AllFormed
  <2> HIDE DEF S
  <2>3. QED
    BY <2>1, <2>2
<1> HIDE DEF S
<1>2. CASE Rearranged(now, was)
  <2>1. now \in Seq(S)
    BY <1>1, <1>2, RearrangedSeq
  <2>2. IsSeq(now)
    BY <2>1, SeqIs
  <2>3. \A i \in 1..Len(now) : now[i] \in S
    BY <2>1
  <2>4. AllFormed(now)
    BY <1>1, <2>2, <2>3 DEF AllFormed
  <2>5. QED
    BY <1>2, <2>4, ReadsAsWritten
<1>3. CASE EventEdited(now, was)
  <2>1. PICK i \in 1..Len(was) : \E x : now = [was EXCEPT ![i] = x]
    BY <1>1, <1>3 DEF EventEdited
  <2>2. PICK x : now = [was EXCEPT ![i] = x]
    BY <2>1
  <2> DEFINE e == ParseEvent(x)
  <2>3. Formed(e) /\ \A k \in 1..Len(was) : ParseEvent(was[k]) = was[k]
    BY ReadsFormed DEF AllFormed
  <2> HIDE DEF e
  <2>4. Parsed(now) = [was EXCEPT ![i] = e]
    <3>1. DOMAIN now = 1..Len(was) /\ \A k \in 1..Len(was) : now[k] = IF k = i THEN x ELSE was[k]
      BY <1>1, <2>2
    <3>2. \A k \in 1..Len(was) : ParseEvent(now[k]) = IF k = i THEN e ELSE was[k]
      BY <2>3, <3>1 DEF e
    <3>3. Parsed(now) = [k \in 1..Len(was) |-> IF k = i THEN e ELSE was[k]]
      BY <3>1, <3>2 DEF Parsed
    <3>4. [was EXCEPT ![i] = e] = [k \in 1..Len(was) |-> IF k = i THEN e ELSE was[k]]
      BY <1>1
    <3>5. QED
      BY <3>3, <3>4
  <2>5. Parsed(now) \in Seq(S \cup {e})
    BY <1>1, <2>4
  <2>6. IsSeq(Parsed(now))
    BY <2>5, SeqIs
  <2>7. \A k \in 1..Len(Parsed(now)) : Parsed(now)[k] \in S \cup {e}
    BY <2>5
  <2>8. AllFormed(Parsed(now))
    BY <1>1, <2>3, <2>6, <2>7 DEF AllFormed
  <2>9. QED
    BY <2>3, <2>4, <2>8
<1>4. QED
  BY <1>2, <1>3

\* What a package that is read was: one that was written out, but for one change.
LEMMA PackageIs ==
  ASSUME EInv, artifact.kind = "package"
  PROVE  /\ \E a, b \in 1..Len(log) : PackageOf(issued, a, b)
         /\ \/ artifact = issued
            \/ EventsChanged(artifact, issued)
            \/ ReceiptsChanged(artifact, issued)
            \/ FieldChanged(artifact, issued)
<1>1. artifact # issued => OneChange(artifact, issued)
  BY DEF EInv
<1>2. ~ReceiptChanged(artifact, issued)
  <2>1. SUFFICES ASSUME ReceiptChanged(artifact, issued) PROVE FALSE
    OBVIOUS
  <2>2. PICK r : artifact = [issued EXCEPT !.receipt = r]
    BY <2>1 DEF ReceiptChanged
  <2>3. artifact.kind = issued.kind
    BY <2>2
  <2>4. QED
    BY <2>1, <2>3 DEF ReceiptChanged
<1>3. artifact # [kind |-> "unrecognized"]
  OBVIOUS
<1>4. issued.kind = "package"
  BY <1>1, <1>2, <1>3 DEF OneChange, EventsChanged, ReceiptsChanged, FieldChanged
<1>5. \E a, b \in 1..Len(log) : PackageOf(issued, a, b)
  BY <1>4 DEF EInv, Issued, NoArtifact, ChainOf, ReceiptAlone
<1>6. QED
  BY <1>1, <1>2, <1>3, <1>5 DEF OneChange

\* What a package that was written out holds.
LEMMA PackageEvents ==
  ASSUME EInv, NEW a \in 1..Len(log), NEW b \in 1..Len(log), PackageOf(issued, a, b)
  PROVE  /\ Stretch(issued.events, a, b) /\ AllFormed(issued.events)
         /\ \A i \in 1..Len(issued.events) :
              /\ a + i - 1 \in 1..Len(log) /\ issued.events[i] = log[a + i - 1]
              /\ ReceiptOf(issued.receipts[i], issued.events[i])
         /\ DOMAIN issued.receipts = 1..Len(issued.events)
         /\ DOMAIN issued.events = 1..Len(issued.events)
<1>1. LogFits /\ Stretch(issued.events, a, b)
  BY DEF EInv, PackageOf
<1>2. /\ IsSeq(issued.events)
      /\ \A i \in 1..Len(issued.events) : a + i - 1 \in 1..Len(log) /\ issued.events[i] = log[a + i - 1]
  BY <1>1, StretchAt
<1>3. \A i \in 1..Len(issued.events) : Formed(issued.events[i])
  <2>1. \A j \in 1..Len(log) : Formed(log[j])
    BY <1>1, RecordedIs DEF Formed
  <2>2. QED
    BY <1>2, <2>1
<1>4. /\ DOMAIN issued.receipts = 1..Len(issued.events)
      /\ DOMAIN issued.events = 1..Len(issued.events)
      /\ \A i \in 1..Len(issued.events) : ReceiptOf(issued.receipts[i], log[a + i - 1])
  BY <1>1, PackageReceipts
<1>5. QED
  BY <1>1, <1>2, <1>3, <1>4 DEF AllFormed

\* The events and heads of a package that verifies are those that were issued.
LEMMA EventsFaithful ==
  ASSUME EInv, artifact.kind = "package", NEW key, VerifyEvidencePackage(artifact, key)
  PROVE  /\ Events(artifact) = issued.events
         /\ artifact.chain_head_before_range = issued.chain_head_before_range
         /\ artifact.chain_head_after_range = issued.chain_head_after_range
<1>1. PICK a \in 1..Len(log), b \in 1..Len(log) : PackageOf(issued, a, b)
  BY PackageIs
<1>2. /\ DOMAIN issued = PackageFields /\ issued = [f \in PackageFields |-> issued[f]]
      /\ issued.chain_head_before_range = PreviousHash(log, a)
      /\ issued.chain_head_after_range = log[b].event_hash
      /\ Stretch(issued.events, a, b) /\ AllFormed(issued.events) /\ LogFits
  BY <1>1, PackageEvents DEF PackageOf, EInv
<1> DEFINE events == Events(artifact)
<1>3. /\ VerifyChain(events, artifact.chain_head_before_range).valid
      /\ artifact.chain_head_after_range
           = IF events = <<>> THEN NoHash ELSE Last(events).event_hash
  BY DEF VerifyEvidencePackage
<1>9. events = Parsed(artifact.events) /\ Parsed(issued.events) = issued.events
  BY <1>2, ReadsAsWritten DEF Events, Parsed
<1> HIDE DEF events
<1>4. CASE artifact = issued
  BY <1>4, <1>9 DEF events
<1>5. CASE EventsChanged(artifact, issued)
  <2>1. /\ artifact.chain_head_before_range = issued.chain_head_before_range
        /\ artifact.chain_head_after_range = issued.chain_head_after_range
    <3>1. PICK x : artifact = [issued EXCEPT !.events = x]
      BY <1>5 DEF EventsChanged
    <3>2. QED
      BY <1>2, <3>1 DEF PackageFields
  <2>2. AllFormed(events)
    BY <1>2, <1>5, <1>9, ChangedReads DEF EventsChanged
  <2>3. log[b].event_hash # NoHash
    BY <1>2, RecordedIs
  <2>4. events # <<>> /\ Last(events).event_hash = log[b].event_hash
    BY <1>2, <1>3, <2>1, <2>3
  <2>5. Stretch(events, a, b)
    BY <1>2, <1>3, <2>1, <2>2, <2>4, VerifiedIsStretch
  <2>6. events = issued.events
    BY <1>2, <2>5 DEF Stretch
  <2>7. QED
    BY <2>1, <2>6 DEF events
<1>6. CASE ReceiptsChanged(artifact, issued)
  <2>1. PICK receipts : artifact = [issued EXCEPT !.receipts = receipts]
    BY <1>6 DEF ReceiptsChanged
  <2>2. QED
    BY <1>2, <1>9, <2>1 DEF PackageFields, events
<1>7. CASE FieldChanged(artifact, issued)
  <2>1. PICK f \in PackageFields \ {"kind", "events", "receipts"} :
          artifact = [issued EXCEPT ![f] = AlteredValue(f)]
    BY <1>7 DEF FieldChanged
  <2>2. events = issued.events
    BY <1>2, <1>9, <2>1 DEF PackageFields
  <2>3. /\ Last(issued.events) = log[b] /\ issued.events # <<>> /\ Head(issued.events) = log[a]
        /\ issued.events[1] = log[a] /\ 1 \in DOMAIN issued.events
    <3>1. /\ IsSeq(issued.events) /\ Len(issued.events) \in Nat \ {0}
          /\ \A k \in 1..Len(issued.events) : issued.events[k] = log[a + k - 1]
          /\ Last(issued.events) = log[b] /\ issued.events # <<>> /\ Head(issued.events) = log[a]
          /\ a \in Nat
      <4>1. LogFits /\ Stretch(issued.events, a, b)
        BY <1>2
      <4> DEFINE kept == issued.events
      <4> HIDE DEF kept
      <4>2. LogFits /\ Stretch(kept, a, b)
        BY <4>1 DEF kept
      <4>3. /\ IsSeq(kept) /\ Len(kept) \in Nat \ {0} /\ a \in Nat
            /\ \A k \in 1..Len(kept) : kept[k] = log[a + k - 1]
            /\ Last(kept) = log[b] /\ kept # <<>> /\ Head(kept) = log[a]
        BY <4>2, StretchIs
      <4>4. QED
        BY <4>3 DEF kept
    <3>2. 1 \in 1..Len(issued.events) /\ a + 1 - 1 = a
      BY <3>1
    <3>3. QED
      BY <3>1, <3>2 DEF IsSeq
  <2>4. f # "chain_head_after_range"
    <3>1. AlteredValue("chain_head_after_range") = Junk
      BY DEF AlteredValue
    <3>2. log[b].event_hash # Junk
      BY <1>2, RecordedIs
    <3>3. artifact.chain_head_after_range = log[b].event_hash
      BY <1>3, <2>2, <2>3
    <3>4. f = "chain_head_after_range" => artifact.chain_head_after_range = Junk
      BY <1>2, <2>1, <3>1 DEF PackageFields
    <3>5. QED
      BY <3>2, <3>3, <3>4
  <2>5. f # "chain_head_before_range"
    <3>1. AlteredValue("chain_head_before_range") = Junk
      BY DEF AlteredValue
    <3>2. log[a].previous_event_hash = PreviousHash(log, a)
      BY <1>2, RecordedIs
    <3>3. artifact.chain_head_before_range = log[a].previous_event_hash
      BY <1>3, <2>2, <2>3, ValidChain
    <3>4. PreviousHash(log, a) # Junk
      <4>1. a = 1 \/ a - 1 \in 1..Len(log)
        BY <1>2 DEF LogFits, IsSeq
      <4>2. a # 1 => log[a - 1].event_hash # Junk
        BY <1>2, <4>1, RecordedIs
      <4>3. QED
        BY <4>2, HashesDiffer DEF PreviousHash
    <3>5. f = "chain_head_before_range" => artifact.chain_head_before_range = Junk
      BY <1>2, <2>1, <3>1 DEF PackageFields
    <3>6. QED
      BY <3>2, <3>3, <3>4, <3>5
  <2>6. QED
    BY <1>2, <2>1, <2>2, <2>4, <2>5 DEF PackageFields, events
<1>8. QED
  BY <1>4, <1>5, <1>6, <1>7, PackageIs

Unread == {"outcome", "chain_segment_id", "receipt_hash"}

\* An unsigned receipt that verifies says what was issued of its event.
LEMMA V01Faithful ==
  ASSUME LogFits, NEW was, NEW n \in 1..Len(log), IsV01(was, log[n]), NEW r,
         r = was \/ Edited(r, was),
         r.schema_version = "v0.1",
         NEW m \in 1..Len(log), log[m].event_id = r.witness_event_id, VerifyReceipt(ParseReceipt(r), log[m])
  PROVE  Without(ParseReceipt(r), Unread) = Without(was, Unread)
<1> DEFINE p == ParseReceipt(r)
<1>4. /\ DOMAIN was = V01Fields /\ was = [g \in V01Fields |-> was[g]]
      /\ was = [g \in DOMAIN was |-> was[g]] /\ was.schema_version = "v0.1"
  BY DEF IsV01
<1>5. DOMAIN p = V01Fields /\ \A g \in V01Fields : p[g] = r[g]
  BY DEF ParseReceipt
<1> HIDE DEF p
<1>1. CASE r = was
  BY <1>1, <1>4 DEF p, ParseReceipt
<1>2. ASSUME NEW f, NEW rehash \in BOOLEAN, r = EditedReceipt(was, f, rehash)
      PROVE  Without(p, Unread) = Without(was, Unread)
  <2>2. /\ \A g \in DOMAIN was \ {f, "receipt_hash"} : r[g] = was[g]
        /\ f # "receipt_hash" => r[f] = AlteredValue(f)
    <3>1. "receipt_hash" \in DOMAIN was
      BY <1>4 DEF V01Fields
    <3>2. QED
      <4>1. EditKeeps(r, was, f)
        BY <1>2, <3>1, EditedIs
      <4>2. QED
        BY <4>1 DEF EditKeeps
  <2>3. /\ log[m].event_id = m /\ log[m].receipt_id = m /\ log[m].execution_result \in {Absent, m}
        /\ m < Altered
    BY RecordedIs, EvidenceAssumption DEF Altered, LogFits, IsSeq
  <2>4. /\ r.witness_event_id = m /\ r.receipt_id = m
        /\ r.classified_intent_hash = Hash(log[m].classified_intent)
        /\ r.policy_decision_hash = Hash(log[m].policy_decision)
        /\ r.execution_result_hash = HashOrNull(log[m].execution_result)
    <3>1. /\ p.witness_event_id = m /\ p.receipt_id = m
          /\ p.classified_intent_hash = Hash(log[m].classified_intent)
          /\ p.policy_decision_hash = Hash(log[m].policy_decision)
          /\ p.execution_result_hash = HashOrNull(log[m].execution_result)
      BY <2>3 DEF VerifyReceipt, Describes, p
    <3>2. QED
      BY <1>5, <3>1 DEF V01Fields
  <2>5. /\ AlteredValue("witness_event_id") = Altered /\ AlteredValue("receipt_id") = Altered
        /\ AlteredValue("classified_intent_hash") = Junk
        /\ AlteredValue("policy_decision_hash") = Junk
        /\ AlteredValue("execution_result_hash") = Junk
        /\ AlteredValue("schema_version") = "altered"
    BY DEF AlteredValue
  <2>6. HashOrNull(log[m].execution_result) # Junk
    BY HashesDiffer DEF HashOrNull
  <2>7. m # Altered
    BY <2>3, EvidenceAssumption DEF LogFits, IsSeq, Altered
  <2>8. f \in V01Fields => f \in Unread
    <3>1. f \notin {"witness_event_id", "receipt_id"}
      BY <2>2, <2>4, <2>5, <2>7
    <3>2. f \notin {"classified_intent_hash", "policy_decision_hash", "execution_result_hash"}
      BY <2>2, <2>4, <2>5, <2>6, HashesDiffer
    <3>3. f # "schema_version"
      BY <2>2, <2>5
    <3>4. QED
      BY <3>1, <3>2, <3>3 DEF V01Fields, Unread
  <2>9. \A g \in V01Fields \ Unread : p[g] = was[g]
    BY <1>4, <1>5, <2>2, <2>8 DEF Unread
  <2>10. QED
    BY <1>4, <1>5, <2>9 DEF Without
<1>3. QED
  BY <1>1, <1>2 DEF p, Edited

\* An entry of a sequence that was rearranged is an entry of what it was.
LEMMA RearrangedEntry ==
  ASSUME NEW was, IsSeq(was), NEW now, Rearranged(now, was), NEW i \in DOMAIN now
  PROVE  \E j \in DOMAIN was : now[i] = was[j]
<1> DEFINE S == {was[j] : j \in 1..Len(was)}
<1>1. was \in Seq(S) /\ DOMAIN was = 1..Len(was)
  <2>1. was \in [1..Len(was) -> S] /\ Len(was) \in Nat
    BY DEF IsSeq
  <2> HIDE DEF S
  <2>2. QED
    BY <2>1
<1>2. now \in Seq(S)
  BY <1>1, RearrangedSeq
<1>3. now[i] \in S
  <2> HIDE DEF S
  <2>1. QED
    BY <1>2
<1>4. QED
  BY <1>1, <1>3

\* Every receipt of a package that is read is one that was issued, or an edited one.
LEMMA ReceiptsCome ==
  ASSUME EInv, artifact.kind = "package", NEW i \in DOMAIN artifact.receipts
  PROVE  \E j \in DOMAIN issued.receipts :
           \/ artifact.receipts[i] = issued.receipts[j]
           \/ Edited(artifact.receipts[i], issued.receipts[j])
<1>1. PICK a \in 1..Len(log), b \in 1..Len(log) : PackageOf(issued, a, b)
  BY PackageIs
<1>2. DOMAIN issued = PackageFields /\ issued = [f \in PackageFields |-> issued[f]]
  BY <1>1 DEF PackageOf
<1>3. CASE artifact = issued
  BY <1>3
<1>4. CASE EventsChanged(artifact, issued)
  <2>1. PICK events : artifact = [issued EXCEPT !.events = events]
    BY <1>4 DEF EventsChanged
  <2>2. artifact.receipts = issued.receipts
    BY <1>2, <2>1 DEF PackageFields
  <2>3. QED
    BY <2>2
<1>5. CASE FieldChanged(artifact, issued)
  <2>1. PICK f \in PackageFields \ {"kind", "events", "receipts"} :
          artifact = [issued EXCEPT ![f] = AlteredValue(f)]
    BY <1>5 DEF FieldChanged
  <2>2. artifact.receipts = issued.receipts
    BY <1>2, <2>1 DEF PackageFields
  <2>3. QED
    BY <2>2
<1>6. CASE ReceiptsChanged(artifact, issued)
  <2>1. CASE Rearranged(artifact.receipts, issued.receipts)
    <3>1. IsSeq(issued.receipts)
      BY <1>1, PackageReceipts DEF EInv
    <3>2. QED
      BY <2>1, <3>1, RearrangedEntry
  <2>2. CASE ReceiptEdited(artifact.receipts, issued.receipts)
    <3>1. PICK k \in DOMAIN issued.receipts :
            \E r : Edited(r, issued.receipts[k]) /\ artifact.receipts = [issued.receipts EXCEPT ![k] = r]
      BY <2>2 DEF ReceiptEdited
    <3>2. PICK r : Edited(r, issued.receipts[k]) /\ artifact.receipts = [issued.receipts EXCEPT ![k] = r]
      BY <3>1
    <3>3. CASE i = k
      BY <3>2, <3>3
    <3>4. CASE i # k
      BY <3>2, <3>4
    <3>5. QED
      BY <3>3, <3>4
  <2>3. QED
    BY <1>6, <2>1, <2>2 DEF ReceiptsChanged
<1>7. QED
  BY <1>3, <1>4, <1>5, <1>6, PackageIs

\* A receipt of a package that verifies was issued, or says what was issued.
LEMMA ReceiptsFaithful ==
  ASSUME EInv, artifact.kind = "package", NEW key, VerifyEvidencePackage(artifact, key),
         NEW i \in DOMAIN artifact.receipts
  PROVE  \E j \in DOMAIN issued.receipts :
           IF artifact.receipts[i].schema_version = "v0.2"
           THEN artifact.receipts[i] = issued.receipts[j] /\ key = signer
           ELSE Without(ParseReceipt(artifact.receipts[i]), Unread) = Without(issued.receipts[j], Unread)
<1> DEFINE r == artifact.receipts[i]
<1>1. PICK j \in DOMAIN issued.receipts :
        r = issued.receipts[j] \/ Edited(r, issued.receipts[j])
  BY ReceiptsCome
<1>2. PICK a \in 1..Len(log), b \in 1..Len(log) : PackageOf(issued, a, b)
  BY PackageIs
<1> DEFINE was == issued.receipts[j]
           events == issued.events
           n == a + j - 1
           c == Companion(events, r.witness_event_id)
<1>3. /\ LogFits /\ IsSeq(events) /\ DOMAIN issued.receipts = 1..Len(events)
      /\ \A k \in 1..Len(events) :
           /\ a + k - 1 \in 1..Len(log) /\ events[k] = log[a + k - 1]
           /\ ReceiptOf(issued.receipts[k], events[k])
  BY <1>2, PackageEvents DEF AllFormed, EInv
<1>4. Events(artifact) = events
  BY EventsFaithful
<1>5. VerifyPackageReceipt(r, events, key)
  BY <1>4 DEF VerifyEvidencePackage
<1> HIDE DEF r, was, events, n, c
<1>6. /\ c # 0
      /\ \/ r.schema_version = "v0.2" /\ VerifyReceiptV02(r, key)
         \/ r.schema_version = "v0.1" /\ VerifyReceipt(ParseReceipt(r), events[c])
  BY <1>5, Zenon DEF VerifyPackageReceipt, Companion, c
<1>7. n \in 1..Len(log) /\ ReceiptOf(was, log[n])
  BY <1>3 DEF n, was
<1>8. c \in 1..Len(events) /\ events[c].event_id = r.witness_event_id
  BY <1>3, <1>6, CompanionIs DEF c
<1>9. CASE r.schema_version = "v0.2"
  <2>1. r = was /\ key = signer
    BY <1>1, <1>6, <1>7, <1>9, SignedIsIssued DEF was
  <2>2. QED
    BY <1>9, <2>1 DEF r, was
<1>10. CASE r.schema_version # "v0.2"
  <2>1. r.schema_version = "v0.1" /\ VerifyReceipt(ParseReceipt(r), events[c])
    BY <1>6, <1>10
  <2>2. IsV01(was, log[n])
    <3>1. SUFFICES ASSUME \E attestation \in Attestations : IsV02(was, log[n], signer, 1, Hash(attestation))
                   PROVE  FALSE
      BY <1>7 DEF ReceiptOf, ReceiptBy
    <3>2. /\ was = [g \in DOMAIN was |-> was[g]] /\ {"schema_version", "receipt_hash"} \subseteq DOMAIN was
          /\ was.schema_version = "v0.2"
      BY <3>1 DEF IsV02, V02Fields, V01Fields
    <3>3. r.schema_version \in {"v0.2", "altered"}
      BY <1>1, <3>2, VersionEdited DEF was, Edited
    <3>4. QED
      BY <2>1, <3>3
  <2>3. PICK m \in 1..Len(log) : events[c] = log[m]
    BY <1>3, <1>8
  <2>4. Without(ParseReceipt(r), Unread) = Without(was, Unread)
    BY <1>1, <1>3, <1>7, <1>8, <2>1, <2>2, <2>3, V01Faithful DEF was
  <2>5. QED
    BY <1>10, <2>4 DEF r, was
<1>11. QED
  BY <1>9, <1>10

\* A verdict of VALID means that what was read is what was issued, as far as it
\* is looked at.
THEOREM VerdictsAreFaithful == Spec => []ValidIsFaithful
<1>1. EInv => ValidIsFaithful
  <2>1. SUFFICES ASSUME EInv, NEW key \in KeyArgs, Valid(key)
                 PROVE  /\ artifact.kind = "package" =>
                             /\ Events(artifact) = issued.events
                             /\ artifact.chain_head_before_range = issued.chain_head_before_range
                             /\ artifact.chain_head_after_range = issued.chain_head_after_range
                             /\ \A i \in DOMAIN artifact.receipts : \E j \in DOMAIN issued.receipts :
                                  IF artifact.receipts[i].schema_version = "v0.2"
                                  THEN artifact.receipts[i] = issued.receipts[j] /\ key = signer
                                  ELSE Without(ParseReceipt(artifact.receipts[i]), Unread)
                                         = Without(issued.receipts[j], Unread)
                        /\ (artifact.kind = "receipt" /\ artifact.receipt.schema_version = "v0.2") =>
                             artifact = issued /\ key = signer
    BY Zenon DEF ValidIsFaithful, Unread
  <2>2. artifact # NoArtifact /\ (artifact.kind \in {"package", "receipt"} => VerifyArtifact(artifact, key))
    BY <2>1 DEF Valid, RunVerify, Plainly
  <2>3. ASSUME artifact.kind = "package"
        PROVE  VerifyEvidencePackage(artifact, key)
    BY <2>2, <2>3 DEF VerifyArtifact
  <2>4. ASSUME artifact.kind = "receipt", artifact.receipt.schema_version = "v0.2"
        PROVE  artifact = issued /\ key = signer
    <3>1. VerifyReceiptV02(artifact.receipt, key)
      BY <2>2, <2>4 DEF VerifyArtifact
    <3>2. QED
      BY <2>1, <2>2, <2>4, <3>1, SignedAlone
  <2>5. ASSUME artifact.kind = "package"
        PROVE  /\ Events(artifact) = issued.events
               /\ artifact.chain_head_before_range = issued.chain_head_before_range
               /\ artifact.chain_head_after_range = issued.chain_head_after_range
    BY <2>1, <2>3, <2>5, EventsFaithful
  <2>6. ASSUME artifact.kind = "package", NEW i \in DOMAIN artifact.receipts
        PROVE  \E j \in DOMAIN issued.receipts :
                 IF artifact.receipts[i].schema_version = "v0.2"
                 THEN artifact.receipts[i] = issued.receipts[j] /\ key = signer
                 ELSE Without(ParseReceipt(artifact.receipts[i]), Unread) = Without(issued.receipts[j], Unread)
    BY <2>1, <2>3, <2>6, ReceiptsFaithful
  <2>7. QED
    BY <2>4, <2>5, <2>6
<1>2. QED
  BY <1>1, EvidenceInvariance, PTL

\* A stretch of the log verifies from the head before it.
LEMMA StretchVerifies ==
  ASSUME LogFits, NEW events, NEW a, NEW b, Stretch(events, a, b)
  PROVE  VerifyChain(events, PreviousHash(log, a)).valid
<1>1. /\ IsSeq(events) /\ Len(events) \in Nat /\ a \in Nat /\ a >= 1
      /\ \A k \in 1..Len(events) : a + k - 1 \in 1..Len(log) /\ events[k] = log[a + k - 1]
  BY StretchIs
<1>2. DOMAIN events = 1..Len(events)
  BY <1>1 DEF IsSeq
<1>3. ASSUME NEW i \in 1..Len(events)
      PROVE  /\ events[i].previous_event_hash
                  = (IF i = 1 THEN PreviousHash(log, a) ELSE events[i - 1].event_hash)
             /\ VerifyEventHash(events[i])
             /\ i > 1 => events[i].sequence = events[i - 1].sequence + 1
  <2> DEFINE n == a + i - 1
  <2>1. /\ n \in 1..Len(log) /\ n \in Nat /\ events[i] = log[n]
    BY <1>1
  <2>2. /\ log[n].previous_event_hash = PreviousHash(log, n) /\ log[n].sequence = n - 1
        /\ VerifyEventHash(log[n])
    BY <2>1, RecordedIs
  <2>3. CASE i = 1
    <3>1. n = a
      BY <1>1, <2>3
    <3>2. QED
      BY <2>1, <2>2, <2>3, <3>1
  <2>4. CASE i # 1
    <3>1. i - 1 \in 1..Len(events) /\ a + (i - 1) - 1 = n - 1 /\ n # 1
      BY <1>1, <2>4
    <3>2. events[i - 1] = log[n - 1] /\ n - 1 \in 1..Len(log)
      BY <1>1, <3>1
    <3>3. log[n - 1].sequence = (n - 1) - 1
      BY <3>2, RecordedIs
    <3>4. PreviousHash(log, n) = log[n - 1].event_hash
      BY <3>1 DEF PreviousHash
    <3>5. n - 1 = ((n - 1) - 1) + 1
      BY <2>1
    <3>6. QED
      BY <2>1, <2>2, <2>4, <3>2, <3>3, <3>4, <3>5
  <2>5. QED
    BY <2>3, <2>4
<1>4. QED
  BY <1>2, <1>3, ValidChain

\* The companion of a receipt of an event of a stretch is that event.
LEMMA CompanionOfStretch ==
  ASSUME LogFits, NEW events, NEW a, NEW b, Stretch(events, a, b), NEW i \in 1..Len(events)
  PROVE  Companion(events, events[i].event_id) = i
<1> DEFINE c == Companion(events, events[i].event_id)
<1>1. /\ IsSeq(events) /\ Len(events) \in Nat /\ a \in Nat
      /\ \A k \in 1..Len(events) : a + k - 1 \in 1..Len(log) /\ events[k] = log[a + k - 1]
  BY StretchIs
<1>2. \A k \in 1..Len(events) : events[k].event_id = a + k - 1
  BY <1>1, RecordedIs
<1>3. c \in 1..Len(events) /\ events[c].event_id = events[i].event_id
  BY <1>1, CompanionIs
<1>4. a + c - 1 = a + i - 1
  BY <1>2, <1>3
<1> HIDE DEF c
<1>5. c = i
  BY <1>1, <1>3, <1>4
<1>6. QED
  BY <1>5 DEF c

\* The events of a stretch of the log have the shape of events.
LEMMA StretchFormed ==
  ASSUME LogFits, NEW events, NEW a, NEW b, Stretch(events, a, b)
  PROVE  AllFormed(events)
<1>1. /\ IsSeq(events)
      /\ \A k \in 1..Len(events) : a + k - 1 \in 1..Len(log) /\ events[k] = log[a + k - 1]
  BY StretchIs
<1>2. \A n \in 1..Len(log) : Formed(log[n])
  BY RecordedIs DEF Formed
<1>3. QED
  BY <1>1, <1>2 DEF AllFormed

\* What was issued and not altered verifies under the key it was signed with.
THEOREM IssuedVerifies == Spec => []HonestVerifies
<1>1. EInv => HonestVerifies
  <2>1. SUFFICES ASSUME EInv, Unaltered PROVE Valid(signer)
    BY DEF HonestVerifies
  <2>2. /\ LogFits /\ artifact = issued /\ artifact # NoArtifact /\ Issued(issued)
        /\ signer # BadKey /\ (signer \in Signers => signer # NoKey)
    <3>1. NoKey # BadKey
      BY DEF NoKey, BadKey
    <3>2. QED
      BY <2>1, <3>1, EvidenceAssumption, KeyAssumption DEF EInv, Unaltered
  <2>3. ASSUME NEW b \in 1..Len(log), ChainOf(issued, b)
        PROVE  Valid(signer)
    <3>1. PreviousHash(log, 1) = NoHash
      BY DEF PreviousHash
    <3>2. VerifyChain(issued.events, NoHash).valid
      BY <2>2, <2>3, <3>1, StretchVerifies DEF ChainOf
    <3>4. Events(issued) = issued.events
      <4>1. AllFormed(issued.events)
        BY <2>2, <2>3, StretchFormed DEF ChainOf
      <4>2. QED
        BY <4>1, ReadsAsWritten DEF Events, Parsed
    <3>3. QED
      BY <2>2, <2>3, <3>2, <3>4 DEF ChainOf, Valid, RunVerify, RunVerifyChain, Plainly
  <2>4. ASSUME NEW n \in 1..Len(log), ReceiptAlone(issued, n)
        PROVE  Valid(signer)
    <3>1. ReceiptOf(issued.receipt, log[n]) /\ issued.kind = "receipt"
      BY <2>4 DEF ReceiptAlone
    <3>2. VerifyArtifact(issued, signer)
      <4>1. IsV01(issued.receipt, log[n]) => ParseReceipt(issued.receipt) = issued.receipt
        BY DEF IsV01, ParseReceipt
      <4>2. QED
        BY <2>2, <3>1, <4>1 DEF ReceiptOf, ReceiptBy, IsV01, IsV02, VerifyArtifact
    <3>3. QED
      BY <2>2, <3>1, <3>2 DEF Valid, RunVerify, Plainly
  <2>5. ASSUME NEW a \in 1..Len(log), NEW b \in 1..Len(log), PackageOf(issued, a, b)
        PROVE  Valid(signer)
    <3> DEFINE events == issued.events
    <3>1. /\ issued.kind = "package" /\ Stretch(events, a, b)
          /\ issued.chain_head_before_range = PreviousHash(log, a)
          /\ issued.chain_head_after_range = log[b].event_hash
          /\ DOMAIN issued.receipts = 1..Len(events)
          /\ \A i \in 1..Len(events) : ReceiptOf(issued.receipts[i], events[i])
      BY <2>1, <2>5, PackageEvents DEF PackageOf
    <3> HIDE DEF events
    <3>2. VerifyChain(events, PreviousHash(log, a)).valid
      BY <2>2, <3>1, StretchVerifies
    <3>3. Last(events) = log[b] /\ events # <<>>
      BY <2>2, <3>1, StretchIs
    <3>4. ASSUME NEW i \in 1..Len(events)
          PROVE  VerifyPackageReceipt(issued.receipts[i], events, signer)
      <4> DEFINE r == issued.receipts[i]
      <4>1. ReceiptOf(r, events[i]) /\ i # 0
        <5>1. Len(events) \in Nat
          BY <2>2, <3>1, StretchIs
        <5>2. QED
          BY <3>1, <5>1
      <4> HIDE DEF r
      <4>2. Says(r, events[i])
        BY <4>1 DEF ReceiptOf, ReceiptBy, IsV01, IsV02
      <4>3. Companion(events, r.witness_event_id) = i
        BY <2>2, <3>1, <4>2, CompanionOfStretch DEF Says
      <4>4. \/ /\ r.schema_version = "v0.2" /\ signer # NoKey
               /\ VerifyReceiptV02(r, signer)
               /\ CrossCheckAgainstEvent(r, events[i])
            \/ r.schema_version = "v0.1" /\ VerifyReceipt(ParseReceipt(r), events[i])
        <5>1. CASE IsV01(r, events[i])
          <6>1. ParseReceipt(r) = r
            BY <5>1 DEF IsV01, ParseReceipt
          <6>2. QED
            BY <4>2, <5>1, <6>1 DEF IsV01, Says, VerifyReceipt, Describes
        <5>2. CASE ~IsV01(r, events[i])
          BY <2>2, <4>1, <4>2, <5>2
             DEF ReceiptOf, ReceiptBy, IsV02, Says, CrossCheckAgainstEvent, Describes
        <5>3. QED
          BY <5>1, <5>2
      <4>5. VerifyPackageReceipt(r, events, signer)
        BY <4>1, <4>3, <4>4, Zenon DEF VerifyPackageReceipt, Companion
      <4>6. QED
        BY <4>5 DEF r
    <3>5. VerifyEvidencePackage(issued, signer)
      <4>1. Events(issued) = issued.events
        BY <2>1, <2>5, PackageEvents, ReadsAsWritten DEF Events, Parsed
      <4>2. QED
        BY <3>1, <3>2, <3>3, <3>4, <4>1 DEF VerifyEvidencePackage, events
    <3>6. QED
      BY <2>2, <3>1, <3>5 DEF Valid, RunVerify, VerifyArtifact, Plainly
  <2>6. QED
    BY <2>2, <2>3, <2>4, <2>5 DEF Issued
<1>2. QED
  BY <1>1, EvidenceInvariance, PTL

-----------------------------------------------------------------------------
(* Where tampering is found *)

\* The place of the first event that is not as recorded.
FirstDifference(events, was) ==
  LET differ == {i \in DOMAIN events : i > Len(was) \/ events[i] # was[i]}
  IN IF differ = {} THEN Len(events) + 1 ELSE Min(differ)

\* What TamperLocated says of a log.
Located(events, was) ==
  LET first == FirstDifference(events, was)
      found == DetectTampering(events, NoHash)
  IN IF found.tampered
     THEN /\ found.atIndex \in {first, first + 1}
          /\ found.kind # "linkage" =>
               /\ found.atIndex = first
               /\ found.kind = "sequence" => events[first].sequence # was[first].sequence
               /\ \A i \in DOMAIN was : i # first => i \in DOMAIN events /\ events[i] = was[i]
     ELSE \/ events \in {was, Front(was)}
          \/ Len(events) = Len(was) /\ first = Len(events)

\* The log from its beginning, as it was written out.
Beginning(was) == \E b : Stretch(was, 1, b)

Agree(events, was, p) == \A k \in 1..(p - 1) : k \in DOMAIN was /\ events[k] = was[k]

\* What the beginning of the log is.
LEMMA BeginningIs ==
  ASSUME LogFits, NEW was, Beginning(was)
  PROVE  /\ IsSeq(was) /\ DOMAIN was = 1..Len(was) /\ Len(was) \in Nat \ {0} /\ AllFormed(was)
         /\ \A i \in 1..Len(was) :
              /\ was[i].sequence = i - 1 /\ was[i].previous_event_hash = PreviousHash(was, i)
              /\ VerifyEventHash(was[i]) /\ was[i].event_hash # NoHash
         /\ \A i, j \in 1..Len(was) : was[i].event_hash = was[j].event_hash => i = j
<1>1. PICK b : Stretch(was, 1, b)
  BY DEF Beginning
<1>2. /\ IsSeq(was) /\ Len(was) \in Nat \ {0} /\ Len(was) = b - 1 + 1 /\ b \in Nat /\ b <= Len(log)
      /\ Len(log) \in Nat
      /\ \A k \in 1..Len(was) : 1 + k - 1 \in 1..Len(log) /\ was[k] = log[1 + k - 1]
  BY <1>1, StretchIs
<1>3. \A k \in 1..Len(was) : k \in 1..Len(log) /\ was[k] = log[k]
  <2>1. \A k \in 1..Len(was) : 1 + k - 1 = k
    BY <1>2
  <2>2. QED
    BY <1>2, <2>1
<1>4. DOMAIN was = 1..Len(was)
  BY <1>2 DEF IsSeq
<1>5. ASSUME NEW i \in 1..Len(was)
      PROVE  /\ was[i].sequence = i - 1 /\ was[i].previous_event_hash = PreviousHash(was, i)
             /\ VerifyEventHash(was[i]) /\ was[i].event_hash # NoHash /\ Formed(was[i])
  <2>1. /\ was[i].sequence = i - 1 /\ was[i].previous_event_hash = PreviousHash(log, i)
        /\ VerifyEventHash(was[i]) /\ was[i].event_hash # NoHash /\ Formed(was[i])
    BY <1>3, RecordedIs DEF Formed
  <2>2. PreviousHash(log, i) = PreviousHash(was, i)
    <3>1. i = 1 \/ i - 1 \in 1..Len(was)
      BY <1>2
    <3>2. QED
      BY <1>3, <3>1 DEF PreviousHash
  <2>3. QED
    BY <2>1, <2>2
<1>6. ASSUME NEW i \in 1..Len(was), NEW j \in 1..Len(was), was[i].event_hash = was[j].event_hash
      PROVE  i = j
  BY <1>3, <1>6, RecordedOnce
<1>7. AllFormed(was)
  BY <1>2, <1>5 DEF AllFormed
<1>8. QED
  BY <1>2, <1>4, <1>5, <1>6, <1>7

\* Nothing is wrong with the events before the first one that differs.
LEMMA GoodUntil ==
  ASSUME LogFits, NEW was, Beginning(was), NEW events, NEW p \in Nat, Agree(events, was, p),
         NEW k \in 1..(p - 1)
  PROVE  BreakAt(events, NoHash, k) = "none"
<1>1. k \in 1..Len(was) /\ events[k] = was[k] /\ k \in Nat /\ k >= 1
  BY BeginningIs DEF Agree
<1>2. k # 1 => k - 1 \in 1..Len(was) /\ events[k - 1] = was[k - 1]
  <2>1. k # 1 => k - 1 \in 1..(p - 1)
    BY <1>1
  <2>2. QED
    BY <2>1, BeginningIs DEF Agree
<1>3. /\ was[k].sequence = k - 1 /\ was[k].previous_event_hash = PreviousHash(was, k)
      /\ VerifyEventHash(was[k])
  BY <1>1, BeginningIs
<1>4. k > 1 => was[k - 1].sequence + 1 = k - 1
  <2>1. k > 1 => was[k - 1].sequence = (k - 1) - 1
    BY <1>2, BeginningIs
  <2>2. QED
    BY <1>1, <2>1
<1>5. events[k].previous_event_hash = (IF k = 1 THEN NoHash ELSE events[k - 1].event_hash)
  BY <1>1, <1>2, <1>3 DEF PreviousHash
<1>6. VerifyEventHash(events[k]) /\ (k > 1 => events[k].sequence = events[k - 1].sequence + 1)
  BY <1>1, <1>2, <1>3, <1>4
<1>7. QED
  BY <1>5, <1>6, Zenon DEF BreakAt

\* The first event that differs is the first event that differs.
LEMMA FirstIs ==
  ASSUME LogFits, NEW was, Beginning(was), NEW events, IsSeq(events), NEW p \in 1..Len(events),
         Agree(events, was, p), p > Len(was) \/ events[p] # was[p]
  PROVE  FirstDifference(events, was) = p
<1> DEFINE differ == {i \in DOMAIN events : i > Len(was) \/ events[i] # was[i]}
<1>1. p \in Nat /\ Len(was) \in Nat /\ Len(events) \in Nat /\ DOMAIN events = 1..Len(events)
      /\ DOMAIN was = 1..Len(was)
  BY BeginningIs DEF IsSeq
<1>2. p \in differ /\ \A i \in differ : i \in Nat
  BY <1>1
<1>3. \A i \in differ : p <= i
  <2>1. SUFFICES ASSUME NEW i \in 1..Len(events), i > Len(was) \/ events[i] # was[i], i < p
                 PROVE  FALSE
    BY <1>1
  <2>2. i \in 1..(p - 1)
    BY <1>1, <2>1
  <2>3. i \in 1..Len(was) /\ events[i] = was[i]
    BY <1>1, <2>2 DEF Agree
  <2>4. QED
    BY <1>1, <2>1, <2>3
<1> HIDE DEF differ
<1>4. Min(differ) = p
  <2>1. Min(differ) \in differ /\ \A y \in differ : Min(differ) <= y
    BY <1>2, <1>3 DEF Min
  <2>2. Min(differ) <= p /\ p <= Min(differ) /\ Min(differ) \in Nat
    BY <1>2, <1>3, <2>1
  <2>3. QED
    BY <1>1, <2>2
<1>5. QED
  BY <1>2, <1>4 DEF FirstDifference, differ

\* What can be wrong with an event, and what it is called.
LEMMA BreakIs ==
  ASSUME NEW events, NEW before, NEW i
  PROVE  LET linked == events[i].previous_event_hash
                         = IF i = 1 THEN before ELSE events[i - 1].event_hash
             sealed == VerifyEventHash(events[i])
             next == i > 1 => events[i].sequence = events[i - 1].sequence + 1
             kind == ClassifyBreak(BreakAt(events, before, i))
         IN /\ BreakAt(events, before, i) = "none" <=> linked /\ sealed /\ next
            /\ ~linked => kind = "linkage"
            /\ kind = "linkage" => ~linked
            /\ kind = "sequence" => linked /\ sealed /\ ~next
BY Zenon DEF BreakAt, ClassifyBreak

\* The verdict is about the first event that something is wrong with.
LEMMA FoundAt ==
  ASSUME NEW events, IsSeq(events), NEW p \in 1..Len(events), NEW before,
         \A k \in 1..(p - 1) : BreakAt(events, before, k) = "none",
         BreakAt(events, before, p) # "none"
  PROVE  LET found == DetectTampering(events, before)
         IN /\ found.tampered /\ found.atIndex = p
            /\ found.kind = ClassifyBreak(BreakAt(events, before, p))
<1> DEFINE broken == {i \in DOMAIN events : BreakAt(events, before, i) # "none"}
<1>1. p \in Nat /\ Len(events) \in Nat /\ DOMAIN events = 1..Len(events)
  BY DEF IsSeq
<1>2. p \in broken /\ \A i \in broken : i \in Nat /\ i \in 1..Len(events)
  BY <1>1
<1>3. \A i \in broken : p <= i
  <2>1. SUFFICES ASSUME NEW i \in 1..Len(events), BreakAt(events, before, i) # "none", i < p
                 PROVE  FALSE
    BY <1>1
  <2>2. i \in 1..(p - 1)
    BY <1>1, <2>1
  <2>3. QED
    BY <2>1, <2>2
<1>4. VerifyChain(events, before) = Verdict(events, before, broken)
  BY DEF VerifyChain
<1> HIDE DEF broken
<1>5. Min(broken) = p
  <2>1. Min(broken) \in broken /\ \A y \in broken : Min(broken) <= y
    BY <1>2, <1>3 DEF Min
  <2>2. Min(broken) <= p /\ p <= Min(broken) /\ Min(broken) \in Nat
    BY <1>2, <1>3, <2>1
  <2>3. QED
    BY <1>1, <2>2
<1>6. VerifyChain(events, before)
        = [valid |-> FALSE, brokenAt |-> p, reason |-> BreakAt(events, before, p)]
  BY <1>2, <1>4, <1>5 DEF Verdict
<1>7. ~VerifyChain(events, before).valid /\ VerifyChain(events, before).brokenAt = p
      /\ VerifyChain(events, before).reason = BreakAt(events, before, p)
  BY <1>6
<1>8. /\ DetectTampering(events, before).tampered
      /\ DetectTampering(events, before).atIndex = VerifyChain(events, before).brokenAt
      /\ DetectTampering(events, before).kind = ClassifyBreak(VerifyChain(events, before).reason)
  BY <1>7 DEF DetectTampering
<1>9. QED
  BY <1>7, <1>8

\* A broken link where the events begin to differ is where it is found.
LEMMA LinkageAt ==
  ASSUME LogFits, NEW was, Beginning(was), NEW events, IsSeq(events), NEW p \in 1..Len(events),
         Agree(events, was, p), p > Len(was) \/ events[p] # was[p],
         events[p].previous_event_hash # (IF p = 1 THEN NoHash ELSE events[p - 1].event_hash)
  PROVE  Located(events, was)
<1>1. p \in Nat
  BY DEF IsSeq
<1>2. BreakAt(events, NoHash, p) # "none" /\ ClassifyBreak(BreakAt(events, NoHash, p)) = "linkage"
  BY BreakIs
<1>3. \A k \in 1..(p - 1) : BreakAt(events, NoHash, k) = "none"
  BY <1>1, GoodUntil
<1>4. /\ DetectTampering(events, NoHash).tampered /\ DetectTampering(events, NoHash).atIndex = p
      /\ DetectTampering(events, NoHash).kind = "linkage"
  BY <1>2, <1>3, FoundAt
<1>5. FirstDifference(events, was) = p
  BY FirstIs
<1>6. QED
  BY <1>4, <1>5 DEF Located

\* What is left when an entry is left out.
LEMMA RemoveAtIs ==
  ASSUME NEW was, IsSeq(was), NEW i \in 1..Len(was)
  PROVE  LET now == RemoveAt(was, i)
         IN /\ IsSeq(now) /\ Len(now) = Len(was) - 1
            /\ \A k \in 1..(Len(was) - 1) : now[k] = IF k < i THEN was[k] ELSE was[k + 1]
<1> DEFINE S == {was[j] : j \in 1..Len(was)}
           n == Len(was)
           s == SubSeq(was, 1, i - 1)
           t == SubSeq(was, i + 1, n)
<1>1. n \in Nat /\ i \in Nat /\ 1 <= i /\ i <= n /\ (\A k \in 1..n : was[k] \in S)
  BY DEF IsSeq
<1> HIDE DEF S, n
<1>2. /\ s \in Seq(S) /\ Len(s) = i - 1 /\ \A k \in 1..(i - 1) : s[k] = was[k]
  <2>1. \A k \in 1..(i - 1) : was[k] \in S /\ 1 + k - 1 = k
    BY <1>1
  <2>2. /\ SubSeq(was, 1, i - 1) \in Seq(S)
        /\ Len(SubSeq(was, 1, i - 1)) = IF 1 <= i - 1 THEN (i - 1) - 1 + 1 ELSE 0
        /\ \A k \in 1..((i - 1) - 1 + 1) : SubSeq(was, 1, i - 1)[k] = was[1 + k - 1]
    BY <1>1, <2>1, SubSeqProperties
  <2>3. (i - 1) - 1 + 1 = i - 1
    BY <1>1
  <2>4. QED
    BY <1>1, <2>1, <2>2, <2>3
<1>3. /\ t \in Seq(S) /\ Len(t) = n - i /\ \A k \in 1..(n - i) : t[k] = was[i + k]
  <2>1. \A k \in (i + 1)..n : was[k] \in S
    BY <1>1
  <2>2. /\ SubSeq(was, i + 1, n) \in Seq(S)
        /\ Len(SubSeq(was, i + 1, n)) = IF i + 1 <= n THEN n - (i + 1) + 1 ELSE 0
        /\ \A k \in 1..(n - (i + 1) + 1) : SubSeq(was, i + 1, n)[k] = was[(i + 1) + k - 1]
    BY <1>1, <2>1, SubSeqProperties
  <2>3. n - (i + 1) + 1 = n - i /\ \A k \in 1..(n - i) : (i + 1) + k - 1 = i + k
    BY <1>1
  <2>4. QED
    BY <1>1, <2>2, <2>3
<1> HIDE DEF s, t
<1>4. /\ s \o t \in Seq(S) /\ Len(s \o t) = n - 1
      /\ \A k \in 1..(n - 1) : (s \o t)[k] = IF k <= i - 1 THEN s[k] ELSE t[k - (i - 1)]
  <2>1. Len(s) + Len(t) = n - 1 /\ Len(s) = i - 1
    BY <1>1, <1>2, <1>3
  <2>2. /\ s \o t \in Seq(S) /\ Len(s \o t) = Len(s) + Len(t)
        /\ \A k \in 1..(Len(s) + Len(t)) :
             (s \o t)[k] = IF k <= Len(s) THEN s[k] ELSE t[k - Len(s)]
    BY <1>2, <1>3, ConcatProperties
  <2>3. QED
    BY <2>1, <2>2, Zenon
<1>5. RemoveAt(was, i) = s \o t
  BY DEF RemoveAt, s, t, n
<1>6. ASSUME NEW k \in 1..(n - 1)
      PROVE  (s \o t)[k] = IF k < i THEN was[k] ELSE was[k + 1]
  <2>1. CASE k < i
    <3>1. k \in 1..(i - 1) /\ k <= i - 1
      BY <1>1, <2>1
    <3>2. QED
      BY <1>2, <1>4, <2>1, <3>1
  <2>2. CASE ~(k < i)
    <3>1. k - (i - 1) \in 1..(n - i) /\ i + (k - (i - 1)) = k + 1 /\ ~(k <= i - 1)
      BY <1>1, <2>2
    <3>2. QED
      BY <1>3, <1>4, <2>2, <3>1
  <2>3. QED
    BY <2>1, <2>2
<1>7. IsSeq(s \o t)
  BY <1>4, SeqIs
<1>8. QED
  BY <1>4, <1>5, <1>6, <1>7 DEF n

\* What there is when an entry is repeated.
LEMMA InsertAtIs ==
  ASSUME NEW was, IsSeq(was), NEW i \in 1..Len(was)
  PROVE  LET now == InsertAt(was, i, was[i])
         IN /\ IsSeq(now) /\ Len(now) = Len(was) + 1
            /\ \A k \in 1..(Len(was) + 1) : now[k] = IF k <= i THEN was[k] ELSE was[k - 1]
<1> DEFINE S == {was[j] : j \in 1..Len(was)}
           n == Len(was)
           s == SubSeq(was, 1, i - 1)
           t == SubSeq(was, i, n)
           u == s \o <<was[i]>>
<1>1. n \in Nat /\ i \in Nat /\ 1 <= i /\ i <= n /\ (\A k \in 1..n : was[k] \in S)
  BY DEF IsSeq
<1> HIDE DEF S, n
<1>2. /\ s \in Seq(S) /\ Len(s) = i - 1 /\ \A k \in 1..(i - 1) : s[k] = was[k]
  <2>1. \A k \in 1..(i - 1) : was[k] \in S /\ 1 + k - 1 = k
    BY <1>1
  <2>2. /\ SubSeq(was, 1, i - 1) \in Seq(S)
        /\ Len(SubSeq(was, 1, i - 1)) = IF 1 <= i - 1 THEN (i - 1) - 1 + 1 ELSE 0
        /\ \A k \in 1..((i - 1) - 1 + 1) : SubSeq(was, 1, i - 1)[k] = was[1 + k - 1]
    BY <1>1, <2>1, SubSeqProperties
  <2>3. (i - 1) - 1 + 1 = i - 1
    BY <1>1
  <2>4. QED
    BY <1>1, <2>1, <2>2, <2>3
<1>3. /\ t \in Seq(S) /\ Len(t) = n - i + 1 /\ \A k \in 1..(n - i + 1) : t[k] = was[i + k - 1]
  <2>1. \A k \in i..n : was[k] \in S
    BY <1>1
  <2>2. QED
    BY <1>1, <2>1, SubSeqProperties
<1> HIDE DEF s, t
<1>4. /\ u \in Seq(S) /\ Len(u) = i
      /\ \A k \in 1..i : u[k] = was[k]
  <2>1. <<was[i]>> \in Seq(S) /\ Len(<<was[i]>>) = 1 /\ <<was[i]>>[1] = was[i]
    BY <1>1
  <2>2. (i - 1) + 1 = i
    BY <1>1
  <2>3. /\ u \in Seq(S) /\ Len(u) = i
        /\ \A k \in 1..i : u[k] = IF k <= i - 1 THEN s[k] ELSE <<was[i]>>[k - (i - 1)]
    BY <1>2, <2>1, <2>2, ConcatProperties
  <2>4. \A k \in 1..i : IF k <= i - 1 THEN k \in 1..(i - 1) ELSE k = i /\ k - (i - 1) = 1
    BY <1>1
  <2>5. QED
    BY <1>2, <2>1, <2>3, <2>4
<1> HIDE DEF u
<1>5. /\ u \o t \in Seq(S) /\ Len(u \o t) = n + 1
      /\ \A k \in 1..(n + 1) : (u \o t)[k] = IF k <= i THEN u[k] ELSE t[k - i]
  <2>1. Len(u) + Len(t) = n + 1 /\ Len(u) = i
    BY <1>1, <1>3, <1>4
  <2>2. /\ u \o t \in Seq(S) /\ Len(u \o t) = Len(u) + Len(t)
        /\ \A k \in 1..(Len(u) + Len(t)) :
             (u \o t)[k] = IF k <= Len(u) THEN u[k] ELSE t[k - Len(u)]
    BY <1>3, <1>4, ConcatProperties
  <2>3. QED
    BY <2>1, <2>2, Zenon
<1>6. InsertAt(was, i, was[i]) = u \o t
  BY DEF InsertAt, s, t, u, n
<1>7. ASSUME NEW k \in 1..(n + 1)
      PROVE  (u \o t)[k] = IF k <= i THEN was[k] ELSE was[k - 1]
  <2>1. CASE k <= i
    <3>1. k \in 1..i
      BY <1>1, <2>1
    <3>2. QED
      BY <1>4, <1>5, <2>1, <3>1
  <2>2. CASE ~(k <= i)
    <3>1. k - i \in 1..(n - i + 1) /\ i + (k - i) - 1 = k - 1
      BY <1>1, <2>2
    <3>2. QED
      BY <1>3, <1>5, <2>2, <3>1
  <2>3. QED
    BY <2>1, <2>2
<1>8. IsSeq(u \o t)
  BY <1>5, SeqIs
<1>9. QED
  BY <1>5, <1>6, <1>7, <1>8 DEF n

\* No event of the log names its own hash, or that of any but the one before.
LEMMA NamesOnlyTheOneBefore ==
  ASSUME LogFits, NEW was, Beginning(was), NEW i \in 1..Len(was), NEW j \in 1..Len(was)
  PROVE  was[i].previous_event_hash = was[j].event_hash => i = j + 1
<1>1. /\ was[i].previous_event_hash = PreviousHash(was, i) /\ was[j].event_hash # NoHash
      /\ i \in Nat /\ j \in Nat /\ i >= 1
  BY BeginningIs
<1>2. CASE i = 1
  BY <1>1, <1>2 DEF PreviousHash
<1>3. CASE i # 1
  <2>1. i - 1 \in 1..Len(was)
    BY <1>3, BeginningIs
  <2>2. was[i - 1].event_hash = was[j].event_hash => i - 1 = j
    BY <2>1, BeginningIs
  <2>3. was[i].previous_event_hash = was[i - 1].event_hash
    BY <1>1, <1>3 DEF PreviousHash
  <2>4. i - 1 = j => i = j + 1
    BY <1>1
  <2>5. QED
    BY <2>2, <2>3, <2>4
<1>4. QED
  BY <1>2, <1>3

\* An event left out is a broken link, unless it was the last.
LEMMA LeftOut ==
  ASSUME LogFits, NEW was, Beginning(was), NEW i \in 1..Len(was)
  PROVE  Located(RemoveAt(was, i), was)
<1> DEFINE n == Len(was)
           events == RemoveAt(was, i)
<1>1. /\ n \in Nat \ {0} /\ i \in Nat /\ 1 <= i /\ i <= n /\ IsSeq(was) /\ DOMAIN was = 1..n
  BY BeginningIs
<1>2. n \in Nat /\ i \in Nat /\ 1 <= i /\ i <= n
  BY <1>1
<1>3. /\ IsSeq(events) /\ Len(events) = n - 1
      /\ \A k \in 1..(n - 1) : events[k] = IF k < i THEN was[k] ELSE was[k + 1]
  <2>1. IsSeq(was)
    BY <1>1
  <2>2. QED
    BY <2>1, RemoveAtIs
<1>4. CASE i = n
  <2>1. events = Front(was)
    <3>1. SubSeq(was, i + 1, Len(was)) = <<>>
      BY <1>1, <1>4, SubSeqEmpty
    <3>2. PICK S : was \in Seq(S)
      BY <1>1, SeqIs
    <3>3. SubSeq(was, 1, i - 1) \in Seq(S)
      <4>1. \A k \in 1..(i - 1) : was[k] \in S
        BY <1>1, <3>2
      <4>2. QED
        BY <1>1, <4>1, SubSeqProperties
    <3>4. QED
      BY <1>4, <3>1, <3>3, ConcatEmptySeq DEF RemoveAt, Front
  <2>2. ~DetectTampering(events, NoHash).tampered
    <3> HIDE DEF events
    <3>1. DOMAIN events = 1..(n - 1) /\ n = (n - 1) + 1
      BY <1>1, <1>3 DEF IsSeq
    <3>2. Agree(events, was, n)
      BY <1>1, <1>3, <1>4 DEF Agree
    <3>3. \A k \in 1..(n - 1) : BreakAt(events, NoHash, k) = "none"
      BY <1>1, <3>2, GoodUntil
    <3>4. VerifyChain(events, NoHash).valid
      BY <3>1, <3>3 DEF VerifyChain, Verdict
    <3>5. QED
      BY <3>4 DEF DetectTampering
  <2>3. QED
    BY <2>1, <2>2 DEF Located
<1>5. CASE i # n
  <2> HIDE DEF events
  <2>1. i \in 1..Len(events) /\ i + 1 \in 1..n /\ events[i] = was[i + 1]
    <3>1. i \in 1..(n - 1) /\ ~(i < i) /\ i + 1 \in 1..n
      BY <1>2, <1>5
    <3>2. QED
      BY <1>3, <3>1
  <2>2. Agree(events, was, i)
    BY <1>1, <1>3 DEF Agree
  <2>3. events[i] # was[i]
    <3>1. was[i + 1].sequence = (i + 1) - 1 /\ was[i].sequence = i - 1
      BY <2>1, BeginningIs
    <3>2. (i + 1) - 1 # i - 1
      BY <1>1
    <3>3. QED
      BY <2>1, <3>1, <3>2
  <2>4. events[i].previous_event_hash # (IF i = 1 THEN NoHash ELSE events[i - 1].event_hash)
    <3>1. was[i + 1].previous_event_hash = was[i].event_hash /\ was[i].event_hash # NoHash
      <4>1. was[i + 1].previous_event_hash = PreviousHash(was, i + 1) /\ was[i].event_hash # NoHash
        BY <2>1, BeginningIs
      <4>2. i + 1 # 1 /\ i + 1 - 1 = i
        BY <1>1
      <4>3. QED
        BY <4>1, <4>2 DEF PreviousHash
    <3>2. i # 1 => /\ i - 1 \in 1..Len(was) /\ events[i - 1] = was[i - 1]
                   /\ was[i].event_hash # was[i - 1].event_hash
      <4>1. i # 1 => i - 1 \in 1..(i - 1) /\ i - 1 \in 1..Len(was) /\ i # i - 1
        BY <1>1
      <4>2. i # 1 => was[i].event_hash # was[i - 1].event_hash
        BY <4>1, BeginningIs
      <4>3. QED
        BY <2>2, <4>1, <4>2 DEF Agree
    <3>3. QED
      BY <2>1, <3>1, <3>2
  <2>5. Located(events, was)
    BY <1>3, <2>1, <2>2, <2>3, <2>4, LinkageAt
  <2>6. QED
    BY <2>5 DEF events
<1>6. QED
  BY <1>4, <1>5

\* A repeated event is a broken link.
LEMMA Repeated ==
  ASSUME LogFits, NEW was, Beginning(was), NEW i \in 1..Len(was)
  PROVE  Located(InsertAt(was, i, was[i]), was)
<1> DEFINE n == Len(was)
           events == InsertAt(was, i, was[i])
           p == i + 1
<1>1. /\ n \in Nat \ {0} /\ i \in Nat /\ 1 <= i /\ i <= n /\ IsSeq(was) /\ DOMAIN was = 1..n
  BY BeginningIs
<1>2. /\ IsSeq(events) /\ Len(events) = n + 1
      /\ \A k \in 1..(n + 1) : events[k] = IF k <= i THEN was[k] ELSE was[k - 1]
  BY <1>1, InsertAtIs
<1> HIDE DEF events
<1>3. p \in 1..Len(events) /\ p - 1 = i /\ p # 1 /\ events[p] = was[i] /\ events[i] = was[i]
  BY <1>1, <1>2
<1>4. Agree(events, was, p)
  BY <1>1, <1>2 DEF Agree
<1>5. p > Len(was) \/ events[p] # was[p]
  <2>1. SUFFICES ASSUME ~(p > Len(was)) PROVE events[p] # was[p]
    OBVIOUS
  <2>2. p \in 1..Len(was)
    BY <1>1, <2>1
  <2>3. was[p].sequence = p - 1 /\ was[i].sequence = i - 1
    BY <2>2, BeginningIs
  <2>4. p - 1 # i - 1
    BY <1>1
  <2>5. QED
    BY <1>3, <2>3, <2>4
<1>6. events[p].previous_event_hash # (IF p = 1 THEN NoHash ELSE events[p - 1].event_hash)
  <2>1. was[i].previous_event_hash # was[i].event_hash
    <3>1. i # i + 1
      BY <1>1
    <3>2. QED
      BY <3>1, NamesOnlyTheOneBefore
  <2>2. QED
    BY <1>3, <2>1
<1>7. Located(events, was)
  BY <1>2, <1>3, <1>4, <1>5, <1>6, LinkageAt
<1>8. QED
  BY <1>7 DEF events

\* Two events swapped are a broken link.
LEMMA SwappedFound ==
  ASSUME LogFits, NEW was, Beginning(was), NEW i \in 1..Len(was), i < Len(was)
  PROVE  Located(Swapped(was, i), was)
<1> DEFINE n == Len(was)
           events == Swapped(was, i)
<1>1. /\ n \in Nat \ {0} /\ i \in Nat /\ 1 <= i /\ i < n /\ IsSeq(was) /\ DOMAIN was = 1..n
      /\ i + 1 \in 1..n
  BY BeginningIs
<1>2. /\ IsSeq(events) /\ Len(events) = n
  <2>1. PICK S : was \in Seq(S)
    BY <1>1, SeqIs
  <2>2. events \in Seq(S) /\ Len(events) = Len(was)
    BY <1>1, <2>1 DEF Swapped
  <2>3. QED
    BY <2>2, SeqIs
<1>3. events[i] = was[i + 1] /\ \A k \in 1..(i - 1) : events[k] = was[k]
  BY <1>1 DEF Swapped
<1> HIDE DEF events
<1>4. i \in 1..Len(events) /\ Agree(events, was, i)
  BY <1>1, <1>2, <1>3 DEF Agree
<1>5. events[i] # was[i]
  <2>1. was[i + 1].sequence = (i + 1) - 1 /\ was[i].sequence = i - 1
    BY <1>1, BeginningIs
  <2>2. (i + 1) - 1 # i - 1
    BY <1>1
  <2>3. QED
    BY <1>3, <2>1, <2>2
<1>6. events[i].previous_event_hash # (IF i = 1 THEN NoHash ELSE events[i - 1].event_hash)
  <2>1. was[i + 1].previous_event_hash = was[i].event_hash /\ was[i].event_hash # NoHash
    <3>1. was[i + 1].previous_event_hash = PreviousHash(was, i + 1) /\ was[i].event_hash # NoHash
      BY <1>1, BeginningIs
    <3>2. i + 1 # 1 /\ i + 1 - 1 = i
      BY <1>1
    <3>3. QED
      BY <3>1, <3>2 DEF PreviousHash
  <2>2. i # 1 => was[i].event_hash # was[i - 1].event_hash
    <3>1. i # 1 => i - 1 \in 1..Len(was) /\ i # i - 1
      BY <1>1
    <3>2. QED
      BY <3>1, BeginningIs
  <2>3. i # 1 => i - 1 \in 1..(i - 1)
    BY <1>1
  <2>4. QED
    BY <1>3, <2>1, <2>2, <2>3
<1>7. Located(events, was)
  BY <1>2, <1>4, <1>5, <1>6, LinkageAt
<1>8. QED
  BY <1>7 DEF events

\* An edited event is found where it is, or by the event after it; only the last
\* one, with its hash made to fit, is not found.
LEMMA EditFound ==
  ASSUME LogFits, NEW was, Beginning(was), NEW i \in 1..Len(was), NEW e, Formed(e), e # was[i]
  PROVE  Located([was EXCEPT ![i] = e], was)
<1> DEFINE n == Len(was)
           events == [was EXCEPT ![i] = e]
           first == FirstDifference(events, was)
           found == DetectTampering(events, NoHash)
<1>1. /\ n \in Nat \ {0} /\ i \in Nat /\ 1 <= i /\ i <= n /\ IsSeq(was) /\ DOMAIN was = 1..n
      /\ AllFormed(was)
  BY BeginningIs
<1>2. n \in Nat /\ i \in Nat /\ 1 <= i /\ i <= n
  BY <1>1
<1>3. /\ IsSeq(events) /\ Len(events) = n /\ events[i] = e /\ DOMAIN events = 1..n
      /\ \A k \in 1..n : k # i => events[k] = was[k]
  <2>1. PICK S : was \in Seq(S)
    BY <1>1, SeqIs
  <2>2. events \in Seq(S \cup {e}) /\ Len(events) = Len(was)
    BY <1>1, <2>1
  <2>3. IsSeq(events)
    BY <2>2, SeqIs
  <2>4. QED
    BY <1>1, <2>2, <2>3
<1> HIDE DEF events
<1>4. Agree(events, was, i)
  BY <1>1, <1>3 DEF Agree
<1>5. first = i
  BY <1>3, <1>4, FirstIs
<1>6. \A k \in 1..(i - 1) : BreakAt(events, NoHash, k) = "none"
  BY <1>1, <1>4, GoodUntil
<1>7. i > 1 => i - 1 \in 1..n /\ events[i - 1] = was[i - 1] /\ was[i - 1].sequence = (i - 1) - 1
               /\ was[i].sequence = i - 1 /\ i - 1 = ((i - 1) - 1) + 1
  <2>1. i > 1 => i - 1 \in 1..n /\ i - 1 # i /\ i - 1 = ((i - 1) - 1) + 1
    BY <1>1
  <2>2. QED
    BY <1>3, <2>1, BeginningIs
<1> HIDE DEF first, found
<1>8. CASE BreakAt(events, NoHash, i) # "none"
  <2>1. found.tampered /\ found.atIndex = i /\ found.kind = ClassifyBreak(BreakAt(events, NoHash, i))
    BY <1>3, <1>6, <1>8, FoundAt DEF found
  <2>2. found.kind = "sequence" => events[i].sequence # was[i].sequence
    <3>1. SUFFICES ASSUME found.kind = "sequence" PROVE events[i].sequence # was[i].sequence
      OBVIOUS
    <3>2. ~(i > 1 => events[i].sequence = events[i - 1].sequence + 1)
      <4>1. ClassifyBreak(BreakAt(events, NoHash, i)) = "sequence" =>
              ~(i > 1 => events[i].sequence = events[i - 1].sequence + 1)
        BY Zenon DEF BreakAt, ClassifyBreak
      <4>2. QED
        BY <2>1, <3>1, <4>1, Zenon
    <3>3. QED
      BY <1>7, <3>2
  <2>3. \A k \in DOMAIN was : k # i => k \in DOMAIN events /\ events[k] = was[k]
    BY <1>1, <1>3
  <2>4. QED
    BY <1>5, <2>1, <2>2, <2>3, Zenon DEF Located, first, found, events
<1>9. CASE BreakAt(events, NoHash, i) = "none"
  <2>1. VerifyEventHash(e)
    BY <1>3, <1>9, BreakIs
  <2>2. e.event_hash # was[i].event_hash
    <3>1. VerifyEventHash(was[i]) /\ Formed(was[i])
      BY <1>1, BeginningIs DEF AllFormed
    <3>2. QED
      BY <2>1, <3>1, SameHash DEF Formed, EventFields
  <2>3. CASE i = n
    <3>1. \A k \in 1..n : BreakAt(events, NoHash, k) = "none"
      <4>1. \A k \in 1..n : k = i \/ k \in 1..(i - 1)
        BY <1>2, <2>3
      <4>2. QED
        BY <1>6, <1>9, <4>1
    <3>2. VerifyChain(events, NoHash).valid
      BY <1>3, <3>1 DEF VerifyChain, Verdict
    <3>3. ~found.tampered
      BY <3>2 DEF DetectTampering, found
    <3>4. QED
      BY <1>3, <1>5, <2>3, <3>3, Zenon DEF Located, first, found, events
  <2>4. CASE i # n
    <3> DEFINE p == i + 1
    <3>1. p \in 1..Len(events) /\ p \in 1..n /\ p # i /\ p # 1 /\ p - 1 = i
      <4>1. p \in 1..n /\ p # i /\ p # 1 /\ p - 1 = i
        BY <1>2, <2>4
      <4>2. QED
        BY <1>3, <4>1, Zenon
    <3>2. was[p].previous_event_hash = was[i].event_hash
      <4>1. was[p].previous_event_hash = PreviousHash(was, p)
        BY <3>1, BeginningIs
      <4>2. QED
        BY <3>1, <4>1 DEF PreviousHash
    <3>3. events[p].previous_event_hash # (IF p = 1 THEN NoHash ELSE events[p - 1].event_hash)
      <4>1. events[p] = was[p] /\ events[p - 1] = e
        BY <1>3, <3>1
      <4>2. QED
        BY <2>2, <3>1, <3>2, <4>1
    <3>4. BreakAt(events, NoHash, p) # "none" /\ ClassifyBreak(BreakAt(events, NoHash, p)) = "linkage"
      BY <3>3, BreakIs
    <3>5. \A k \in 1..(p - 1) : BreakAt(events, NoHash, k) = "none"
      <4>1. \A k \in 1..(p - 1) : k = i \/ k \in 1..(i - 1)
        BY <1>1, <3>1
      <4>2. QED
        BY <1>6, <1>9, <4>1
    <3> HIDE DEF p
    <3>6. found.tampered /\ found.atIndex = p /\ found.kind = "linkage"
      BY <1>3, <3>1, <3>4, <3>5, FoundAt DEF found
    <3>7. p = first + 1
      BY <1>5 DEF p
    <3>8. QED
      BY <3>6, <3>7, Zenon DEF Located, first, found, events
  <2>5. QED
    BY <2>3, <2>4
<1>10. QED
  BY <1>8, <1>9

\* What a log that is read was: the log from its beginning, but for one change.
LEMMA ChainIs ==
  ASSUME EInv, artifact.kind = "chain"
  PROVE  /\ issued.kind = "chain" /\ issued = [kind |-> "chain", events |-> issued.events]
         /\ Beginning(issued.events)
         /\ artifact = issued \/ EventsChanged(artifact, issued)
<1>1. artifact # issued => OneChange(artifact, issued)
  BY DEF EInv
<1>2. ~ReceiptChanged(artifact, issued)
  <2>1. SUFFICES ASSUME ReceiptChanged(artifact, issued) PROVE FALSE
    OBVIOUS
  <2>2. PICK r : artifact = [issued EXCEPT !.receipt = r]
    BY <2>1 DEF ReceiptChanged
  <2>3. artifact.kind = issued.kind
    BY <2>2
  <2>4. QED
    BY <2>1, <2>3 DEF ReceiptChanged
<1>3. ~FieldChanged(artifact, issued)
  <2>1. SUFFICES ASSUME FieldChanged(artifact, issued) PROVE FALSE
    OBVIOUS
  <2>2. PICK f \in PackageFields \ {"kind", "events", "receipts"} :
          artifact = [issued EXCEPT ![f] = AlteredValue(f)]
    BY <2>1 DEF FieldChanged
  <2>3. artifact.kind = issued.kind
    BY <2>2
  <2>4. QED
    BY <2>1, <2>3 DEF FieldChanged
<1>4. artifact = issued \/ EventsChanged(artifact, issued)
  BY <1>1, <1>2, <1>3 DEF OneChange, ReceiptsChanged
<1>5. issued.kind = "chain"
  BY <1>4 DEF EventsChanged
<1>6. PICK b \in 1..Len(log) : ChainOf(issued, b)
  BY <1>5 DEF EInv, Issued, NoArtifact, PackageOf, ReceiptAlone
<1>7. QED
  BY <1>4, <1>5, <1>6 DEF ChainOf, Beginning

\* Tampering with one place of a log is found there or right after it, and what
\* it is called is what it was.
THEOREM TamperIsLocated == Spec => []TamperLocated
<1>1. EInv => TamperLocated
  <2>1. SUFFICES ASSUME EInv, artifact.kind = "chain", ~Unaltered
                 PROVE  Located(Events(artifact), issued.events)
    BY Zenon DEF TamperLocated, Located, FirstDifference
  <2> DEFINE was == issued.events
             events == Events(artifact)
  <2>2. artifact # issued
    BY <2>1 DEF Unaltered, NoArtifact
  <2>3. Beginning(was) /\ EventsChanged(artifact, issued) /\ LogFits
    BY <2>1, <2>2, ChainIs DEF EInv
  <2>4. /\ Rearranged(artifact.events, was) \/ EventEdited(artifact.events, was)
        /\ events = Parsed(artifact.events)
    BY <2>3 DEF EventsChanged, Events, Parsed
  <2> HIDE DEF was, events
  <2>5. \/ Rearranged(events, was)
        \/ \E i \in 1..Len(was) : \E e : Formed(e) /\ events = [was EXCEPT ![i] = e]
    <3> DEFINE now == artifact.events
    <3> HIDE DEF now
    <3>1. AllFormed(was) /\ (Rearranged(now, was) \/ EventEdited(now, was)) /\ events = Parsed(now)
      BY <2>3, <2>4, BeginningIs DEF now
    <3>2. \/ Rearranged(Parsed(now), was)
          \/ \E i \in 1..Len(was) : \E e : Formed(e) /\ Parsed(now) = [was EXCEPT ![i] = e]
      BY <3>1, ChangedReads
    <3>3. QED
      BY <3>1, <3>2, Zenon
  <2>6. DOMAIN was = 1..Len(was) /\ was = [k \in 1..Len(was) |-> was[k]]
    BY <2>3, BeginningIs DEF IsSeq
  <2>7. CASE Rearranged(events, was)
    <3>1. PICK i \in 1..Len(was) :
            \/ events = RemoveAt(was, i) \/ events = InsertAt(was, i, was[i])
            \/ i < Len(was) /\ events = Swapped(was, i)
      BY <2>6, <2>7 DEF Rearranged
    <3>2. QED
      BY <2>3, <3>1, LeftOut, Repeated, SwappedFound DEF was, events
  <2>8. ASSUME NEW i \in 1..Len(was), NEW e, Formed(e), events = [was EXCEPT ![i] = e]
        PROVE  Located(events, was)
    <3>1. CASE e = was[i]
      <4>1. events = was
        BY <2>6, <2>8, <3>1
      <4>2. VerifyChain(was, NoHash).valid
        <5>1. PICK b : Stretch(was, 1, b)
          BY <2>3 DEF Beginning
        <5>2. PreviousHash(log, 1) = NoHash
          BY DEF PreviousHash
        <5>3. QED
          BY <2>3, <5>1, <5>2, StretchVerifies
      <4>3. ~DetectTampering(was, NoHash).tampered
        BY <4>2 DEF DetectTampering
      <4>4. QED
        BY <4>1, <4>3, Zenon DEF Located
    <3>2. CASE e # was[i]
      BY <2>3, <2>8, <3>2, EditFound
    <3>3. QED
      BY <3>1, <3>2
  <2>9. QED
    BY <2>5, <2>7, <2>8 DEF was, events
<1>2. QED
  BY <1>1, EvidenceInvariance, PTL

-----------------------------------------------------------------------------
(* The commands that look events and receipts up *)

\* The smallest of some places of a sequence is one of them.
LEMMA MinIs ==
  ASSUME NEW n, NEW T \in SUBSET (1..n), n \in Nat, T # {}
  PROVE  Min(T) \in T
<1>1. T \in SUBSET Nat
  OBVIOUS
<1>2. PICK m \in T : \A i \in T : m <= i
  BY <1>1, Smallest
<1>3. QED
  BY <1>2 DEF Min

\* An entry found by its full name has it.
LEMMA FirstNamedIs ==
  ASSUME NEW events, IsSeq(events), NEW id, NEW names, FirstNamed(events, id, names) # 0
  PROVE  /\ id.whole /\ FirstNamed(events, id, names) \in 1..Len(events)
         /\ Fits(events[FirstNamed(events, id, names)], id, names)
<1> DEFINE I == {i \in 1..Len(events) : Fits(events[i], id, names)}
<1>1. id.whole /\ id.by \in names
      /\ FirstNamed(events, id, names) = IF I # {} THEN Min(I) ELSE 0
  BY DEF FirstNamed, SelectInSeq
<1>2. Len(events) \in Nat
  BY DEF IsSeq
<1>3. I # {} /\ FirstNamed(events, id, names) = Min(I)
  BY <1>1
<1>4. Min(I) \in I
  BY <1>2, <1>3, MinIs
<1>5. QED
  BY <1>1, <1>3, <1>4

FitsOf(events, id, names) == {i \in DOMAIN events : Fits(events[i], id, names)}

\* The only entry that fits does.
LEMMA OnlyFitIs ==
  ASSUME NEW events, IsSeq(events), NEW id, NEW names, OnlyFit(events, id, names) # 0
  PROVE  /\ ~id.whole /\ OnlyFit(events, id, names) \in 1..Len(events)
         /\ Fits(events[OnlyFit(events, id, names)], id, names)
<1> DEFINE fits == {i \in DOMAIN events : Fits(events[i], id, names)}
<1>1. /\ ~id.whole /\ Cardinality(fits) = 1
      /\ OnlyFit(events, id, names) = CHOOSE i \in fits : TRUE
  BY DEF OnlyFit
<1>2. fits # {}
  BY <1>1, FS_EmptySet
<1>3. (CHOOSE i \in fits : TRUE) \in fits
  BY <1>2
<1>4. DOMAIN events = 1..Len(events)
  BY DEF IsSeq
<1>5. QED
  BY <1>1, <1>3, <1>4

\* What replay finds is an event of the log.
LEMMA FindToReplayIs ==
  ASSUME NEW events, IsSeq(events), NEW id, FindToReplay(events, id) # 0
  PROVE  FindToReplay(events, id) \in 1..Len(events)
BY FirstNamedIs, OnlyFitIs DEF FindToReplay

\* What replay finds, receipt show finds too, unless the name is too short for it.
LEMMA ShowFindsTheSame ==
  ASSUME NEW events, NEW id, FindToReplay(events, id) # 0, ~id.short
  PROVE  FindToShow(events, id) = FindToReplay(events, id)
<1> DEFINE few == {"sequence", "event_id"}
           many == {"sequence", "event_id", "receipt_id"}
<1>1. CASE FirstNamed(events, id, few) # 0
  <2>1. id.whole /\ id.by \in few /\ id.by \in many
    BY <1>1 DEF FirstNamed
  <2>2. \A e : Fits(e, id, few) <=> Fits(e, id, many)
    BY <2>1 DEF Fits
  <2>3. {i \in 1..Len(events) : Fits(events[i], id, few)}
          = {i \in 1..Len(events) : Fits(events[i], id, many)}
    BY <2>2
  <2>4. FirstNamed(events, id, few) = FirstNamed(events, id, many)
    BY <2>1, <2>3 DEF FirstNamed, SelectInSeq
  <2>5. QED
    BY <1>1, <2>4 DEF FindToReplay, FindToShow
<1>2. CASE FirstNamed(events, id, few) = 0
  <2>1. OnlyFit(events, id, {"event_id"}) # 0 /\ FindToReplay(events, id) = OnlyFit(events, id, {"event_id"})
    BY <1>2 DEF FindToReplay
  <2>2. ~id.whole /\ Cardinality({i \in DOMAIN events : Fits(events[i], id, {"event_id"})}) = 1
    BY <2>1 DEF OnlyFit
  <2>3. {i \in DOMAIN events : Fits(events[i], id, {"event_id"})} # {}
    BY <2>2, FS_EmptySet
  <2>4. id.by = "event_id"
    BY <2>3 DEF Fits
  <2>5. \A e : Fits(e, id, {"event_id"}) <=> Fits(e, id, {"event_id", "receipt_id"})
    BY <2>4 DEF Fits
  <2>6. {i \in DOMAIN events : Fits(events[i], id, {"event_id"})}
          = {i \in DOMAIN events : Fits(events[i], id, {"event_id", "receipt_id"})}
    BY <2>5
  <2>7. OnlyFit(events, id, {"event_id"}) = OnlyFit(events, id, {"event_id", "receipt_id"})
    <3>1. \A names : OnlyFit(events, id, names)
                        = IF ~id.whole /\ Cardinality(FitsOf(events, id, names)) = 1
                          THEN CHOOSE i \in FitsOf(events, id, names) : TRUE ELSE 0
      BY DEF OnlyFit, FitsOf
    <3>2. FitsOf(events, id, {"event_id"}) = FitsOf(events, id, {"event_id", "receipt_id"})
      BY <2>6 DEF FitsOf
    <3>3. QED
      BY <3>1, <3>2
  <2>8. FirstNamed(events, id, many) = 0
    BY <2>2 DEF FirstNamed
  <2>9. QED
    BY <2>1, <2>7, <2>8 DEF FindToShow
<1>3. QED
  BY <1>1, <1>2

\* The sequences of a log that verifies from its beginning count up from 0.
LEMMA SequencesCount ==
  ASSUME NEW events, IsSeq(events), VerifyChain(events, NoHash).valid, events[1].sequence = 0
  PROVE  \A i \in 1..Len(events) : events[i].sequence = i - 1
<1> DEFINE T == {i \in 1..Len(events) : events[i].sequence # i - 1}
<1>1. SUFFICES ASSUME T # {} PROVE FALSE
  OBVIOUS
<1>2. Len(events) \in Nat /\ DOMAIN events = 1..Len(events) /\ T \in SUBSET Nat
  BY DEF IsSeq
<1>3. PICK m \in T : \A n \in T : m <= n
  BY <1>1, <1>2, Smallest
<1>4. m \in 1..Len(events) /\ m \in Nat /\ events[m].sequence # m - 1
  BY <1>3
<1>5. m # 1
  BY <1>4
<1>6. m - 1 \in 1..Len(events) /\ ~(m <= m - 1) /\ m > 1
  BY <1>4, <1>5
<1>7. events[m - 1].sequence = (m - 1) - 1
  BY <1>3, <1>6
<1> HIDE DEF T
<1>8. events[m].sequence = events[m - 1].sequence + 1
  BY <1>2, <1>4, <1>6, ValidChain
<1>9. ((m - 1) - 1) + 1 = m - 1
  BY <1>4
<1>10. QED
  BY <1>4, <1>7, <1>8, <1>9

\* In a log that verifies from its beginning, what replay finds replays.
LEMMA FoundReplays ==
  ASSUME NEW events, IsSeq(events), VerifyChain(events, NoHash).valid, events[1].sequence = 0,
         NEW id, FindToReplay(events, id) # 0
  PROVE  RunReplay(events, id) = 0
<1> DEFINE i == FindToReplay(events, id)
           ev == events[i]
           prev == Predecessor(events, ev)
<1>1. i \in 1..Len(events) /\ Len(events) \in Nat /\ DOMAIN events = 1..Len(events) /\ i # 0
  BY FindToReplayIs DEF IsSeq
<1> HIDE DEF i
<1>2. /\ ev.previous_event_hash = (IF i = 1 THEN NoHash ELSE events[i - 1].event_hash)
      /\ VerifyEventHash(ev)
  BY <1>1, ValidChain
<1>3. ev.sequence = i - 1 /\ \A k \in 1..Len(events) : events[k].sequence = k - 1
  BY <1>1, SequencesCount
<1>4. VerifyReceipt(GenerateReceipt(ev), ev)
  <2>1. IsV01(GenerateReceipt(ev), ev)
    BY V01Is
  <2>2. QED
    BY <2>1 DEF IsV01, Says, VerifyReceipt, Describes
<1>5. ev.sequence = 0 => ev.previous_event_hash = NoHash
  <2>1. ev.sequence = 0 => i = 1
    BY <1>1, <1>3
  <2>2. QED
    BY <1>2, <2>1
<1>6. ev.sequence # 0 => prev # 0 /\ ev.previous_event_hash = events[prev].event_hash
  <2>1. SUFFICES ASSUME ev.sequence # 0
                 PROVE  prev # 0 /\ ev.previous_event_hash = events[prev].event_hash
    OBVIOUS
  <2>2. i # 1 /\ i - 1 \in 1..Len(events) /\ i - 1 # 0
    BY <1>1, <1>3, <2>1
  <2> DEFINE I == {k \in 1..Len(events) : events[k].sequence = ev.sequence - 1}
  <2>3. \A k \in 1..Len(events) : k - 1 = (i - 1) - 1 <=> k = i - 1
    BY <1>1
  <2>4. \A k \in 1..Len(events) : events[k].sequence = ev.sequence - 1 <=> k = i - 1
    BY <1>3, <2>3
  <2>5. I = {i - 1}
    BY <2>2, <2>4
  <2>6. prev = IF I # {} THEN Min(I) ELSE 0
    BY DEF Predecessor, SelectInSeq
  <2> HIDE DEF I
  <2>7. Min(I) \in I
    <3>1. I \in SUBSET (1..Len(events)) /\ I # {}
      BY <2>2, <2>5
    <3>2. QED
      BY <1>1, <3>1, MinIs
  <2>8. prev = i - 1
    BY <2>5, <2>6, <2>7
  <2>9. QED
    BY <1>2, <2>2, <2>8
<1> HIDE DEF ev, prev
<1>7. QED
  BY <1>1, <1>2, <1>4, <1>5, <1>6, Zenon DEF RunReplay, i, ev, prev

\* The receipts of a package that is read are a sequence.
LEMMA ReceiptsAreSeq == ASSUME EInv, artifact.kind = "package" PROVE IsSeq(artifact.receipts)
<1>1. PICK a \in 1..Len(log), b \in 1..Len(log) : PackageOf(issued, a, b)
  BY PackageIs
<1>2. /\ DOMAIN issued = PackageFields /\ issued = [f \in PackageFields |-> issued[f]]
      /\ IsSeq(issued.receipts)
  BY <1>1, PackageReceipts DEF PackageOf, EInv
<1>3. CASE artifact = issued
  BY <1>2, <1>3
<1>4. CASE EventsChanged(artifact, issued)
  <2>1. PICK events : artifact = [issued EXCEPT !.events = events]
    BY <1>4 DEF EventsChanged
  <2>2. artifact.receipts = issued.receipts
    BY <1>2, <2>1 DEF PackageFields
  <2>3. QED
    BY <1>2, <2>2
<1>5. CASE FieldChanged(artifact, issued)
  <2>1. PICK f \in PackageFields \ {"kind", "events", "receipts"} :
          artifact = [issued EXCEPT ![f] = AlteredValue(f)]
    BY <1>5 DEF FieldChanged
  <2>2. artifact.receipts = issued.receipts
    BY <1>2, <2>1 DEF PackageFields
  <2>3. QED
    BY <1>2, <2>2
<1>6. CASE ReceiptsChanged(artifact, issued)
  <2>1. PICK S : issued.receipts \in Seq(S)
    BY <1>2, SeqIs
  <2>2. CASE Rearranged(artifact.receipts, issued.receipts)
    BY <2>1, <2>2, RearrangedSeq, SeqIs
  <2>3. CASE ReceiptEdited(artifact.receipts, issued.receipts)
    <3>1. PICK k \in DOMAIN issued.receipts : \E r : artifact.receipts = [issued.receipts EXCEPT ![k] = r]
      BY <2>3 DEF ReceiptEdited
    <3>2. PICK r : artifact.receipts = [issued.receipts EXCEPT ![k] = r]
      BY <3>1
    <3>3. artifact.receipts \in Seq(S \cup {r})
      BY <2>1, <3>2
    <3>4. QED
      BY <3>3, SeqIs
  <2>4. QED
    BY <1>6, <2>2, <2>3 DEF ReceiptsChanged
<1>7. QED
  BY <1>3, <1>4, <1>5, <1>6, PackageIs

\* How a package's receipts are named.
Ids(receipts) ==
  [i \in DOMAIN receipts |-> [receipt_id |-> receipts[i].receipt_id,
                              event_id |-> receipts[i].witness_event_id]]

\* A receipt found in a package is one of its receipts, of a known version, and
\* found by its receipt id it has it.
LEMMA FoundInPackage ==
  ASSUME NEW receipts, IsSeq(receipts), NEW id, FindInPackage(receipts, id) # 0
  PROVE  LET found == FindInPackage(receipts, id)
         IN /\ found \in 1..Len(receipts)
            /\ id.by = "receipt_id" => receipts[found].receipt_id \in id.fits
<1> DEFINE ids == Ids(receipts)
           both == {"event_id", "receipt_id"}
           named == FirstNamed(ids, id, both)
           only == OnlyFit(ids, id, both)
           found == FindInPackage(receipts, id)
<1>1. IsSeq(ids) /\ Len(ids) = Len(receipts) /\ DOMAIN receipts = 1..Len(receipts)
  <2>1. DOMAIN receipts = 1..Len(receipts) /\ Len(receipts) \in Nat
    BY DEF IsSeq
  <2>2. ids \in [1..Len(receipts) -> {ids[i] : i \in 1..Len(receipts)}]
    BY <2>1 DEF Ids
  <2> HIDE DEF ids
  <2>3. ids \in Seq({ids[i] : i \in 1..Len(receipts)}) /\ Len(ids) = Len(receipts)
    BY <2>1, <2>2, LenProperties
  <2>4. QED
    BY <2>1, <2>3, SeqIs
<1>2. \A i \in 1..Len(receipts) : ids[i].receipt_id = receipts[i].receipt_id
  BY <1>1 DEF Ids
<1>3. found = named \/ found = only
  BY Zenon DEF FindInPackage, Ids
<1> HIDE DEF ids, named, only, found
<1>4. found # 0
  BY DEF found
<1>5. found \in 1..Len(receipts) /\ Fits(ids[found], id, both)
  <2>1. CASE found = named
    BY <1>1, <1>4, <2>1, FirstNamedIs DEF named
  <2>2. CASE found = only
    BY <1>1, <1>4, <2>2, OnlyFitIs DEF only
  <2>3. QED
    BY <1>3, <2>1, <2>2
<1>6. id.by = "receipt_id" => receipts[found].receipt_id \in id.fits
  BY <1>2, <1>5 DEF Fits
<1>7. QED
  BY <1>5, <1>6 DEF found

FirstWith(events, x) == SelectInSeq(events, LAMBDA e : e.event_id = x)

\* In a stretch of the log the first event with an id is the only one.
LEMMA FirstIsCompanion ==
  ASSUME LogFits, NEW events, NEW a, NEW b, Stretch(events, a, b), NEW i \in 1..Len(events),
         NEW x, events[i].event_id = x
  PROVE  FirstWith(events, x) = i
<1> DEFINE I == {k \in 1..Len(events) : events[k].event_id = x}
<1>1. /\ Len(events) \in Nat /\ a \in Nat
      /\ \A k \in 1..Len(events) : a + k - 1 \in 1..Len(log) /\ events[k] = log[a + k - 1]
  BY StretchIs
<1>2. \A k \in 1..Len(events) : events[k].event_id = a + k - 1
  BY <1>1, RecordedIs
<1>3. \A k \in 1..Len(events) : a + k - 1 = a + i - 1 => k = i
  BY <1>1
<1>4. I = {i}
  BY <1>2, <1>3
<1>5. FirstWith(events, x) = IF I # {} THEN Min(I) ELSE 0
  BY DEF FirstWith, SelectInSeq
<1>6. I \in SUBSET (1..Len(events)) /\ I # {}
  BY <1>4
<1> HIDE DEF I
<1>7. Min(I) \in I
  BY <1>1, <1>6, MinIs
<1>8. QED
  BY <1>4, <1>5, <1>7

\* The receipt shown from a package that verifies is shown beside its event.
LEMMA ShownBeside ==
  ASSUME EInv, artifact.kind = "package", NEW key, VerifyEvidencePackage(artifact, key),
         NEW found \in 1..Len(artifact.receipts)
  PROVE  LET r == artifact.receipts[found]
             i == FirstWith(Events(artifact), r.witness_event_id)
         IN /\ i # 0 /\ Describes(r, Events(artifact)[i])
            /\ Events(artifact)[i].receipt_id = r.receipt_id
<1> DEFINE r == artifact.receipts[found]
           events == issued.events
           c == Companion(events, r.witness_event_id)
<1>1. found \in DOMAIN artifact.receipts
  BY ReceiptsAreSeq DEF IsSeq
<1>2. PICK a \in 1..Len(log), b \in 1..Len(log) : PackageOf(issued, a, b)
  BY PackageIs
<1>3. /\ LogFits /\ IsSeq(events) /\ DOMAIN issued.receipts = 1..Len(events)
      /\ Stretch(events, a, b)
      /\ \A k \in 1..Len(events) :
           /\ a + k - 1 \in 1..Len(log) /\ events[k] = log[a + k - 1]
           /\ ReceiptOf(issued.receipts[k], events[k])
  BY <1>2, PackageEvents DEF AllFormed, EInv
<1>4. Events(artifact) = events
  BY EventsFaithful
<1>5. VerifyPackageReceipt(r, events, key)
  BY <1>1, <1>4 DEF VerifyEvidencePackage
<1>6. PICK j \in DOMAIN issued.receipts :
        r.schema_version = "v0.2" => r = issued.receipts[j]
  BY <1>1, ReceiptsFaithful
<1> HIDE DEF r, events, c
<1>7. /\ c # 0
      /\ \/ /\ r.schema_version = "v0.2" /\ VerifyReceiptV02(r, key)
            /\ CrossCheckAgainstEvent(r, events[c])
         \/ r.schema_version = "v0.1" /\ VerifyReceipt(ParseReceipt(r), events[c])
  BY <1>5, Zenon DEF VerifyPackageReceipt, Companion, c
<1>8. c \in 1..Len(events) /\ events[c].event_id = r.witness_event_id
  BY <1>3, <1>7, CompanionIs DEF c
<1>9. FirstWith(events, r.witness_event_id) = c
  BY <1>3, <1>8, FirstIsCompanion
<1>13. /\ Describes(ParseReceipt(r), events[c]) => Describes(r, events[c])
       /\ ParseReceipt(r).receipt_id = r.receipt_id
  BY DEF Describes, ParseReceipt, V01Fields
<1>10. Describes(r, events[c])
  BY <1>7, <1>13 DEF CrossCheckAgainstEvent, VerifyReceipt
<1>11. events[c].receipt_id = r.receipt_id
  <2>1. CASE r.schema_version # "v0.2"
    BY <1>7, <1>13, <2>1 DEF VerifyReceipt
  <2>2. CASE r.schema_version = "v0.2"
    <3>1. j \in 1..Len(events) /\ Says(r, events[j])
      BY <1>3, <1>6, <2>2 DEF ReceiptOf, ReceiptBy, IsV01, IsV02
    <3>2. PICK m \in 1..Len(log) : events[c] = log[m]
      BY <1>3, <1>8
    <3>3. PICK n \in 1..Len(log) : events[j] = log[n]
      BY <1>3, <3>1
    <3>4. r.receipt_id = n /\ r.witness_event_id = n
      <4>1. log[n].receipt_id = n /\ log[n].event_id = n
        BY <1>3, RecordedIs
      <4>2. r.receipt_id = events[j].receipt_id /\ r.witness_event_id = events[j].event_id
        BY <3>1 DEF Says
      <4>3. QED
        BY <3>3, <4>1, <4>2
    <3>5. events[c].event_id = m /\ events[c].receipt_id = m
      BY <1>3, <3>2, RecordedIs
    <3>6. QED
      BY <1>8, <3>4, <3>5
  <2>3. QED
    BY <2>1, <2>2
<1>12. QED
  BY <1>4, <1>7, <1>9, <1>10, <1>11 DEF r

\* The commands that look events and receipts up agree with verify and each other.
THEOREM InspectorsDoAgree == Spec => []InspectorsAgree
<1>1. EInv => InspectorsAgree
  <2>1. SUFFICES ASSUME EInv
                 PROVE  /\ (artifact.kind = "chain" /\ Valid(NoKey)) =>
                             \A id \in Identifiers :
                               LET i == FindToReplay(Events(artifact), id)
                               IN (i # 0 /\ Events(artifact)[1].sequence = 0) =>
                                    /\ RunReplay(Events(artifact), id) = 0
                                    /\ id.short \/ FindToShow(Events(artifact), id) = i
                        /\ (artifact.kind = "package" /\ Valid(signer)) =>
                             \A id \in Identifiers :
                               LET found == FindInPackage(artifact.receipts, id)
                                   r == artifact.receipts[found]
                                   i == FirstWith(Events(artifact), r.witness_event_id)
                               IN found # 0 =>
                                    /\ i # 0 /\ Describes(r, Events(artifact)[i])
                                    /\ id.by = "receipt_id" => Events(artifact)[i].receipt_id \in id.fits
    BY Zenon DEF InspectorsAgree, FirstWith
  <2>2. ASSUME artifact.kind = "chain", Valid(NoKey), NEW id,
               FindToReplay(Events(artifact), id) # 0, Events(artifact)[1].sequence = 0
        PROVE  /\ RunReplay(Events(artifact), id) = 0
               /\ id.short \/ FindToShow(Events(artifact), id) = FindToReplay(Events(artifact), id)
    <3>1. VerifyChain(Events(artifact), NoHash).valid
      BY <2>2 DEF Valid, RunVerify, RunVerifyChain, Plainly
    <3>2. IsSeq(Events(artifact))
      <4>1. Beginning(issued.events) /\ (artifact = issued \/ EventsChanged(artifact, issued)) /\ LogFits
        BY <2>1, <2>2, ChainIs DEF EInv
      <4>2. AllFormed(issued.events)
        BY <4>1, BeginningIs
      <4>3. AllFormed(Events(artifact))
        BY <4>1, <4>2, ChangedReads, ReadsAsWritten DEF EventsChanged, Events, Parsed
      <4>4. QED
        BY <4>3 DEF AllFormed
    <3>3. RunReplay(Events(artifact), id) = 0
      BY <2>2, <3>1, <3>2, FoundReplays
    <3>4. QED
      BY <2>2, <3>3, ShowFindsTheSame
  <2>3. ASSUME artifact.kind = "package", Valid(signer), NEW id,
               FindInPackage(artifact.receipts, id) # 0
        PROVE  LET found == FindInPackage(artifact.receipts, id)
                   r == artifact.receipts[found]
                   i == FirstWith(Events(artifact), r.witness_event_id)
               IN /\ i # 0 /\ Describes(r, Events(artifact)[i])
                  /\ id.by = "receipt_id" => Events(artifact)[i].receipt_id \in id.fits
    <3> DEFINE found == FindInPackage(artifact.receipts, id)
    <3>1. VerifyEvidencePackage(artifact, signer)
      BY <2>3 DEF Valid, RunVerify, VerifyArtifact, Plainly
    <3>2. /\ found \in 1..Len(artifact.receipts)
          /\ id.by = "receipt_id" => artifact.receipts[found].receipt_id \in id.fits
      BY <2>1, <2>3, ReceiptsAreSeq, FoundInPackage
    <3> HIDE DEF found
    <3>3. LET r == artifact.receipts[found]
              i == FirstWith(Events(artifact), r.witness_event_id)
          IN /\ i # 0 /\ Describes(r, Events(artifact)[i])
             /\ Events(artifact)[i].receipt_id = r.receipt_id
      BY <2>1, <2>3, <3>1, <3>2, ShownBeside
    <3>4. QED
      BY <3>2, <3>3 DEF found
  <2>4. QED
    BY <2>2, <2>3
<1>2. QED
  BY <1>1, EvidenceInvariance, PTL

-----------------------------------------------------------------------------
(* The log that is exported is one the ledger allows *)

\* The place of the event that has a hash; of no event, before the first.
PlaceOf(h) == IF h = NoHash THEN 0 ELSE CHOOSE i \in 1..Len(log) : log[i].event_hash = h

\* The log as the ledger sees it, hashes being numbers.
LedgerLog ==
  [i \in 1..Len(log) |->
     [hash |-> PlaceOf(log[i].event_hash), prev |-> PlaceOf(log[i].previous_event_hash),
      seq |-> log[i].sequence, op |-> NoKey, body |-> log[i].outcome]]

Ledger == INSTANCE ChainLedger
            WITH chain <- LedgerLog, EventHash <- Nat \ {0}, Op <- {}, NoOp <- NoKey, Body <- Outcomes

Entry(i) == [hash |-> i, prev |-> i - 1, seq |-> i - 1, op |-> NoKey, body |-> log[i].outcome]

LedgerFits ==
  /\ IsSeq(log) /\ LedgerLog = [i \in 1..Len(log) |-> Entry(i)]
  /\ \A i \in 1..Len(log) : log[i].outcome \in Outcomes

\* Every event names the hash of the one before, and no other has that hash.
LEMMA LogIsLedger == ASSUME LogFits PROVE LedgerFits
<1>1. Len(log) \in Nat /\ IsSeq(log)
  BY DEF LogFits, IsSeq
<1>2. ASSUME NEW i \in 1..Len(log)
      PROVE  PlaceOf(log[i].event_hash) = i
  <2>1. log[i].event_hash # NoHash
    BY RecordedIs
  <2>2. \A j \in 1..Len(log) : log[j].event_hash = log[i].event_hash => j = i
    BY RecordedOnce
  <2>3. QED
    BY <2>1, <2>2 DEF PlaceOf
<1>3. ASSUME NEW i \in 1..Len(log)
      PROVE  PlaceOf(log[i].previous_event_hash) = i - 1
  <2>1. log[i].previous_event_hash = PreviousHash(log, i)
    BY RecordedIs
  <2>2. CASE i = 1
    BY <2>1, <2>2 DEF PreviousHash, PlaceOf
  <2>3. CASE i # 1
    <3>1. i - 1 \in 1..Len(log)
      BY <1>1, <2>3
    <3>2. log[i].previous_event_hash = log[i - 1].event_hash
      BY <2>1, <2>3 DEF PreviousHash
    <3>3. QED
      BY <1>2, <3>1, <3>2
  <2>4. QED
    BY <2>2, <2>3
<1>4. ASSUME NEW i \in 1..Len(log)
      PROVE  log[i].sequence = i - 1 /\ log[i].outcome \in Outcomes
  BY RecordedIs
<1>5. LedgerLog = [i \in 1..Len(log) |-> Entry(i)]
  BY <1>2, <1>3, <1>4 DEF LedgerLog, Entry
<1>6. QED
  BY <1>1, <1>4, <1>5 DEF LedgerFits

\* Recording is a step of the ledger.
LEMMA RecordExtends ==
  ASSUME LogFits, LedgerFits, LedgerFits', NEW outcome \in Outcomes, Record(outcome)
  PROVE  Ledger!Next
<1> DEFINE n == Len(log)
           body == log'[n + 1].outcome
           next == [hash |-> n + 1, prev |-> n, seq |-> n, op |-> NoKey, body |-> body]
<1>1. /\ n \in Nat /\ Len(log') = n + 1 /\ \A i \in 1..n : log'[i] = log[i]
  BY RecordKeepsLog DEF LedgerFits, IsSeq
<1>2. body \in Outcomes
  BY <1>1 DEF LedgerFits
<1>3. /\ LedgerLog = [i \in 1..n |-> Entry(i)]
      /\ LedgerLog' = [i \in 1..(n + 1) |-> IF i = n + 1 THEN next ELSE Entry(i)]
  <2>1. LedgerLog' = [i \in 1..(n + 1) |-> [hash |-> i, prev |-> i - 1, seq |-> i - 1,
                                           op |-> NoKey, body |-> log'[i].outcome]]
    BY <1>1 DEF LedgerFits, Entry
  <2>2. (n + 1) - 1 = n /\ \A i \in 1..(n + 1) : i # n + 1 => i \in 1..n
    BY <1>1
  <2>3. QED
    BY <1>1, <2>1, <2>2 DEF LedgerFits, Entry
<1> HIDE DEF n, body
<1>4. /\ LedgerLog \in Seq({Entry(i) : i \in 1..n}) /\ Len(LedgerLog) = n
      /\ n # 0 => Last(LedgerLog) = Entry(n)
      /\ \A i \in DOMAIN LedgerLog : i \in 1..n /\ LedgerLog[i] = Entry(i)
  <2>1. LedgerLog \in [1..n -> {Entry(i) : i \in 1..n}]
    BY <1>3
  <2>2. LedgerLog \in Seq({Entry(i) : i \in 1..n}) /\ Len(LedgerLog) = n
    BY <1>1, <2>1 DEF n
  <2>3. n # 0 => n \in 1..n
    BY <1>1 DEF n
  <2>4. DOMAIN LedgerLog = 1..n /\ \A i \in 1..n : LedgerLog[i] = Entry(i)
    BY <1>3
  <2>5. n # 0 => LedgerLog[n] = Entry(n)
    BY <2>3, <2>4
  <2>6. Last(LedgerLog) = LedgerLog[n]
    BY <2>2 DEF Last
  <2>7. QED
    BY <2>2, <2>4, <2>5, <2>6
<1>5. Ledger!HeadHash(LedgerLog) = n
  <2>1. LedgerLog = <<>> <=> n = 0
    BY <1>4
  <2>2. QED
    BY <1>4, <2>1 DEF Ledger!HeadHash, Ledger!Genesis, Ledger!Last, Last, Entry
<1>6. next = Ledger!NextEvent(LedgerLog, n + 1, NoKey, body)
  BY <1>4, <1>5 DEF Ledger!NextEvent
<1>7. LedgerLog' = Append(LedgerLog, next)
  BY <1>1, <1>3, <1>4 DEF n
<1>8. Ledger!FreshHash(LedgerLog, n + 1)
  <2>1. \A i \in 1..n : i # n + 1
    BY <1>1 DEF n
  <2>2. QED
    BY <1>4, <2>1 DEF Ledger!FreshHash, Entry
<1>9. Ledger!Extend(n + 1, NoKey, body)
  BY <1>6, <1>7, <1>8 DEF Ledger!Extend
<1>10. n + 1 \in Nat \ {0}
  BY <1>1 DEF n
<1>11. QED
  BY <1>2, <1>9, <1>10 DEF Ledger!Next, body

\* The log that receipts and packages are made from grows as the ledger that the
\* event log implements (hash-chain.ts, generate.ts).
THEOREM LogImplementsLedger == Spec => Ledger!Spec
<1>1. Init => Ledger!Init
  BY DEF Init, Ledger!Init, LedgerLog
<1>2. EInv => LogFits /\ LedgerFits
  BY LogIsLedger DEF EInv
<1>3. ASSUME LogFits, LedgerFits, LedgerFits', [Next]_vars
      PROVE  [Ledger!Next]_LedgerLog
  <2>1. ASSUME log' = log
        PROVE  LedgerLog' = LedgerLog
    <3>1. LedgerLog' = [i \in 1..Len(log') |-> Entry(i)']
      BY <1>3 DEF LedgerFits
    <3>2. LedgerLog = [i \in 1..Len(log) |-> Entry(i)]
      BY <1>3 DEF LedgerFits
    <3>3. QED
      BY <2>1, <3>1, <3>2 DEF Entry
  <2>2. ASSUME NEW outcome \in Outcomes, Record(outcome)
        PROVE  Ledger!Next
    BY <1>3, <2>2, RecordExtends
  <2>3. (\E outcome \in Outcomes : Record(outcome)) \/ log' = log
    BY <1>3 DEF Next, vars, ExportV01, ExportV02, CopyChain, TakeReceiptOfLog,
                TakeReceiptOfPackage, TakeReceipt, Alter, AlterFile, Rearrange, AlterEvent, DropDefault, AlterReceipt,
                AlterReceiptAlone
  <2>4. QED
    BY <2>1, <2>2, <2>3
<1>4. QED
  BY <1>1, <1>2, <1>3, EvidenceInvariance, PTL DEF Spec, Ledger!Spec
====
