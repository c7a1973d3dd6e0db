--------------------------- MODULE EventLogProofs ---------------------------
(***************************************************************************)
(* Proofs about EventLog: type correctness, the linked chain, operation    *)
(* ids, what readers see, what is acknowledged, and that the log           *)
(* implements ChainLedger, for any set of processes and any bounds.        *)
(***************************************************************************)
EXTENDS EventLog, SequenceTheorems, TLAPS

-----------------------------------------------------------------------------
(* The inductive invariant *)

\* The critical section belongs to the process that holds the lock.
LockHeld == \A p \in Proc : pc[p] \in InLock <=> lock = p

\* Program points of a call whose event is not in the log yet.
Unwritten == {"rebuild", "waitDraft", "waitFinal", "lockedDraft", "lockedFinal",
              "write", "writing"}

\* Event ids are generated once: the log has each at most once, and an event
\* still to be written has one that nobody else has.
IdsOnce ==
  /\ \A i \in DOMAIN log : log[i].hash \in 1..issued
  /\ \A i, j \in DOMAIN log : log[i].hash = log[j].hash => i = j
  /\ \A p \in Proc : pc[p] \in Unwritten =>
       /\ draft[p].hash \in 1..issued
       /\ \A i \in DOMAIN log : log[i].hash # draft[p].hash
       /\ \A q \in Proc : pc[q] \in Unwritten /\ draft[q].hash = draft[p].hash => q = p

\* appendEvent is given no operation id, and the head its caller read from a
\* log whose cache needs rebuilding is not the null head.
FinalDrafts ==
  \A p \in Proc :
    /\ pc[p] \in {"rebuild", "waitFinal", "lockedFinal"} => draft[p].op = NoOp
    /\ pc[p] = "rebuild" => draft[p].seq >= 1

\* An event being written continues the log as it is.
DraftFits ==
  \A p \in Proc : pc[p] \in {"write", "writing"} =>
    /\ draft[p].prev = Ledger!HeadHash(log)
    /\ draft[p].seq = Len(log)
    /\ draft[p].op # NoOp => \A i \in DOMAIN log : log[i].op # draft[p].op

\* So does the unfinished line after the last newline, whoever left it.
TornFits ==
  torn.kind # "none" =>
    /\ torn.event.prev = Ledger!HeadHash(log)
    /\ torn.event.seq = Len(log)

\* The result of a call that is about to return is in the log, or was cut.
Recorded ==
  /\ \A p \in Proc : pc[p] \in {"cache", "release"} =>
       draft[p] \in cut \/ \E i \in DOMAIN log : log[i] = draft[p]
  /\ \A e \in acked : e \in cut \/ \E i \in DOMAIN log : log[i] = e

\* The first n events a reader was given are those of the log.
Agree(n) == n <= Len(seen) /\ n <= Len(log) /\ \A i \in 1..n : seen[i] = log[i]

Kept == IF reader.broken # 0 THEN reader.broken - 1
        ELSE IF reader.on \/ seen = <<>> THEN Len(seen) ELSE Len(seen) - 1

\* While no line was truncated under it a reader has exactly the lines it is past;
\* then at most one more, which continues them.  What it had when one was is
\* still there.
ReaderFits ==
  /\ reader.stale => reader.broken # 0
  /\ reader.part # "none" => reader.on
  /\ reader.broken = 0 /\ reader.on => Len(seen) = reader.at
  /\ reader.broken = 0 => Ledger!ChainLinked(seen)
  /\ Agree(Kept)

IInv ==
  /\ TypeOK
  /\ LockHeld
  /\ ChainStaysLinked
  /\ OperationsOnce
  /\ IdsOnce
  /\ FinalDrafts
  /\ DraftFits
  /\ TornFits
  /\ Recorded
  /\ ReaderFits

-----------------------------------------------------------------------------
(* Lemmas about chains *)

\* The draft of an idle process is an event too.
LEMMA NoEventTyped == NoEvent \in Event /\ NotTorn.event = NoEvent
  BY BodyAssumption DEF NoEvent, NotTorn, Event, Genesis, Ledger!Genesis

\* The head hash, spelled out.
LEMMA HeadHashIs ==
  ASSUME NEW c
  PROVE  Ledger!HeadHash(c) = IF c = <<>> THEN 0 ELSE c[Len(c)].hash
BY DEF Ledger!HeadHash, Ledger!Last, Ledger!Genesis

\* Links and numbers, spelled out.
LEMMA LinkedIs ==
  ASSUME NEW c
  PROVE  Ledger!ChainLinked(c) <=>
           \A i \in DOMAIN c :
             /\ c[i].seq = i - 1
             /\ c[i].prev = IF i = 1 THEN 0 ELSE c[i - 1].hash
BY DEF Ledger!ChainLinked, Ledger!LinkedAt, Ledger!Genesis

\* A linked chain extended by the event that names its head is linked.
LEMMA LinkedAppend ==
  ASSUME NEW c \in Seq(Event), NEW e \in Event, Ledger!ChainLinked(c),
         e.prev = Ledger!HeadHash(c), e.seq = Len(c)
  PROVE  Ledger!ChainLinked(Append(c, e))
<1> DEFINE d == Append(c, e)
<1>1. /\ Len(d) = Len(c) + 1 /\ DOMAIN d = 1..(Len(c) + 1) /\ Len(c) \in Nat
      /\ DOMAIN c = 1..Len(c)
      /\ \A i \in 1..Len(c) : d[i] = c[i]
      /\ d[Len(c) + 1] = e
  BY AppendProperties, LenProperties
<1>2. c = <<>> <=> Len(c) = 0
  BY EmptySeq
<1>3. e.prev = IF Len(c) = 0 THEN 0 ELSE c[Len(c)].hash
  BY <1>2, HeadHashIs
<1>4. \A i \in 1..Len(c) : c[i].seq = i - 1 /\ c[i].prev = IF i = 1 THEN 0 ELSE c[i - 1].hash
  BY <1>1, LinkedIs
<1>5. ASSUME NEW i \in 1..(Len(c) + 1)
      PROVE  d[i].seq = i - 1 /\ d[i].prev = IF i = 1 THEN 0 ELSE d[i - 1].hash
  <2>1. CASE i = Len(c) + 1
    <3>1. d[i] = e /\ i - 1 = Len(c) /\ (i = 1 <=> Len(c) = 0)
      BY <2>1, <1>1
    <3>2. i # 1 => d[i - 1] = c[Len(c)]
      <4>1. i # 1 => Len(c) \in 1..Len(c)
        BY <3>1, <1>1
      <4>2. QED
        BY <4>1, <3>1, <1>1
    <3>3. QED
      BY <3>1, <3>2, <1>3
  <2>2. CASE i # Len(c) + 1
    <3>1. i \in 1..Len(c) /\ (i # 1 => i - 1 \in 1..Len(c))
      BY <2>2, <1>1
    <3>2. QED
      BY <3>1, <1>1, <1>4
  <2>3. QED
    BY <2>1, <2>2
<1>6. QED
  BY <1>5, <1>1, LinkedIs

\* On a linked chain the head cache, used or rebuilt, gives the head of the
\* chain and its length.
LEMMA ChainHead ==
  ASSUME NEW c \in Seq(Event), Ledger!ChainLinked(c), cache \in [head : Nat, seq : Nat]
  PROVE  /\ ReadChainHead(c).head = Ledger!HeadHash(c)
         /\ ReadChainHead(c).seq = Len(c)
         /\ ReadChainHead(c).head \in Nat
         /\ RebuiltCache(c) \in [head : Nat, seq : Nat]
         /\ RebuiltCache(c) # cache => ReadChainHead(c).seq >= 1
<1>1. CASE c = <<>>
  BY <1>1, HeadHashIs DEF ReadChainHead, RebuiltCache, Genesis, Ledger!Genesis
<1>2. CASE c # <<>>
  <2>1. Len(c) \in Nat \ {0} /\ Len(c) \in DOMAIN c
    BY <1>2, EmptySeq, LenProperties
  <2>2. c[Len(c)] \in Event
    BY <2>1, ElementOfSeq
  <2>3. c[Len(c)].seq = Len(c) - 1
    BY <2>1, LinkedIs
  <2>4. QED
    BY <1>2, <2>1, <2>2, <2>3, HeadHashIs
       DEF ReadChainHead, RebuiltCache, CacheMatches, Last, Event
<1>3. QED
  BY <1>1, <1>2

\* What a reader gets is a linked chain of events.
LEMMA LinesLinked ==
  ASSUME IInv
  PROVE  Lines \in Seq(Event) /\ Ledger!ChainLinked(Lines)
<1>1. log \in Seq(Event) /\ Ledger!ChainLinked(log) /\ torn.event \in Event
  BY DEF IInv, TypeOK, ChainStaysLinked
<1>2. CASE torn.kind = "whole"
  <2>1. Ledger!ChainLinked(Append(log, torn.event))
    BY <1>1, <1>2, LinkedAppend DEF IInv, TornFits
  <2>2. QED
    BY <1>1, <1>2, <2>1, AppendProperties DEF Lines
<1>3. CASE torn.kind # "whole"
  BY <1>1, <1>3 DEF Lines
<1>4. QED
  BY <1>2, <1>3

\* A new draft has a new event id and changes nothing that is in the file.
LEMMA AppendDraftEventKeeps ==
  ASSUME IInv, NEW p \in Proc, NEW op \in Op \cup {NoOp}, NEW body \in Body,
         AppendDraftEvent(p, op, body)
  PROVE  IInv'
<1>1. TypeOK'
  <2>1. UNCHANGED <<fileVars, lock, acked, cut, readVars, crashes>>
    BY DEF AppendDraftEvent
  <2>2. issued' \in 0..MaxCalls /\ issued + 1 \in Nat
    BY CallsAssumption DEF IInv, TypeOK, AppendDraftEvent
  <2>3. draft' \in [Proc -> Event]
    BY <2>2 DEF IInv, TypeOK, AppendDraftEvent, Event, Genesis, Ledger!Genesis
  <2>4. pc' \in [Proc -> PCs]
    BY DEF IInv, TypeOK, AppendDraftEvent, Goto, PCs, Waiting
  <2>5. QED
    BY <2>1, <2>2, <2>3, <2>4 DEF IInv, TypeOK, readVars, fileVars
<1>2. LockHeld'
  BY DEF IInv, AppendDraftEvent, Goto, LockHeld, InLock
<1>3. ChainStaysLinked' /\ OperationsOnce'
  BY DEF IInv, AppendDraftEvent, fileVars, ChainStaysLinked, OperationsOnce
<1>4. IdsOnce'
  <2>1. issued \in Nat /\ issued' = issued + 1 /\ log' = log
    BY CallsAssumption DEF IInv, TypeOK, AppendDraftEvent, fileVars
  <2>2. /\ draft'[p].hash = issued + 1 /\ pc'[p] \in Unwritten
        /\ \A q \in Proc : q # p => draft'[q] = draft[q] /\ pc'[q] = pc[q]
    BY DEF IInv, TypeOK, AppendDraftEvent, Goto, Unwritten
  <2>3. \A i \in DOMAIN log : log[i].hash \in 1..issued
    BY DEF IInv, IdsOnce
  <2>4. \A q \in Proc : q # p /\ pc'[q] \in Unwritten => draft'[q].hash \in 1..issued
    BY <2>2 DEF IInv, IdsOnce
  <2>5. /\ \A i \in DOMAIN log' : log'[i].hash \in 1..issued'
        /\ \A i, j \in DOMAIN log' : log'[i].hash = log'[j].hash => i = j
    BY <2>1, <2>3 DEF IInv, IdsOnce
  <2>6. ASSUME NEW q \in Proc, pc'[q] \in Unwritten
        PROVE  /\ draft'[q].hash \in 1..issued'
               /\ \A i \in DOMAIN log' : log'[i].hash # draft'[q].hash
               /\ \A r \in Proc : pc'[r] \in Unwritten /\ draft'[r].hash = draft'[q].hash
                                   => r = q
    <3>1. CASE q = p
      BY <3>1, <2>1, <2>2, <2>3, <2>4
    <3>2. CASE q # p
      <4>1. \A i \in DOMAIN log : log[i].hash # draft[q].hash
        BY <3>2, <2>2, <2>6 DEF IInv, IdsOnce
      <4>2. \A r \in Proc : r # p /\ pc[r] \in Unwritten /\ draft[r].hash = draft[q].hash
                              => r = q
        BY <3>2, <2>2, <2>6 DEF IInv, IdsOnce
      <4>3. draft'[q].hash \in 1..issued /\ draft'[q] = draft[q]
        BY <3>2, <2>2, <2>4, <2>6
      <4>4. QED
        BY <4>1, <4>2, <4>3, <2>1, <2>2
    <3>3. QED
      BY <3>1, <3>2
  <2>7. QED
    BY <2>5, <2>6 DEF IdsOnce
<1>5. FinalDrafts'
  BY DEF IInv, AppendDraftEvent, Goto, FinalDrafts
<1>6. DraftFits'
  BY DEF IInv, AppendDraftEvent, Goto, fileVars, DraftFits
<1>7. TornFits'
  BY DEF IInv, AppendDraftEvent, fileVars, TornFits
<1>8. Recorded'
  BY DEF IInv, AppendDraftEvent, Goto, fileVars, Recorded
<1>9. ReaderFits'
  BY DEF IInv, AppendDraftEvent, fileVars, readVars, Kept, ReaderFits, Agree
<1>10. QED
  BY <1>1, <1>2, <1>3, <1>4, <1>5, <1>6, <1>7, <1>8, <1>9 DEF IInv

\* So does one finished by its caller; its head and number come from a linked
\* chain, whatever the reader saw of an unfinished line.
LEMMA AppendEventKeeps ==
  ASSUME IInv, NEW p \in Proc, NEW body \in Body, AppendEvent(p, body)
  PROVE  IInv'
<1>1. TypeOK'
  <2>1. /\ ReadChainHead(Lines).head \in Nat /\ ReadChainHead(Lines).seq \in Nat
        /\ RebuiltCache(Lines) # cache => ReadChainHead(Lines).seq >= 1
    BY LinesLinked, ChainHead, LenProperties DEF IInv, TypeOK, readVars
  <2>2. issued + 1 \in 0..MaxCalls /\ issued + 1 \in Nat
    BY CallsAssumption DEF IInv, TypeOK, readVars, AppendEvent
  <2>3. TypeOK
    BY DEF IInv
  <2>4. [hash |-> issued + 1, prev |-> ReadChainHead(Lines).head,
         seq |-> ReadChainHead(Lines).seq, op |-> NoOp, body |-> body] \in Event
    BY <2>1, <2>2 DEF Event
  <2>5. draft' \in [Proc -> Event]
    BY <2>3, <2>4 DEF AppendEvent, TypeOK, readVars
  <2>6. pc' \in [Proc -> PCs]
    BY <2>3 DEF AppendEvent, Goto, TypeOK, readVars, PCs, Waiting
  <2>7. QED
    BY <2>2, <2>3, <2>5, <2>6 DEF AppendEvent, fileVars, TypeOK, readVars
<1>2. LockHeld'
  BY DEF IInv, AppendEvent, Goto, LockHeld, InLock
<1>3. ChainStaysLinked' /\ OperationsOnce'
  BY DEF IInv, AppendEvent, fileVars, ChainStaysLinked, OperationsOnce
<1>4. IdsOnce'
  <2>1. issued \in Nat /\ issued' = issued + 1 /\ log' = log
    BY CallsAssumption DEF IInv, TypeOK, AppendEvent, fileVars
  <2>2. /\ draft'[p].hash = issued + 1 /\ pc'[p] \in Unwritten
        /\ \A q \in Proc : q # p => draft'[q] = draft[q] /\ pc'[q] = pc[q]
    BY DEF IInv, TypeOK, AppendEvent, Goto, Unwritten
  <2>3. \A i \in DOMAIN log : log[i].hash \in 1..issued
    BY DEF IInv, IdsOnce
  <2>4. \A q \in Proc : q # p /\ pc'[q] \in Unwritten => draft'[q].hash \in 1..issued
    BY <2>2 DEF IInv, IdsOnce
  <2>5. /\ \A i \in DOMAIN log' : log'[i].hash \in 1..issued'
        /\ \A i, j \in DOMAIN log' : log'[i].hash = log'[j].hash => i = j
    BY <2>1, <2>3 DEF IInv, IdsOnce
  <2>6. ASSUME NEW q \in Proc, pc'[q] \in Unwritten
        PROVE  /\ draft'[q].hash \in 1..issued'
               /\ \A i \in DOMAIN log' : log'[i].hash # draft'[q].hash
               /\ \A r \in Proc : pc'[r] \in Unwritten /\ draft'[r].hash = draft'[q].hash
                                   => r = q
    <3>1. CASE q = p
      BY <3>1, <2>1, <2>2, <2>3, <2>4
    <3>2. CASE q # p
      <4>1. \A i \in DOMAIN log : log[i].hash # draft[q].hash
        BY <3>2, <2>2, <2>6 DEF IInv, IdsOnce
      <4>2. \A r \in Proc : r # p /\ pc[r] \in Unwritten /\ draft[r].hash = draft[q].hash
                              => r = q
        BY <3>2, <2>2, <2>6 DEF IInv, IdsOnce
      <4>3. draft'[q].hash \in 1..issued /\ draft'[q] = draft[q]
        BY <3>2, <2>2, <2>4, <2>6
      <4>4. QED
        BY <4>1, <4>2, <4>3, <2>1, <2>2
    <3>3. QED
      BY <3>1, <3>2
  <2>7. QED
    BY <2>5, <2>6 DEF IdsOnce
<1>5. FinalDrafts'
  <2>1. /\ ReadChainHead(Lines).head \in Nat /\ ReadChainHead(Lines).seq \in Nat
        /\ RebuiltCache(Lines) # cache => ReadChainHead(Lines).seq >= 1
    BY LinesLinked, ChainHead, LenProperties DEF IInv, TypeOK
  <2>2. /\ draft'[p].op = NoOp /\ draft'[p].seq = ReadChainHead(Lines).seq
        /\ pc'[p] = "rebuild" => RebuiltCache(Lines) # cache
    BY DEF IInv, TypeOK, AppendEvent, Goto
  <2>3. \A q \in Proc : q # p => draft'[q] = draft[q] /\ pc'[q] = pc[q]
    BY DEF IInv, TypeOK, AppendEvent, Goto
  <2>4. QED
    BY <2>1, <2>2, <2>3 DEF IInv, FinalDrafts
<1>6. DraftFits'
  BY DEF IInv, AppendEvent, Goto, fileVars, DraftFits
<1>7. TornFits'
  BY DEF IInv, AppendEvent, fileVars, TornFits
<1>8. Recorded'
  BY DEF IInv, AppendEvent, Goto, fileVars, Recorded
<1>9. ReaderFits'
  BY DEF IInv, AppendEvent, fileVars, readVars, Kept, ReaderFits, Agree
<1>10. QED
  BY <1>1, <1>2, <1>3, <1>4, <1>5, <1>6, <1>7, <1>8, <1>9 DEF IInv

\* The cache is written behind everybody's back; no invariant but its type
\* depends on it.
LEMMA WriteRebuiltCacheKeeps ==
  ASSUME IInv, NEW p \in Proc, WriteRebuiltCache(p)
  PROVE  IInv'
<1>1. TypeOK'
  <2>1. draft[p] \in Event /\ draft[p].seq >= 1
    BY DEF IInv, TypeOK, readVars, FinalDrafts, WriteRebuiltCache
  <2>2. draft[p].seq - 1 \in Nat /\ draft[p].prev \in Nat
    BY <2>1 DEF Event
  <2>3. QED
    BY <2>2 DEF IInv, WriteRebuiltCache, Goto, TypeOK, readVars, PCs, Waiting, InLock, Event,
                NoEvent, Genesis, Ledger!Genesis, NotTorn
<1>2. LockHeld'
  BY DEF IInv, WriteRebuiltCache, Goto, LockHeld, InLock
<1>3. ChainStaysLinked' /\ OperationsOnce'
  BY DEF IInv, WriteRebuiltCache, ChainStaysLinked, OperationsOnce
<1>4. IdsOnce'
  BY DEF IInv, WriteRebuiltCache, Goto, IdsOnce, Unwritten
<1>5. FinalDrafts'
  BY DEF IInv, WriteRebuiltCache, Goto, FinalDrafts
<1>6. DraftFits'
  BY DEF IInv, WriteRebuiltCache, Goto, DraftFits
<1>7. TornFits'
  BY DEF IInv, WriteRebuiltCache, TornFits
<1>8. Recorded'
  BY DEF IInv, WriteRebuiltCache, Goto, Recorded
<1>9. ReaderFits'
  BY DEF IInv, WriteRebuiltCache, readVars, Kept, ReaderFits, Agree
<1>10. QED
  BY <1>1, <1>2, <1>3, <1>4, <1>5, <1>6, <1>7, <1>8, <1>9 DEF IInv

\* Truncating the torn tail leaves the complete lines alone.
LEMMA AcquireAndHealKeeps ==
  ASSUME IInv, NEW p \in Proc, AcquireAndHeal(p)
  PROVE  IInv'
<1>1. TypeOK'
  <2>1. TypeOK /\ NotTorn \in [kind : Kinds, event : Event]
    BY NoEventTyped DEF IInv, NotTorn, Kinds
  <2>2. pc' \in [Proc -> PCs]
    BY <2>1 DEF AcquireAndHeal, Goto, TypeOK, readVars, PCs, InLock
  <2>3. log' = log /\ reader' = Healed
    BY DEF AcquireAndHeal
  <2>4. Len(seen) + 1 \in Nat
    BY <2>1, LenProperties DEF TypeOK
  <2>5. reader' \in [on : BOOLEAN, at : 0..Len(log'), part : Kinds, event : Event,
                     stale : BOOLEAN, broken : Nat]
    BY <2>1, <2>3, <2>4 DEF Healed, TypeOK
  <2>6. QED
    BY <2>1, <2>2, <2>5 DEF AcquireAndHeal, TypeOK
<1>2. LockHeld'
  BY ProcAssumption DEF IInv, AcquireAndHeal, Goto, TypeOK, LockHeld, InLock
<1>3. ChainStaysLinked' /\ OperationsOnce'
  BY DEF IInv, AcquireAndHeal, ChainStaysLinked, OperationsOnce
<1>4. IdsOnce'
  BY DEF IInv, AcquireAndHeal, Goto, IdsOnce, Unwritten, Waiting
<1>5. FinalDrafts'
  BY DEF IInv, AcquireAndHeal, Goto, FinalDrafts, Waiting
<1>6. DraftFits'
  BY DEF IInv, AcquireAndHeal, Goto, DraftFits
<1>7. TornFits'
  BY DEF AcquireAndHeal, TornFits, NotTorn
<1>8. Recorded'
  BY DEF IInv, AcquireAndHeal, Goto, TypeOK, Recorded
<1>9. ReaderFits'
  <2>1. log' = log /\ seen' = seen /\ reader' = Healed
    BY DEF AcquireAndHeal
  <2>2. CASE reader.part # "none" /\ reader.at = Len(log)
    <3>1. /\ reader'.stale = TRUE /\ reader'.on = reader.on /\ reader'.part = reader.part
          /\ reader'.broken = IF reader.broken = 0 THEN Len(seen) + 1 ELSE reader.broken
      BY <2>1, <2>2 DEF Healed, IInv, TypeOK
    <3>2. Len(seen) \in Nat /\ reader.broken \in Nat
      BY LenProperties DEF IInv, TypeOK
    <3>3. Agree(reader'.broken - 1) /\ reader'.broken # 0
      BY <2>2, <3>1, <3>2 DEF IInv, Kept, ReaderFits
    <3>4. QED
      BY <2>1, <2>2, <3>1, <3>3 DEF IInv, Kept, ReaderFits, Agree
  <2>3. CASE ~(reader.part # "none" /\ reader.at = Len(log))
    BY <2>1, <2>3 DEF Healed, IInv, Kept, ReaderFits, Agree
  <2>4. QED
    BY <2>2, <2>3
<1>10. QED
  BY <1>1, <1>2, <1>3, <1>4, <1>5, <1>6, <1>7, <1>8, <1>9 DEF IInv

\* A call that gives up takes its draft with it.
LEMMA AcquireTimeoutKeeps ==
  ASSUME IInv, NEW p \in Proc, AcquireTimeout(p)
  PROVE  IInv'
<1>1. TypeOK'
  <2>1. TypeOK /\ NoEvent \in Event
    BY NoEventTyped DEF IInv
  <2>2. pc' \in [Proc -> PCs] /\ draft' \in [Proc -> Event]
    BY <2>1 DEF AcquireTimeout, Goto, Leave, TypeOK, readVars, PCs
  <2>3. QED
    BY <2>1, <2>2 DEF AcquireTimeout, fileVars, TypeOK, readVars
<1>2. LockHeld'
  BY DEF IInv, AcquireTimeout, Goto, Leave, LockHeld, Waiting, InLock
<1>3. ChainStaysLinked' /\ OperationsOnce'
  BY DEF IInv, AcquireTimeout, fileVars, ChainStaysLinked, OperationsOnce
<1>4. IdsOnce'
  BY DEF IInv, AcquireTimeout, Goto, Leave, fileVars, TypeOK, IdsOnce, Unwritten
<1>5. FinalDrafts'
  BY DEF IInv, AcquireTimeout, Goto, Leave, TypeOK, FinalDrafts
<1>6. DraftFits'
  BY DEF IInv, AcquireTimeout, Goto, Leave, fileVars, TypeOK, DraftFits
<1>7. TornFits'
  BY DEF IInv, AcquireTimeout, fileVars, TornFits
<1>8. Recorded'
  BY DEF IInv, AcquireTimeout, Goto, Leave, fileVars, TypeOK, Recorded
<1>9. ReaderFits'
  BY DEF IInv, AcquireTimeout, fileVars, readVars, Kept, ReaderFits, Agree
<1>10. QED
  BY <1>1, <1>2, <1>3, <1>4, <1>5, <1>6, <1>7, <1>8, <1>9 DEF IInv

\* The event a retry is given is one of the log.
LEMMA ReturnExistingKeeps ==
  ASSUME IInv, NEW p \in Proc, ReturnExisting(p)
  PROVE  IInv'
<1>1. TypeOK'
  <2>1. log \in Seq(Event) /\ Ledger!ChainLinked(log) /\ cache \in [head : Nat, seq : Nat]
    BY DEF IInv, TypeOK, readVars, ChainStaysLinked
  <2>2. /\ RebuiltCache(log) \in [head : Nat, seq : Nat]
        /\ ReadChainHead(log).head \in Nat /\ ReadChainHead(log).seq \in Nat
    BY <2>1, ChainHead, LenProperties
  <2>3. \A i \in DOMAIN log : log[i] \in Event
    BY <2>1, ElementOfSeq, LenProperties
  <2>4. TypeOK
    BY DEF IInv
  <2>5. draft' \in [Proc -> Event]
    BY <2>3, <2>4 DEF ReturnExisting, FindEventByOperationId, TypeOK, readVars
  <2>6. pc' \in [Proc -> PCs] /\ cache' \in [head : Nat, seq : Nat]
    BY <2>2, <2>4 DEF ReturnExisting, Goto, TypeOK, readVars, PCs, InLock
  <2>7. QED
    BY <2>4, <2>5, <2>6 DEF ReturnExisting, TypeOK, readVars
<1>2. LockHeld'
  BY DEF IInv, ReturnExisting, Goto, LockHeld, InLock
<1>3. ChainStaysLinked' /\ OperationsOnce'
  BY DEF IInv, ReturnExisting, ChainStaysLinked, OperationsOnce
<1>4. IdsOnce'
  <2>1. log' = log /\ issued' = issued /\ pc'[p] \notin Unwritten
    BY DEF IInv, TypeOK, ReturnExisting, Goto, Unwritten
  <2>2. \A q \in Proc : q # p => draft'[q] = draft[q] /\ pc'[q] = pc[q]
    BY DEF IInv, TypeOK, ReturnExisting, Goto
  <2>3. QED
    BY <2>1, <2>2 DEF IInv, IdsOnce
<1>5. FinalDrafts'
  BY DEF IInv, ReturnExisting, Goto, FinalDrafts
<1>6. DraftFits'
  BY DEF IInv, ReturnExisting, Goto, DraftFits
<1>7. TornFits'
  BY DEF IInv, ReturnExisting, TornFits
<1>8. Recorded'
  <2>1. log' = log /\ cut' = cut /\ acked' = acked
    BY DEF ReturnExisting
  <2>2. \E i \in DOMAIN log : log[i] = draft'[p]
    BY DEF IInv, TypeOK, ReturnExisting, FindEventByOperationId
  <2>3. \A q \in Proc : q # p => draft'[q] = draft[q] /\ pc'[q] = pc[q]
    BY DEF IInv, TypeOK, ReturnExisting, Goto
  <2>4. QED
    BY <2>1, <2>2, <2>3 DEF IInv, Recorded
<1>9. ReaderFits'
  BY DEF IInv, ReturnExisting, readVars, Kept, ReaderFits, Agree
<1>10. QED
  BY <1>1, <1>2, <1>3, <1>4, <1>5, <1>6, <1>7, <1>8, <1>9 DEF IInv

\* The draft gets the head and length of the log, and nobody else can write: it
\* fits.  No event of the log has its operation id.
LEMMA BuildDraftKeeps ==
  ASSUME IInv, NEW p \in Proc, BuildDraft(p)
  PROVE  IInv'
<1>1. TypeOK'
  <2>1. log \in Seq(Event) /\ Ledger!ChainLinked(log) /\ cache \in [head : Nat, seq : Nat]
    BY DEF IInv, TypeOK, readVars, ChainStaysLinked
  <2>2. /\ RebuiltCache(log) \in [head : Nat, seq : Nat]
        /\ ReadChainHead(log).head \in Nat /\ ReadChainHead(log).seq \in Nat
    BY <2>1, ChainHead, LenProperties
  <2>3. TypeOK /\ draft[p] \in Event
    BY DEF IInv, TypeOK, readVars
  <2>4. [draft[p] EXCEPT !.prev = ReadChainHead(log).head,
                         !.seq = ReadChainHead(log).seq] \in Event
    BY <2>2, <2>3 DEF Event
  <2>5. draft' \in [Proc -> Event]
    BY <2>3, <2>4 DEF BuildDraft, TypeOK, readVars
  <2>6. pc' \in [Proc -> PCs] /\ cache' \in [head : Nat, seq : Nat]
    BY <2>2, <2>3 DEF BuildDraft, Goto, TypeOK, readVars, PCs, InLock
  <2>7. QED
    BY <2>3, <2>5, <2>6 DEF BuildDraft, TypeOK, readVars
<1>2. LockHeld'
  BY DEF IInv, BuildDraft, Goto, LockHeld, InLock
<1>3. ChainStaysLinked' /\ OperationsOnce'
  BY DEF IInv, BuildDraft, ChainStaysLinked, OperationsOnce
<1>4. IdsOnce'
  BY DEF IInv, BuildDraft, Goto, TypeOK, IdsOnce, Unwritten
<1>5. FinalDrafts'
  BY DEF IInv, BuildDraft, Goto, TypeOK, FinalDrafts
<1>6. DraftFits'
  <2>1. log \in Seq(Event) /\ Ledger!ChainLinked(log) /\ cache \in [head : Nat, seq : Nat]
    BY DEF IInv, TypeOK, ChainStaysLinked
  <2>2. ReadChainHead(log).head = Ledger!HeadHash(log) /\ ReadChainHead(log).seq = Len(log)
    BY <2>1, ChainHead
  <2>3. log' = log /\ \A q \in Proc : q # p => draft'[q] = draft[q] /\ pc'[q] = pc[q]
    BY DEF IInv, TypeOK, BuildDraft, Goto
  <2>4. /\ draft'[p].prev = Ledger!HeadHash(log) /\ draft'[p].seq = Len(log)
        /\ draft'[p].op = draft[p].op
    BY <2>2 DEF IInv, TypeOK, BuildDraft, Event
  <2>5. draft[p].op # NoOp => \A i \in DOMAIN log : log[i].op # draft[p].op
    BY DEF BuildDraft, FindEventByOperationId
  <2>6. QED
    BY <2>3, <2>4, <2>5 DEF IInv, DraftFits
<1>7. TornFits'
  BY DEF IInv, BuildDraft, TornFits
<1>8. Recorded'
  BY DEF IInv, BuildDraft, Goto, TypeOK, Recorded
<1>9. ReaderFits'
  BY DEF IInv, BuildDraft, readVars, Kept, ReaderFits, Agree
<1>10. QED
  BY <1>1, <1>2, <1>3, <1>4, <1>5, <1>6, <1>7, <1>8, <1>9 DEF IInv

\* An event finished earlier that still names the head fits too.
LEMMA AcceptFinalKeeps ==
  ASSUME IInv, NEW p \in Proc, AcceptFinal(p)
  PROVE  IInv'
<1>1. TypeOK'
  <2>1. log \in Seq(Event) /\ Ledger!ChainLinked(log) /\ cache \in [head : Nat, seq : Nat]
    BY DEF IInv, TypeOK, readVars, ChainStaysLinked
  <2>2. /\ RebuiltCache(log) \in [head : Nat, seq : Nat]
        /\ ReadChainHead(log).head \in Nat /\ ReadChainHead(log).seq \in Nat
    BY <2>1, ChainHead, LenProperties
  <2>3. TypeOK
    BY DEF IInv
  <2>4. QED
    BY <2>2, <2>3 DEF AcceptFinal, Goto, TypeOK, readVars, PCs, InLock
<1>2. LockHeld'
  BY DEF IInv, AcceptFinal, Goto, LockHeld, InLock
<1>3. ChainStaysLinked' /\ OperationsOnce'
  BY DEF IInv, AcceptFinal, ChainStaysLinked, OperationsOnce
<1>4. IdsOnce'
  BY DEF IInv, AcceptFinal, Goto, IdsOnce, Unwritten
<1>5. FinalDrafts'
  BY DEF IInv, AcceptFinal, Goto, FinalDrafts
<1>6. DraftFits'
  <2>1. log \in Seq(Event) /\ Ledger!ChainLinked(log) /\ cache \in [head : Nat, seq : Nat]
    BY DEF IInv, TypeOK, ChainStaysLinked
  <2>2. ReadChainHead(log).head = Ledger!HeadHash(log) /\ ReadChainHead(log).seq = Len(log)
    BY <2>1, ChainHead
  <2>3. log' = log /\ \A q \in Proc : q # p => draft'[q] = draft[q] /\ pc'[q] = pc[q]
    BY DEF IInv, TypeOK, AcceptFinal, Goto
  <2>4. /\ draft'[p] = draft[p] /\ draft[p].prev = Ledger!HeadHash(log)
        /\ draft[p].seq = Len(log) /\ draft[p].op = NoOp
    BY <2>2 DEF IInv, FinalDrafts, AcceptFinal, Current
  <2>5. QED
    BY <2>3, <2>4 DEF IInv, DraftFits
<1>7. TornFits'
  BY DEF IInv, AcceptFinal, TornFits
<1>8. Recorded'
  BY DEF IInv, AcceptFinal, Goto, Recorded
<1>9. ReaderFits'
  BY DEF IInv, AcceptFinal, readVars, Kept, ReaderFits, Agree
<1>10. QED
  BY <1>1, <1>2, <1>3, <1>4, <1>5, <1>6, <1>7, <1>8, <1>9 DEF IInv

\* A stale one goes, and the lock with it.
LEMMA RejectStaleKeeps ==
  ASSUME IInv, NEW p \in Proc, RejectStale(p)
  PROVE  IInv'
<1>1. TypeOK'
  <2>1. log \in Seq(Event) /\ Ledger!ChainLinked(log) /\ cache \in [head : Nat, seq : Nat]
    BY DEF IInv, TypeOK, readVars, ChainStaysLinked
  <2>2. /\ RebuiltCache(log) \in [head : Nat, seq : Nat]
        /\ ReadChainHead(log).head \in Nat /\ ReadChainHead(log).seq \in Nat
    BY <2>1, ChainHead, LenProperties
  <2>3. TypeOK /\ NoEvent \in Event
    BY NoEventTyped DEF IInv
  <2>4. pc' \in [Proc -> PCs] /\ draft' \in [Proc -> Event]
    BY <2>3 DEF RejectStale, Goto, Leave, TypeOK, readVars, PCs
  <2>5. QED
    BY <2>2, <2>3, <2>4 DEF RejectStale, TypeOK, readVars
<1>2. LockHeld'
  BY ProcAssumption DEF IInv, RejectStale, Goto, Leave, TypeOK, LockHeld, InLock
<1>3. ChainStaysLinked' /\ OperationsOnce'
  BY DEF IInv, RejectStale, ChainStaysLinked, OperationsOnce
<1>4. IdsOnce'
  BY DEF IInv, RejectStale, Goto, Leave, TypeOK, IdsOnce, Unwritten
<1>5. FinalDrafts'
  BY DEF IInv, RejectStale, Goto, Leave, TypeOK, FinalDrafts
<1>6. DraftFits'
  BY DEF IInv, RejectStale, Goto, Leave, DraftFits
<1>7. TornFits'
  BY DEF IInv, RejectStale, TornFits
<1>8. Recorded'
  BY DEF IInv, RejectStale, Goto, Leave, Recorded
<1>9. ReaderFits'
  BY DEF IInv, RejectStale, readVars, Kept, ReaderFits, Agree
<1>10. QED
  BY <1>1, <1>2, <1>3, <1>4, <1>5, <1>6, <1>7, <1>8, <1>9 DEF IInv

\* What is written of a fitting draft is a fitting torn line.
LEMMA WriteSomeKeeps ==
  ASSUME IInv, NEW p \in Proc, NEW kind \in {"partial", "whole"}, WriteSome(p, kind)
  PROVE  IInv'
<1>1. TypeOK'
  BY DEF IInv, WriteSome, Goto, TypeOK, readVars, Kinds, PCs, InLock
<1>2. LockHeld'
  BY DEF IInv, WriteSome, Goto, LockHeld, InLock
<1>3. ChainStaysLinked' /\ OperationsOnce'
  BY DEF IInv, WriteSome, ChainStaysLinked, OperationsOnce
<1>4. IdsOnce'
  BY DEF IInv, WriteSome, Goto, IdsOnce, Unwritten
<1>5. FinalDrafts'
  BY DEF IInv, WriteSome, Goto, FinalDrafts
<1>6. DraftFits'
  BY DEF IInv, WriteSome, Goto, DraftFits
<1>7. TornFits'
  <2>1. torn'.event = draft[p] /\ log' = log /\ pc[p] = "write"
    BY DEF WriteSome
  <2>2. QED
    BY <2>1 DEF IInv, DraftFits, TornFits
<1>8. Recorded'
  BY DEF IInv, WriteSome, Goto, Recorded
<1>9. ReaderFits'
  BY DEF IInv, WriteSome, readVars, Kept, ReaderFits, Agree
<1>10. QED
  BY <1>1, <1>2, <1>3, <1>4, <1>5, <1>6, <1>7, <1>8, <1>9 DEF IInv

\* The log grows by an event that names its head, carries its length, and has an
\* id and an operation id no other event has.
LEMMA WriteRestKeeps ==
  ASSUME IInv, NEW p \in Proc, WriteRest(p)
  PROVE  IInv'
<1>1. TypeOK'
  <2>1. TypeOK /\ NotTorn \in [kind : Kinds, event : Event]
    BY NoEventTyped DEF IInv, NotTorn, Kinds
  <2>2. log' \in Seq(Event)
    BY <2>1, AppendProperties DEF WriteRest, TypeOK, readVars
  <2>3. pc' \in [Proc -> PCs]
    BY <2>1 DEF WriteRest, Goto, TypeOK, readVars, PCs, InLock
  <2>4. QED
    BY <2>1, <2>2, <2>3 DEF WriteRest, TypeOK, readVars
<1>2. LockHeld'
  BY DEF IInv, WriteRest, Goto, LockHeld, InLock
<1>3. ChainStaysLinked' /\ OperationsOnce'
  <2>1. /\ log' = Append(log, draft[p]) /\ Len(log) \in Nat /\ DOMAIN log = 1..Len(log)
        /\ DOMAIN log' = 1..(Len(log) + 1)
        /\ \A i \in 1..Len(log) : log'[i] = log[i]
        /\ log'[Len(log) + 1] = draft[p]
    BY AppendProperties, LenProperties DEF IInv, TypeOK, WriteRest
  <2>2. ChainStaysLinked'
    <3>1. /\ log \in Seq(Event) /\ draft[p] \in Event /\ Ledger!ChainLinked(log)
          /\ draft[p].prev = Ledger!HeadHash(log) /\ draft[p].seq = Len(log)
      BY DEF IInv, TypeOK, ChainStaysLinked, DraftFits, WriteRest
    <3>2. QED
      BY <2>1, <3>1, LinkedAppend DEF ChainStaysLinked
  <2>3. draft[p].op # NoOp => \A i \in 1..Len(log) : log[i].op # draft[p].op
    BY <2>1 DEF IInv, DraftFits, WriteRest
  <2>4. \A i, j \in 1..Len(log) : log[i].op = log[j].op /\ log[i].op # NoOp => i = j
    BY <2>1 DEF IInv, OperationsOnce
  <2>5. \A i \in 1..(Len(log) + 1) : i \in 1..Len(log) \/ i = Len(log) + 1
    BY <2>1
  <2>6. OperationsOnce'
    BY <2>1, <2>3, <2>4, <2>5 DEF OperationsOnce
  <2>7. QED
    BY <2>2, <2>6
<1>4. IdsOnce'
  <2>1. /\ log' = Append(log, draft[p]) /\ Len(log) \in Nat /\ DOMAIN log = 1..Len(log)
        /\ DOMAIN log' = 1..(Len(log) + 1)
        /\ \A i \in 1..Len(log) : log'[i] = log[i]
        /\ log'[Len(log) + 1] = draft[p]
    BY AppendProperties, LenProperties DEF IInv, TypeOK, WriteRest
  <2>2. /\ issued' = issued /\ draft' = draft /\ pc[p] \in Unwritten /\ pc'[p] \notin Unwritten
        /\ \A q \in Proc : q # p => pc'[q] = pc[q]
    BY DEF IInv, TypeOK, WriteRest, Goto, Unwritten
  <2>3. /\ draft[p].hash \in 1..issued
        /\ \A i \in 1..Len(log) : log[i].hash \in 1..issued /\ log[i].hash # draft[p].hash
        /\ \A i, j \in 1..Len(log) : log[i].hash = log[j].hash => i = j
    BY <2>1, <2>2 DEF IInv, IdsOnce
  <2>4. \A i \in 1..(Len(log) + 1) : i \in 1..Len(log) \/ i = Len(log) + 1
    BY <2>1
  <2>5. /\ \A i \in DOMAIN log' : log'[i].hash \in 1..issued'
        /\ \A i, j \in DOMAIN log' : log'[i].hash = log'[j].hash => i = j
    BY <2>1, <2>2, <2>3, <2>4
  <2>6. ASSUME NEW q \in Proc, pc'[q] \in Unwritten
        PROVE  /\ draft'[q].hash \in 1..issued'
               /\ \A i \in DOMAIN log' : log'[i].hash # draft'[q].hash
               /\ \A r \in Proc : pc'[r] \in Unwritten /\ draft'[r].hash = draft'[q].hash
                                   => r = q
    <3>1. q # p /\ pc[q] \in Unwritten /\ draft[q].hash # draft[p].hash
      BY <2>2, <2>6 DEF IInv, IdsOnce
    <3>2. QED
      BY <3>1, <2>1, <2>2, <2>4 DEF IInv, IdsOnce
  <2>7. QED
    BY <2>5, <2>6 DEF IdsOnce
<1>5. FinalDrafts'
  BY DEF IInv, WriteRest, Goto, FinalDrafts
<1>6. DraftFits'
  <2>1. \A q \in Proc : pc'[q] \notin {"write", "writing"}
    BY DEF IInv, TypeOK, LockHeld, InLock, WriteRest, Goto
  <2>2. QED
    BY <2>1 DEF DraftFits
<1>7. TornFits'
  BY DEF WriteRest, TornFits, NotTorn
<1>8. Recorded'
  <2>1. /\ log' = Append(log, draft[p]) /\ Len(log) \in Nat /\ DOMAIN log = 1..Len(log)
        /\ DOMAIN log' = 1..(Len(log) + 1)
        /\ \A i \in 1..Len(log) : log'[i] = log[i]
        /\ log'[Len(log) + 1] = draft[p]
    BY AppendProperties, LenProperties DEF IInv, TypeOK, WriteRest
  <2>2. /\ cut' = cut /\ acked' = acked /\ draft' = draft
        /\ \A q \in Proc : q # p => pc'[q] = pc[q]
    BY DEF IInv, TypeOK, WriteRest, Goto
  <2>3. \A e : (\E i \in DOMAIN log : log[i] = e) => \E i \in DOMAIN log' : log'[i] = e
    BY <2>1
  <2>4. \E i \in DOMAIN log' : log'[i] = draft'[p]
    BY <2>1, <2>2
  <2>5. QED
    BY <2>2, <2>3, <2>4 DEF IInv, Recorded
<1>9. ReaderFits'
  <2>1. /\ Len(log) \in Nat /\ Len(log') = Len(log) + 1
        /\ \A i \in 1..Len(log) : log'[i] = log[i]
    BY AppendProperties, LenProperties DEF IInv, TypeOK, WriteRest
  <2>2. seen' = seen /\ reader' = reader /\ Len(seen) \in Nat /\ reader.broken \in Nat
    BY LenProperties DEF IInv, TypeOK, WriteRest, readVars
  <2>3. ASSUME NEW n \in Int, Agree(n)
        PROVE  n <= Len(seen) /\ n <= Len(log') /\ \A i \in 1..n : seen[i] = log'[i]
    <3>1. \A i \in 1..n : i \in 1..Len(log)
      BY <2>1, <2>3 DEF Agree
    <3>2. QED
      BY <2>1, <2>3, <3>1 DEF Agree
  <2>4. Kept' = Kept /\ Kept \in Int
    BY <2>2 DEF Kept
  <2>5. Agree(Kept)
    BY DEF IInv, ReaderFits
  <2>6. Agree(Kept)'
    BY <2>2, <2>3, <2>4, <2>5 DEF Agree
  <2>7. QED
    BY <2>2, <2>6 DEF IInv, ReaderFits
<1>10. QED
  BY <1>1, <1>2, <1>3, <1>4, <1>5, <1>6, <1>7, <1>8, <1>9 DEF IInv

\* A short write leaves the torn line and remembers whose it was.
LEMMA ShortWriteKeeps ==
  ASSUME IInv, NEW p \in Proc, ShortWrite(p)
  PROVE  IInv'
<1>1. TypeOK'
  BY DEF IInv, ShortWrite, Goto, fileVars, TypeOK, readVars, PCs, InLock
<1>2. LockHeld'
  BY DEF IInv, ShortWrite, Goto, LockHeld, InLock
<1>3. ChainStaysLinked' /\ OperationsOnce'
  BY DEF IInv, ShortWrite, fileVars, ChainStaysLinked, OperationsOnce
<1>4. IdsOnce'
  BY DEF IInv, ShortWrite, Goto, fileVars, IdsOnce, Unwritten
<1>5. FinalDrafts'
  BY DEF IInv, ShortWrite, Goto, FinalDrafts
<1>6. DraftFits'
  BY DEF IInv, ShortWrite, Goto, fileVars, DraftFits
<1>7. TornFits'
  BY DEF IInv, ShortWrite, fileVars, TornFits
<1>8. Recorded'
  BY DEF IInv, ShortWrite, Goto, fileVars, Recorded
<1>9. ReaderFits'
  BY DEF IInv, ShortWrite, fileVars, readVars, Kept, ReaderFits, Agree
<1>10. QED
  BY <1>1, <1>2, <1>3, <1>4, <1>5, <1>6, <1>7, <1>8, <1>9 DEF IInv

\* The cache is updated under the lock.
LEMMA WriteHeadCacheKeeps ==
  ASSUME IInv, NEW p \in Proc, WriteHeadCache(p)
  PROVE  IInv'
<1>1. TypeOK'
  BY DEF IInv, WriteHeadCache, Goto, TypeOK, readVars, PCs, InLock, Event
<1>2. LockHeld'
  BY DEF IInv, WriteHeadCache, Goto, LockHeld, InLock
<1>3. ChainStaysLinked' /\ OperationsOnce'
  BY DEF IInv, WriteHeadCache, ChainStaysLinked, OperationsOnce
<1>4. IdsOnce'
  BY DEF IInv, WriteHeadCache, Goto, IdsOnce, Unwritten
<1>5. FinalDrafts'
  BY DEF IInv, WriteHeadCache, Goto, FinalDrafts
<1>6. DraftFits'
  BY DEF IInv, WriteHeadCache, Goto, DraftFits
<1>7. TornFits'
  BY DEF IInv, WriteHeadCache, TornFits
<1>8. Recorded'
  BY DEF IInv, WriteHeadCache, Goto, Recorded
<1>9. ReaderFits'
  BY DEF IInv, WriteHeadCache, readVars, Kept, ReaderFits, Agree
<1>10. QED
  BY <1>1, <1>2, <1>3, <1>4, <1>5, <1>6, <1>7, <1>8, <1>9 DEF IInv

\* What is returned was recorded, or cut.
LEMMA ReturnKeeps ==
  ASSUME IInv, NEW p \in Proc, Return(p)
  PROVE  IInv'
<1>1. TypeOK'
  <2>1. TypeOK /\ NoEvent \in Event
    BY NoEventTyped DEF IInv
  <2>2. pc' \in [Proc -> PCs] /\ draft' \in [Proc -> Event]
    BY <2>1 DEF Return, Goto, Leave, TypeOK, readVars, PCs
  <2>3. QED
    BY <2>1, <2>2 DEF Return, fileVars, TypeOK, readVars
<1>2. LockHeld'
  BY ProcAssumption DEF IInv, Return, Goto, Leave, TypeOK, LockHeld, InLock
<1>3. ChainStaysLinked' /\ OperationsOnce'
  BY DEF IInv, Return, fileVars, ChainStaysLinked, OperationsOnce
<1>4. IdsOnce'
  BY DEF IInv, Return, Goto, Leave, fileVars, IdsOnce, Unwritten
<1>5. FinalDrafts'
  BY DEF IInv, Return, Goto, Leave, FinalDrafts
<1>6. DraftFits'
  BY DEF IInv, Return, Goto, Leave, fileVars, DraftFits
<1>7. TornFits'
  BY DEF IInv, Return, fileVars, TornFits
<1>8. Recorded'
  BY DEF IInv, Return, Goto, Leave, fileVars, TypeOK, Recorded
<1>9. ReaderFits'
  BY DEF IInv, Return, fileVars, readVars, Kept, ReaderFits, Agree
<1>10. QED
  BY <1>1, <1>2, <1>3, <1>4, <1>5, <1>6, <1>7, <1>8, <1>9 DEF IInv

\* A crash takes the draft and the lock; the file stays as it is.
LEMMA CrashKeeps ==
  ASSUME IInv, NEW p \in Proc, Crash(p)
  PROVE  IInv'
<1>1. TypeOK'
  <2>1. TypeOK /\ NoEvent \in Event
    BY NoEventTyped DEF IInv
  <2>2. pc' \in [Proc -> PCs] /\ draft' \in [Proc -> Event]
    BY <2>1 DEF Crash, Goto, Leave, TypeOK, readVars, PCs
  <2>3. cache' \in [head : Nat, seq : Nat]
    <3>1. NoCache \in [head : Nat, seq : Nat]
      BY DEF NoCache, Genesis, Ledger!Genesis
    <3>2. cache' = cache \/ cache' = NoCache
      BY DEF Crash
    <3>3. QED
      BY <2>1, <3>1, <3>2 DEF TypeOK, readVars
  <2>4. lock' \in Proc \cup {NoProc}
    BY <2>1 DEF Crash, TypeOK, readVars
  <2>5. crashes' \in 0..MaxCrashes
    BY <2>1, FaultAssumption DEF Crash, TypeOK, readVars
  <2>6. UNCHANGED <<log, torn, issued, acked, cut, seen, reader>>
    BY DEF Crash, readVars
  <2>7. QED
    BY <2>1, <2>2, <2>3, <2>4, <2>5, <2>6 DEF TypeOK, readVars
<1>2. LockHeld'
  BY ProcAssumption DEF IInv, Crash, Goto, Leave, TypeOK, LockHeld, InLock
<1>3. ChainStaysLinked' /\ OperationsOnce'
  BY DEF IInv, Crash, ChainStaysLinked, OperationsOnce
<1>4. IdsOnce'
  BY DEF IInv, Crash, Goto, Leave, TypeOK, IdsOnce, Unwritten
<1>5. FinalDrafts'
  BY DEF IInv, Crash, Goto, Leave, TypeOK, FinalDrafts
<1>6. DraftFits'
  BY DEF IInv, Crash, Goto, Leave, TypeOK, DraftFits
<1>7. TornFits'
  BY DEF IInv, Crash, TornFits
<1>8. Recorded'
  BY DEF IInv, Crash, Goto, Leave, TypeOK, Recorded
<1>9. ReaderFits'
  BY DEF IInv, Crash, readVars, Kept, ReaderFits, Agree
<1>10. QED
  BY <1>1, <1>2, <1>3, <1>4, <1>5, <1>6, <1>7, <1>8, <1>9 DEF IInv

\* A sequence that agrees with the log as far as it goes is linked as the log is.
LEMMA PrefixLinked ==
  ASSUME NEW s \in Seq(Event), NEW c \in Seq(Event), Ledger!ChainLinked(c),
         Len(s) <= Len(c), \A i \in 1..Len(s) : s[i] = c[i]
  PROVE  Ledger!ChainLinked(s)
<1>1. /\ DOMAIN s = 1..Len(s) /\ DOMAIN c = 1..Len(c) /\ Len(s) \in Nat /\ Len(c) \in Nat
  BY LenProperties
<1>2. \A i \in 1..Len(c) : c[i].seq = i - 1 /\ c[i].prev = IF i = 1 THEN 0 ELSE c[i - 1].hash
  BY <1>1, LinkedIs
<1>3. ASSUME NEW i \in 1..Len(s)
      PROVE  s[i].seq = i - 1 /\ s[i].prev = IF i = 1 THEN 0 ELSE s[i - 1].hash
  <2>1. i \in 1..Len(c) /\ s[i] = c[i] /\ (i # 1 => i - 1 \in 1..Len(s))
    BY <1>1
  <2>2. i # 1 => s[i - 1] = c[i - 1]
    BY <2>1
  <2>3. QED
    BY <1>2, <2>1, <2>2
<1>4. QED
  BY <1>1, <1>3, LinkedIs

\* What a reader adds does not change what it had.
LEMMA AgreeStays ==
  ASSUME NEW n \in Int, seen \in Seq(Event), Agree(n), log' = log, seen' \in Seq(Event),
         Len(seen) <= Len(seen'), \A i \in 1..Len(seen) : seen'[i] = seen[i]
  PROVE  n <= Len(seen') /\ n <= Len(log') /\ \A i \in 1..n : seen'[i] = log'[i]
<1>1. Len(seen) \in Nat /\ Len(seen') \in Nat
  BY LenProperties
<1>2. n <= Len(seen) /\ n <= Len(log) /\ \A i \in 1..n : seen[i] = log[i]
  BY DEF Agree
<1>3. \A i \in 1..n : i \in 1..Len(seen)
  BY <1>1, <1>2
<1>4. QED
  BY <1>1, <1>2, <1>3

\* A stream that is closed, or starts, is one.
LEMMA ReaderTyped ==
  ASSUME TypeOK, log' = log
  PROVE  /\ NoReader \in [on : BOOLEAN, at : 0..Len(log'), part : Kinds, event : Event,
                          stale : BOOLEAN, broken : Nat]
         /\ [NoReader EXCEPT !.on = TRUE] \in
                         [on : BOOLEAN, at : 0..Len(log'), part : Kinds, event : Event,
                          stale : BOOLEAN, broken : Nat]
         /\ [NoReader EXCEPT !.broken = reader.broken] \in
                         [on : BOOLEAN, at : 0..Len(log'), part : Kinds, event : Event,
                          stale : BOOLEAN, broken : Nat]
<1>1. Len(log) \in Nat /\ NoEvent \in Event /\ reader.broken \in Nat
  BY NoEventTyped, LenProperties DEF TypeOK
<1>2. 0 \in 0..Len(log') /\ "none" \in Kinds
  BY <1>1 DEF Kinds
<1>3. QED
  BY <1>1, <1>2 DEF NoReader

\* A read without the lock changes nothing else, so all but its own variables
\* stay as they are.
LEMMA OnlyReadsKeeps ==
  ASSUME IInv, OnlyReads, seen' \in Seq(Event), ReaderFits',
         reader' \in [on : BOOLEAN, at : 0..Len(log'), part : Kinds, event : Event,
                      stale : BOOLEAN, broken : Nat]
  PROVE  IInv'
<1>1. UNCHANGED <<log, torn, cache, lock, pc, draft, issued, acked, cut, crashes>>
  BY DEF OnlyReads, fileVars
<1>2. TypeOK' /\ LockHeld' /\ ChainStaysLinked' /\ OperationsOnce' /\ IdsOnce'
  BY <1>1 DEF IInv, TypeOK, LockHeld, ChainStaysLinked, OperationsOnce, IdsOnce
<1>3. FinalDrafts' /\ DraftFits' /\ TornFits' /\ Recorded'
  BY <1>1 DEF IInv, FinalDrafts, DraftFits, TornFits, Recorded
<1>4. QED
  BY <1>2, <1>3 DEF IInv

\* A stream starts with nothing.
LEMMA StartReadKeeps ==
  ASSUME IInv, StartRead
  PROVE  IInv'
<1>1. seen' = <<>> /\ reader' = [NoReader EXCEPT !.on = TRUE] /\ log' = log
  BY DEF StartRead, OnlyReads, fileVars
<1>2. seen' \in Seq(Event) /\ DOMAIN seen' = {} /\ Len(seen') = 0
  BY <1>1, EmptySeq, LenProperties
<1>3. Ledger!ChainLinked(seen')
  BY <1>2, LinkedIs
<1>4. reader'.on = TRUE /\ reader'.stale = FALSE /\ reader'.broken = 0 /\ reader'.at = 0
  BY <1>1 DEF NoReader
<1>5. Len(log) \in Nat
  BY LenProperties DEF IInv, TypeOK
<1>6. ReaderFits'
  BY <1>1, <1>2, <1>3, <1>4, <1>5 DEF Kept, ReaderFits, Agree
<1>7. QED
  BY <1>1, <1>2, <1>6, ReaderTyped, OnlyReadsKeeps DEF StartRead, IInv

\* Lines of the log that follow those a reader has.
LEMMA ReadLinesKeeps ==
  ASSUME IInv, NEW n, ReadLines(n)
  PROVE  IInv'
<1>1. /\ reader.on /\ ~reader.stale /\ n \in (reader.at + 1)..Len(log)
      /\ seen' = seen \o SubSeq(log, reader.at + 1, n)
      /\ reader' = [reader EXCEPT !.at = n, !.part = "none", !.event = NoEvent]
      /\ log' = log
  BY DEF ReadLines, OnlyReads, fileVars
<1>2. /\ seen \in Seq(Event) /\ log \in Seq(Event) /\ Len(seen) \in Nat /\ Len(log) \in Nat
      /\ reader.at \in 0..Len(log) /\ n \in Nat /\ reader.at < n /\ n <= Len(log)
      /\ DOMAIN log = 1..Len(log)
  BY <1>1, LenProperties DEF IInv, TypeOK
<1> DEFINE more == SubSeq(log, reader.at + 1, n)
<1>3. /\ more \in Seq(Event) /\ Len(more) = n - reader.at
      /\ \A i \in 1..(n - reader.at) : more[i] = log[reader.at + i]
  <2>0. PICK a \in Nat : a = reader.at
    BY <1>2
  <2>1. PICK m \in Nat : m = a + 1
    BY <1>2
  <2>2. \A i \in m..n : log[i] \in Event
    BY <1>2, <2>1, ElementOfSeq
  <2>3. /\ SubSeq(log, m, n) \in Seq(Event)
        /\ Len(SubSeq(log, m, n)) = IF m <= n THEN n - m + 1 ELSE 0
        /\ \A i \in 1..(n - m + 1) : SubSeq(log, m, n)[i] = log[m + i - 1]
    BY <1>2, <2>2, SubSeqProperties
  <2>4. m <= n /\ n - m + 1 = n - a /\ \A i \in 1..(n - a) : m + i - 1 = a + i
    BY <1>2, <2>0, <2>1
  <2>5. more = SubSeq(log, m, n)
    BY <2>0, <2>1
  <2>6. /\ more \in Seq(Event) /\ Len(more) = n - a
        /\ \A i \in 1..(n - a) : more[i] = log[a + i]
    BY <2>3, <2>4, <2>5
  <2>7. QED
    BY <2>0, <2>6
<1>4. seen' = seen \o more
  BY <1>1
<1> HIDE DEF more
<1>5. /\ seen' \in Seq(Event) /\ Len(seen') = Len(seen) + (n - reader.at)
      /\ \A i \in 1..Len(seen) : seen'[i] = seen[i]
      /\ \A i \in 1..(n - reader.at) : seen'[Len(seen) + i] = more[i]
  <2>1. /\ seen \o more \in Seq(Event) /\ Len(seen \o more) = Len(seen) + Len(more)
        /\ \A i \in 1..(Len(seen) + Len(more)) :
             (seen \o more)[i] = IF i <= Len(seen) THEN seen[i] ELSE more[i - Len(seen)]
    BY <1>2, <1>3, ConcatProperties
  <2>2. \A i \in 1..Len(seen) : i \in 1..(Len(seen) + Len(more)) /\ i <= Len(seen)
    BY <1>2, <1>3
  <2>3. \A i \in 1..(n - reader.at) :
          /\ Len(seen) + i \in 1..(Len(seen) + Len(more)) /\ ~(Len(seen) + i <= Len(seen))
          /\ Len(seen) + i - Len(seen) = i
    BY <1>2, <1>3
  <2>4. QED
    BY <1>3, <1>4, <2>1, <2>2, <2>3
<1>6. /\ reader'.on = reader.on /\ reader'.stale = reader.stale /\ reader'.broken = reader.broken
      /\ reader'.at = n /\ reader'.part = "none" /\ reader'.event = NoEvent
      /\ reader' \in [on : BOOLEAN, at : 0..Len(log'), part : Kinds, event : Event,
                      stale : BOOLEAN, broken : Nat]
  <2>1. n \in 0..Len(log') /\ "none" \in Kinds /\ NoEvent \in Event
    BY <1>1, <1>2, NoEventTyped DEF Kinds
  <2>2. QED
    BY <1>1, <2>1 DEF IInv, TypeOK
<1>7. CASE reader.broken = 0
  <2>1. Len(seen) = reader.at /\ \A i \in 1..Len(seen) : seen[i] = log[i]
    BY <1>1, <1>7 DEF IInv, Kept, ReaderFits, Agree
  <2>2. Len(seen') = n
    BY <1>2, <1>5, <2>1
  <2>3. \A i \in 1..n : seen'[i] = log[i]
    <3> SUFFICES ASSUME NEW i \in 1..n PROVE seen'[i] = log[i]
      OBVIOUS
    <3>1. CASE i <= Len(seen)
      <4>1. i \in 1..Len(seen)
        BY <1>2, <3>1
      <4>2. QED
        BY <1>5, <2>1, <4>1
    <3>2. CASE ~(i <= Len(seen))
      <4>1. PICK j \in 1..(n - reader.at) : i = Len(seen) + j
        <5>1. i - Len(seen) \in 1..(n - reader.at) /\ i = Len(seen) + (i - Len(seen))
          BY <1>2, <2>1, <3>2
        <5>2. QED
          BY <5>1
      <4>2. QED
        BY <1>3, <1>5, <2>1, <4>1
    <3>3. QED
      BY <3>1, <3>2
  <2>4. Ledger!ChainLinked(seen')
    BY <1>2, <1>5, <2>2, <2>3, PrefixLinked DEF IInv, ChainStaysLinked
  <2>5. ReaderFits'
    <3>1. Kept' = n
      BY <1>1, <1>6, <1>7, <2>2 DEF Kept
    <3>a. log' = log
      BY <1>1, Zenon
    <3>b. \A i \in 1..n : seen'[i] = log'[i]
      BY <2>3, <3>a, Zenon
    <3>c. n <= Len(seen') /\ n <= Len(log)
      BY <1>2, <2>2
    <3>2. n <= Len(seen') /\ n <= Len(log') /\ \A i \in 1..n : seen'[i] = log'[i]
      BY <3>a, <3>b, <3>c, Zenon
    <3>3. Agree(Kept)'
      BY <3>1, <3>2, Zenon DEF Agree
    <3>4. QED
      BY <1>1, <1>6, <1>7, <2>2, <2>4, <3>3 DEF ReaderFits
  <2>6. QED
    BY <1>5, <1>6, <2>5, OnlyReadsKeeps DEF ReadLines
<1>8. CASE reader.broken # 0
  <2>1. Agree(reader.broken - 1) /\ reader.broken - 1 \in Int
    BY <1>8 DEF IInv, TypeOK, Kept, ReaderFits
  <2>2. Agree(reader.broken - 1)'
    BY <1>1, <1>2, <1>5, <1>6, <2>1, AgreeStays DEF Agree
  <2>3. ReaderFits'
    BY <1>1, <1>6, <1>8, <2>2 DEF Kept, ReaderFits
  <2>4. QED
    BY <1>5, <1>6, <2>3, OnlyReadsKeeps DEF ReadLines
<1>9. QED
  BY <1>7, <1>8

\* Bytes of the unfinished line are no event yet.
LEMMA ReadPartKeeps ==
  ASSUME IInv, NEW kind \in Kinds, ReadPart(kind)
  PROVE  IInv'
<1>1. /\ reader.on /\ seen' = seen /\ log' = log
      /\ reader' = [reader EXCEPT !.part = kind, !.event = torn.event]
  BY DEF ReadPart, OnlyReads, fileVars
<1>2. /\ reader'.on = reader.on /\ reader'.stale = reader.stale /\ reader'.broken = reader.broken
      /\ reader'.at = reader.at
      /\ reader' \in [on : BOOLEAN, at : 0..Len(log'), part : Kinds, event : Event,
                      stale : BOOLEAN, broken : Nat]
  BY <1>1 DEF IInv, TypeOK
<1>3. ReaderFits'
  BY <1>1, <1>2 DEF IInv, Kept, ReaderFits, Agree
<1>4. QED
  BY <1>1, <1>2, <1>3, OnlyReadsKeeps DEF ReadPart, IInv, TypeOK

\* At the end the reader has the whole log, and the unfinished line continues it.
LEMMA EndReadKeeps ==
  ASSUME IInv, EndRead
  PROVE  IInv'
<1>1. /\ reader.on /\ ~reader.stale /\ reader.at = Len(log) /\ log' = log
      /\ seen' = IF reader.part = "whole" THEN Append(seen, torn.event) ELSE seen
      /\ reader' = [NoReader EXCEPT !.broken = reader.broken]
      /\ reader.part = "whole" => torn.kind # "none"
  BY DEF EndRead, CloseStream, OnlyReads, fileVars
<1>2. /\ reader'.on = FALSE /\ reader'.stale = FALSE /\ reader'.broken = reader.broken
      /\ reader'.part = "none"
  BY <1>1 DEF NoReader
<1>3. /\ seen \in Seq(Event) /\ log \in Seq(Event) /\ torn.event \in Event
      /\ Len(seen) \in Nat /\ Len(log) \in Nat /\ reader.broken \in Nat
  BY LenProperties DEF IInv, TypeOK
<1>4. /\ seen' \in Seq(Event) /\ Len(seen) <= Len(seen') /\ Len(seen') <= Len(seen) + 1
      /\ Len(seen') \in Nat
      /\ \A i \in 1..Len(seen) : seen'[i] = seen[i]
  BY <1>1, <1>3, AppendProperties, LenProperties
<1>5. CASE reader.broken = 0
  <2>1. Len(seen) = Len(log) /\ \A i \in 1..Len(seen) : seen[i] = log[i]
    BY <1>1, <1>5 DEF IInv, Kept, ReaderFits, Agree
  <2>2. seen = log
    BY <1>3, <2>1, SeqEqual
  <2>3. Ledger!ChainLinked(seen')
    <3>1. Ledger!ChainLinked(log)
      BY DEF IInv, ChainStaysLinked
    <3>2. torn.kind # "none" => Ledger!ChainLinked(Append(log, torn.event))
      BY <1>3, <3>1, LinkedAppend DEF IInv, TornFits
    <3>3. QED
      BY <1>1, <2>2, <3>1, <3>2
  <2>4. \A n \in {Len(seen'), Len(seen') - 1} :
          n <= Len(seen) => n <= Len(seen') /\ n <= Len(log') /\ \A i \in 1..n : seen'[i] = log'[i]
    <3> SUFFICES ASSUME NEW n \in {Len(seen'), Len(seen') - 1}, n <= Len(seen)
                 PROVE  n <= Len(seen') /\ n <= Len(log') /\ \A i \in 1..n : seen'[i] = log'[i]
      OBVIOUS
    <3>1. \A i \in 1..n : i \in 1..Len(seen)
      BY <1>3, <1>4
    <3>2. QED
      BY <1>1, <1>3, <1>4, <2>1, <3>1
  <2>5. Len(seen') - 1 <= Len(seen) /\ (seen' = <<>> => Len(seen') <= Len(seen))
    BY <1>3, <1>4, EmptySeq
  <2>6. ReaderFits'
    BY <1>2, <1>5, <2>3, <2>4, <2>5 DEF Kept, ReaderFits, Agree
  <2>7. QED
    BY <1>1, <1>4, <2>6, ReaderTyped, OnlyReadsKeeps DEF EndRead, IInv
<1>6. CASE reader.broken # 0
  <2>1. Agree(reader.broken - 1) /\ reader.broken - 1 \in Int
    BY <1>3, <1>6 DEF IInv, Kept, ReaderFits
  <2>2. Agree(reader.broken - 1)'
    BY <1>1, <1>2, <1>3, <1>4, <2>1, AgreeStays DEF Agree
  <2>3. ReaderFits'
    BY <1>2, <1>6, <2>2 DEF Kept, ReaderFits
  <2>4. QED
    BY <1>1, <1>4, <2>3, ReaderTyped, OnlyReadsKeeps DEF EndRead, IInv
<1>7. QED
  BY <1>5, <1>6

\* What a stream makes of a truncated line comes after what it had.
LEMMA StaleReadKeeps ==
  ASSUME IInv, NEW n, ReadOver(n) \/ EndStale
  PROVE  IInv'
<1>1. /\ reader.stale /\ log' = log /\ OnlyReads
      /\ seen' = seen \/ \E e \in Mixtures : seen' = Append(seen, e)
  BY DEF ReadOver, EndStale, OnlyReads, fileVars
<1>2. /\ seen \in Seq(Event) /\ log \in Seq(Event) /\ Mixtures \subseteq Event
      /\ Len(seen) \in Nat /\ Len(log) \in Nat /\ reader.at \in 0..Len(log)
  BY NoEventTyped, LenProperties DEF IInv, TypeOK, Mixtures
<1>3. /\ seen' \in Seq(Event) /\ Len(seen) <= Len(seen')
      /\ \A i \in 1..Len(seen) : seen'[i] = seen[i]
  <2>1. CASE seen' = seen
    BY <1>2, <2>1
  <2>2. ASSUME NEW e \in Mixtures, seen' = Append(seen, e)
        PROVE  /\ seen' \in Seq(Event) /\ Len(seen) <= Len(seen')
               /\ \A i \in 1..Len(seen) : seen'[i] = seen[i]
    <3>1. e \in Event
      BY <1>2, <2>2
    <3>2. /\ Append(seen, e) \in Seq(Event) /\ Len(Append(seen, e)) = Len(seen) + 1
          /\ \A i \in 1..Len(seen) : Append(seen, e)[i] = seen[i]
      BY <1>2, <3>1, AppendProperties
    <3>3. QED
      BY <1>2, <2>2, <3>2
  <2>3. QED
    BY <1>1, <2>1, <2>2
<1>4. reader.broken # 0 /\ Agree(reader.broken - 1) /\ reader.broken - 1 \in Int
  BY <1>1 DEF IInv, TypeOK, Kept, ReaderFits
<1>5. /\ reader'.broken = reader.broken /\ reader'.stale = FALSE
      /\ reader'.on = FALSE => reader'.part = "none"
      /\ reader' \in [on : BOOLEAN, at : 0..Len(log'), part : Kinds, event : Event,
                      stale : BOOLEAN, broken : Nat]
  <2>1. CASE ReadOver(n)
    <3>1. /\ n \in (reader.at + 1)..Len(log)
          /\ reader' = [reader EXCEPT !.at = n, !.part = "none", !.event = NoEvent,
                                      !.stale = FALSE]
      BY <2>1 DEF ReadOver
    <3>2. n \in 0..Len(log') /\ "none" \in Kinds /\ NoEvent \in Event
      BY <1>1, <1>2, <3>1, NoEventTyped DEF Kinds
    <3>3. QED
      BY <3>1, <3>2 DEF IInv, TypeOK
  <2>2. CASE EndStale
    <3>1. reader' = [NoReader EXCEPT !.broken = reader.broken]
      BY <2>2 DEF EndStale, CloseStream
    <3>2. QED
      BY <1>1, <3>1, ReaderTyped DEF IInv, NoReader
  <2>3. QED
    BY <2>1, <2>2
<1>6. Agree(reader.broken - 1)'
  BY <1>1, <1>2, <1>3, <1>4, <1>5, AgreeStays DEF Agree
<1>7. ReaderFits'
  BY <1>4, <1>5, <1>6 DEF Kept, ReaderFits
<1>8. QED
  BY <1>1, <1>3, <1>5, <1>7, OnlyReadsKeeps

\* An empty log is a linked one, and nobody does anything.
LEMMA InitInv == Init => IInv
<1> SUFFICES ASSUME Init PROVE IInv
  OBVIOUS
<1>1. NoEvent \in Event
  BY NoEventTyped
<1>2. TypeOK
  <2>1. <<>> \in Seq(Event)
    BY EmptySeq
  <2>2. QED
    BY <1>1, <2>1, CallsAssumption, FaultAssumption
       DEF Init, TypeOK, NotTorn, NoReader, Kinds, NoCache, PCs, Genesis, Ledger!Genesis
<1>3. DOMAIN <<>> = {} /\ Len(<<>>) = 0
  BY EmptySeq, LenProperties
<1>4. ChainStaysLinked /\ OperationsOnce /\ ReaderFits
  BY <1>3, LinkedIs DEF Init, ChainStaysLinked, OperationsOnce, Kept, ReaderFits, Agree, NoReader
<1>5. LockHeld /\ IdsOnce /\ FinalDrafts /\ DraftFits /\ TornFits /\ Recorded
  BY <1>3, ProcAssumption
     DEF Init, LockHeld, IdsOnce, FinalDrafts, DraftFits, TornFits, Recorded,
         InLock, Unwritten, NotTorn
<1>6. QED
  BY <1>2, <1>4, <1>5 DEF IInv

\* Every step keeps the inductive invariant.
LEMMA NextInv == IInv /\ [Next]_vars => IInv'
<1> SUFFICES ASSUME IInv, [Next]_vars PROVE IInv'
  OBVIOUS
<1>1. CASE UNCHANGED vars
  BY <1>1 DEF vars, fileVars, IInv, TypeOK, LockHeld, ChainStaysLinked, OperationsOnce,
              IdsOnce,
              FinalDrafts, DraftFits, TornFits, Recorded, Kept, ReaderFits, Agree
<1>2. CASE Read
  BY <1>2, StartReadKeeps, ReadLinesKeeps, ReadPartKeeps, EndReadKeeps, StaleReadKeeps DEF Read
<1>3. ASSUME NEW p \in Proc, Call(p) PROVE IInv'
  BY <1>3, AppendDraftEventKeeps, AppendEventKeeps DEF Call
<1>4. ASSUME NEW p \in Proc, InSection(p) PROVE IInv'
  BY <1>4, ReturnExistingKeeps, BuildDraftKeeps, AcceptFinalKeeps, RejectStaleKeeps,
     WriteSomeKeeps, WriteRestKeeps, ShortWriteKeeps, WriteHeadCacheKeeps, ReturnKeeps
     DEF InSection
<1>5. ASSUME NEW p \in Proc, Run(p) PROVE IInv'
  BY <1>4, <1>5, WriteRebuiltCacheKeeps, AcquireAndHealKeeps, AcquireTimeoutKeeps DEF
     Run
<1>6. QED
  BY <1>1, <1>2, <1>3, <1>5, CrashKeeps DEF Next

\* Whatever is appended, retried, cut short, crashed or read, all of this stays
\* true (the whole of event-log.ts).
THEOREM Invariance == Spec => []IInv
BY InitInv, NextInv, PTL DEF Spec

-----------------------------------------------------------------------------
(* What follows from the invariant *)

\* Every variable keeps its type (EventLog).
THEOREM TypeCorrect == Spec => []TypeOK
<1>1. IInv => TypeOK
  BY DEF IInv
<1>2. QED
  BY <1>1, Invariance, PTL

\* The log verifies whatever crashed, timed out or was cut short
\* (appendDraftEvent, appendEvent).
THEOREM LogAlwaysLinked == Spec => []ChainStaysLinked
<1>1. IInv => ChainStaysLinked
  BY DEF IInv
<1>2. QED
  BY <1>1, Invariance, PTL

\* However an operation is retried, one event carries its id
\* (findEventByOperationIdSync under the lock).
THEOREM OperationsRecordedOnce == Spec => []OperationsOnce
<1>1. IInv => OperationsOnce
  BY DEF IInv
<1>2. QED
  BY <1>1, Invariance, PTL

\* The first n elements of a sequence.
LEMMA FirstElements ==
  ASSUME NEW s \in Seq(Event), NEW n \in 0..Len(s)
  PROVE  /\ SubSeq(s, 1, n) \in Seq(Event) /\ Len(SubSeq(s, 1, n)) = n
         /\ \A i \in 1..n : SubSeq(s, 1, n)[i] = s[i]
<1>1. Len(s) \in Nat /\ n \in Int /\ n >= 0 /\ 1 \in Int
  BY LenProperties
<1>2. \A i \in 1..n : s[i] \in Event
  <2>1. \A i \in 1..n : i \in 1..Len(s)
    BY <1>1
  <2>2. QED
    BY <2>1, ElementOfSeq
<1>3. /\ SubSeq(s, 1, n) \in Seq(Event)
      /\ Len(SubSeq(s, 1, n)) = IF 1 <= n THEN n - 1 + 1 ELSE 0
      /\ \A i \in 1..(n - 1 + 1) : SubSeq(s, 1, n)[i] = s[1 + i - 1]
  BY <1>1, <1>2, SubSeqProperties
<1>4. n - 1 + 1 = n /\ (~(1 <= n) => n = 0) /\ \A i \in 1..n : 1 + i - 1 = i
  BY <1>1
<1>5. QED
  BY <1>3, <1>4

\* What a reader has of the log, whether or not a line was truncated under it.
LEMMA SoundAgrees ==
  ASSUME IInv
  PROVE  /\ Sound \in Seq(Event) /\ Sound = SubSeq(seen, 1, Len(Sound)) /\ Len(Sound) <= Len(seen)
         /\ reader.broken # 0 \/ reader.on \/ seen = <<>> => Agree(Len(Sound))
<1>1. seen \in Seq(Event) /\ Len(seen) \in Nat /\ Len(log) \in Nat /\ reader.broken \in Nat
  BY LenProperties DEF IInv, TypeOK
<1>2. CASE reader.broken = 0
  BY <1>1, <1>2, SubSeqFull DEF Sound, IInv, Kept, ReaderFits
<1>3. CASE reader.broken # 0
  <2>1. PICK n \in Nat : n = reader.broken - 1
    BY <1>1, <1>3
  <2>2. Agree(n) /\ n \in 0..Len(seen) /\ Sound = SubSeq(seen, 1, n)
    BY <1>1, <1>3, <2>1 DEF Sound, IInv, Kept, ReaderFits, Agree
  <2>3. Sound \in Seq(Event) /\ Len(Sound) = n
    BY <1>1, <2>2, FirstElements
  <2>4. QED
    BY <1>1, <2>2, <2>3
<1>4. QED
  BY <1>2, <1>3

\* However a read and the writers interleave, and whatever was cut off before it
\* began, the reader gets a linked chain, up to a line truncated while it was in
\* the middle of it (readEvents, verifyAll).
THEOREM ReadersSeeLinkedChains == Spec => []SnapshotVerifies
<1>1. ASSUME IInv PROVE SnapshotVerifies
  <2>1. CASE reader.broken = 0
    BY <1>1, <2>1 DEF SnapshotVerifies, Sound, IInv, Kept, ReaderFits
  <2>2. CASE reader.broken # 0
    <3>1. /\ Sound \in Seq(Event) /\ Sound = SubSeq(seen, 1, Len(Sound))
          /\ Len(Sound) <= Len(seen) /\ Agree(Len(Sound))
      BY <1>1, <2>2, SoundAgrees
    <3>2. seen \in Seq(Event) /\ log \in Seq(Event) /\ Len(Sound) \in 0..Len(seen)
      BY <1>1, <3>1, LenProperties DEF IInv, TypeOK
    <3>3. \A i \in 1..Len(Sound) : SubSeq(seen, 1, Len(Sound))[i] = seen[i]
      BY <3>2, FirstElements
    <3>4. Len(Sound) <= Len(log) /\ \A i \in 1..Len(Sound) : Sound[i] = log[i]
      BY <3>1, <3>3 DEF Agree
    <3>5. Ledger!ChainLinked(log)
      BY <1>1 DEF IInv, ChainStaysLinked
    <3>6. QED
      BY <3>1, <3>2, <3>4, <3>5, PrefixLinked DEF SnapshotVerifies
  <2>3. QED
    BY <2>1, <2>2
<1>2. IInv => SnapshotVerifies
  BY <1>1
<1>3. QED
  BY <1>2, Invariance, PTL

\* The first n events a reader was given, if they are those of the log.
LEMMA AgreeIsPrefix ==
  ASSUME IInv, NEW n \in Nat, Agree(n)
  PROVE  IsPrefix(SubSeq(seen, 1, n), log)
<1>1. /\ seen \in Seq(Event) /\ log \in Seq(Event) /\ Len(log) \in Nat
      /\ n \in 0..Len(seen) /\ n \in 0..Len(log) /\ \A i \in 1..n : seen[i] = log[i]
  BY LenProperties DEF IInv, TypeOK, Agree
<1> DEFINE s == SubSeq(seen, 1, n)
<1>2. s \in Seq(Event) /\ Len(s) = n /\ \A i \in 1..n : s[i] = seen[i]
  BY <1>1, FirstElements
<1>3. /\ SubSeq(log, 1, n) \in Seq(Event) /\ Len(SubSeq(log, 1, n)) = n
      /\ \A i \in 1..n : SubSeq(log, 1, n)[i] = log[i]
  BY <1>1, FirstElements
<1> HIDE DEF s
<1>4. SubSeq(s, 1, n) = s
  BY <1>2, SubSeqFull
<1>5. s = SubSeq(log, 1, n)
  BY <1>1, <1>2, <1>3, SeqEqual
<1>6. IsPrefix(s, log)
  BY <1>1, <1>2, <1>4, <1>5 DEF IsPrefix
<1>7. QED
  BY <1>6 DEF s

\* All but the last event a reader got is in the log for good, up to a line
\* truncated while it was in the middle of it (readEvents against healTornTail).
THEOREM ReadersSeePrefixes == Spec => []SnapshotPrefix
<1>1. ASSUME IInv PROVE SnapshotPrefix
  <2>1. seen \in Seq(Event) /\ Len(seen) \in Nat /\ Len(Sound) \in Nat
    BY <1>1, SoundAgrees, LenProperties DEF IInv, TypeOK
  <2>2. CASE reader.broken = 0 /\ ~reader.on /\ seen # <<>>
    <3>1. PICK n \in Nat : n = Len(seen) - 1
      BY <2>1, <2>2, EmptySeq
    <3>2. Agree(n)
      BY <1>1, <2>2, <3>1 DEF IInv, Kept, ReaderFits
    <3>3. Front(seen) = SubSeq(seen, 1, n)
      BY <3>1 DEF Front
    <3>4. QED
      BY <1>1, <2>2, <3>2, <3>3, AgreeIsPrefix DEF SnapshotPrefix
  <2>3. CASE ~(reader.broken = 0 /\ ~reader.on /\ seen # <<>>)
    <3>1. Agree(Len(Sound)) /\ Sound = SubSeq(seen, 1, Len(Sound))
      BY <1>1, <2>3, SoundAgrees
    <3>2. IsPrefix(SubSeq(seen, 1, Len(Sound)), log)
      BY <1>1, <2>1, <3>1, AgreeIsPrefix
    <3>3. IsPrefix(Sound, log)
      BY <3>1, <3>2, Zenon
    <3>4. QED
      BY <2>3, <3>3 DEF SnapshotPrefix
  <2>4. QED
    BY <2>2, <2>3
<1>2. IInv => SnapshotPrefix
  BY <1>1
<1>3. QED
  BY <1>2, Invariance, PTL

\* An event a call returned is in the log for good, short writes apart
\* (appendDraftEvent, appendEventUnsafe).
THEOREM ReturnedIsLogged == Spec => []AckedRecorded
<1>1. IInv => AckedRecorded
  BY DEF IInv, Recorded, AckedRecorded, ToSet
<1>2. QED
  BY <1>1, Invariance, PTL

-----------------------------------------------------------------------------
(* EventLog implements ChainLedger *)

\* The one action that changes the log extends it as the ledger allows.
LEMMA WriteRestExtends ==
  ASSUME IInv, NEW p \in Proc, WriteRest(p)
  PROVE  Ledger!Extend(draft[p].hash, draft[p].op, draft[p].body)
<1>1. draft[p] \in Event /\ pc[p] \in {"write", "writing"} /\ pc[p] \in Unwritten
  BY DEF IInv, TypeOK, WriteRest, Unwritten
<1>2. /\ draft[p].prev = Ledger!HeadHash(log) /\ draft[p].seq = Len(log)
      /\ draft[p].op # NoOp => ~Ledger!CarriesOp(log, draft[p].op)
      /\ Ledger!FreshHash(log, draft[p].hash)
  BY <1>1 DEF IInv, DraftFits, IdsOnce, Ledger!CarriesOp, Ledger!FreshHash
<1>3. draft[p] = Ledger!NextEvent(log, draft[p].hash, draft[p].op, draft[p].body)
  BY <1>1, <1>2 DEF Event, Ledger!NextEvent
<1>4. QED
  BY <1>2, <1>3 DEF WriteRest, Ledger!Extend

\* Every step of the log is a step of the ledger or leaves it alone.
LEMMA StepRefines == IInv /\ [Next]_vars => [Ledger!Next]_log
<1> SUFFICES ASSUME IInv, [Next]_vars PROVE Ledger!Next \/ log' = log
  OBVIOUS
<1>1. ASSUME NEW p \in Proc, WriteRest(p) PROVE Ledger!Next
  <2>1. draft[p].hash \in EventHash /\ draft[p].op \in Op \cup {NoOp} /\ draft[p].body \in Body
    <3>1. draft[p] \in Event /\ issued \in 0..MaxCalls
      BY DEF IInv, TypeOK
    <3>2. draft[p].hash \in 1..issued
      BY <1>1 DEF IInv, IdsOnce, Unwritten, WriteRest
    <3>3. draft[p].hash \in EventHash
      BY <3>1, <3>2, CallsAssumption DEF EventHash
    <3>4. QED
      BY <3>1, <3>3 DEF Event
  <2>2. QED
    BY <1>1, <2>1, WriteRestExtends DEF Ledger!Next
<1>2. ASSUME NEW p \in Proc, Call(p) \/ Crash(p) PROVE log' = log
  BY <1>2 DEF Call, AppendDraftEvent, AppendEvent, Crash, fileVars
<1>3. ASSUME NEW p \in Proc, Run(p), ~WriteRest(p) PROVE log' = log
  BY <1>3 DEF Run, InSection, WriteRebuiltCache, AcquireAndHeal, AcquireTimeout,
              ReturnExisting,
              BuildDraft, AcceptFinal, RejectStale, WriteSome, ShortWrite, WriteHeadCache,
              Return, fileVars
<1>4. QED
  BY <1>1, <1>2, <1>3 DEF Next, Read, StartRead, ReadLines, ReadPart, EndRead, ReadOver, EndStale,
                          OnlyReads, vars, fileVars

\* The JSONL log with its lock, cache, torn tails and crashes implements the
\* append-only ledger.
THEOREM LogImplementsLedger == Spec => ImplementsLedger
<1>1. Init => Ledger!Init
  BY DEF Init, Ledger!Init
<1>2. QED
  BY <1>1, StepRefines, Invariance, PTL DEF Spec, ImplementsLedger, Ledger!Spec

-----------------------------------------------------------------------------
(* EventLog uses the lock as ChainMutex allows *)

\* The processes between taking the lock and giving it back.
Holders == {p \in Proc : pc[p] \in InLock}

Mutex == INSTANCE ChainMutex WITH holders <- Holders

\* The lock is taken when free and given back by its holder, and the file is
\* written by nobody else.
LEMMA LockSteps ==
  ASSUME IInv, [Next]_vars
  PROVE  \/ UNCHANGED <<lock, log, torn>>
         \/ \E p \in Proc : /\ lock = NoProc \/ lock = p
                            /\ lock' = NoProc \/ lock' = p
                            /\ UNCHANGED <<log, torn>> \/ lock' = p
<1>1. ASSUME NEW p \in Proc, Call(p) \/ WriteRebuiltCache(p) \/ AcquireTimeout(p)
      PROVE  UNCHANGED <<lock, log, torn>>
  BY <1>1 DEF Call, AppendDraftEvent, AppendEvent, WriteRebuiltCache, AcquireTimeout, fileVars
<1>2. ASSUME NEW p \in Proc, AcquireAndHeal(p)
      PROVE  lock = NoProc /\ lock' = p
  BY <1>2 DEF AcquireAndHeal
<1>3. ASSUME NEW p \in Proc, InSection(p)
      PROVE  /\ lock = p /\ (lock' = NoProc \/ lock' = p)
             /\ UNCHANGED <<log, torn>> \/ lock' = p
  <2>1. pc[p] \in InLock
    BY <1>3 DEF InSection, ReturnExisting, BuildDraft, AcceptFinal, RejectStale, WriteSome,
                WriteRest, ShortWrite, WriteHeadCache, Return, InLock
  <2>2. lock = p
    BY <2>1 DEF IInv, LockHeld
  <2>3. QED
    BY <1>3, <2>2 DEF InSection, ReturnExisting, BuildDraft, AcceptFinal, RejectStale, WriteSome,
                WriteRest, ShortWrite, WriteHeadCache, Return, fileVars
<1>4. ASSUME NEW p \in Proc, Crash(p)
      PROVE  UNCHANGED <<log, torn>> /\ (lock' = lock \/ (lock = p /\ lock' = NoProc))
  BY <1>4 DEF Crash
<1>5. CASE Read \/ UNCHANGED vars
  BY <1>5 DEF Read, StartRead, ReadLines, ReadPart, EndRead, ReadOver, EndStale, OnlyReads,
              vars, fileVars
<1>6. QED
  BY <1>1, <1>2, <1>3, <1>4, <1>5 DEF Next, Run

\* Those in the critical section are whoever has the lock.
LEMMA HoldersHold == ASSUME LockHeld PROVE Holders = {p \in Proc : lock = p}
BY DEF LockHeld, Holders

\* The processes that append are in the critical section one at a time, whoever
\* is refused, throws or dies there (appendDraftEvent, appendEvent under
\* withExclusive).
THEOREM LogUsesMutex == Spec => Mutex!Spec
<1>1. Init => Mutex!Init
  BY DEF Init, Mutex!Init, Holders, InLock
<1>2. ASSUME IInv, IInv', [Next]_vars
      PROVE  [Mutex!Next]_Holders
  <2>1. Holders = {p \in Proc : lock = p} /\ Holders' = {p \in Proc : lock' = p}
    BY <1>2, HoldersHold DEF IInv, LockHeld, Holders
  <2>2. CASE lock' = lock
    BY <2>1, <2>2
  <2>3. ASSUME NEW p \in Proc, lock = NoProc, lock' = p
        PROVE  Mutex!Next
    <3>1. Holders = {} /\ Holders' = {p}
      BY <2>1, <2>3, ProcAssumption
    <3>2. QED
      BY <3>1 DEF Mutex!Next, Mutex!Enter
  <2>4. ASSUME NEW p \in Proc, lock = p, lock' = NoProc
        PROVE  Mutex!Next
    <3>1. Holders = {p} /\ Holders' = {}
      BY <2>1, <2>4, ProcAssumption
    <3>2. QED
      BY <3>1 DEF Mutex!Next, Mutex!Leave
  <2>5. QED
    BY <1>2, <2>2, <2>3, <2>4, LockSteps
<1>3. QED
  BY <1>1, <1>2, Invariance, PTL DEF Spec, Mutex!Spec

\* Whatever changes the file, healing it, writing to it or completing a line, is
\* done by the one process in the critical section (healTornTail,
\* appendEventUnsafe).
THEOREM OnlyTheHolderWrites == Spec => [][\E p \in Proc : Holders' = {p}]_<<log, torn>>
<1>1. ASSUME IInv, IInv', [Next]_vars, ~UNCHANGED <<log, torn>>
      PROVE  \E p \in Proc : Holders' = {p}
  <2>1. PICK p \in Proc : lock' = p
    BY <1>1, LockSteps
  <2>2. Holders' = {q \in Proc : lock' = q}
    BY <1>1, HoldersHold DEF IInv, LockHeld, Holders
  <2>3. QED
    BY <2>1, <2>2
<1>2. QED
  BY <1>1, Invariance, PTL DEF Spec
=============================================================================
