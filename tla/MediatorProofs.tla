--------------------------- MODULE MediatorProofs ---------------------------
(***************************************************************************)
(* Proofs about Mediator, for any sizes of the capture, amount of output   *)
(* and exit codes: types, that the result tells how the child ended, and   *)
(* that the capture keeps the ends of the output.                          *)
(***************************************************************************)
EXTENDS Mediator, SequenceTheorems, TLAPS

-----------------------------------------------------------------------------
(* The inductive invariant *)

\* What each stage of a call knows of the child and the result.
StageFits ==
  /\ stage = "idle" /\ child.state = "running" => child.refused
  /\ stage = "spawning" => child = NoChild /\ ~killed /\ timer = "off" /\ out = 0 /\ cap = NoCap
  /\ stage = "waiting" => child.state # "none"
  /\ stage # "idle" => ~result.done /\ child.refused = FALSE

\* A child has a code or a signal once it has exited, and only then.
ChildFits ==
  /\ child.state # "exited" => child.code = NoCode /\ child.signal = Null
  /\ child.state = "exited" => (child.code = NoCode <=> child.signal # Null)

\* Only the timeout sends a SIGTERM.
SignalsFit ==
  /\ killed => timer \in {"grace", "spent"}
  /\ child.signal = "SIGTERM" => killed

\* The n bytes that follow the first t.
Bytes(t, n) == [k \in 1..n |-> t + k]

\* The first and the last bytes of the c.total that were drained.
Captured(c) ==
  LET n == IF c.total > HeadTailBytes THEN HeadTailBytes ELSE c.total
  IN c.total \in Nat /\ c.head = Bytes(0, n) /\ c.tail = Bytes(c.total - n, n)

\* Once the call has resolved nothing of the child changes any more.
ResultFits ==
  /\ result.done \in BOOLEAN /\ result.spawn_error \in BOOLEAN
  /\ result.done => Captured(result.cap) /\ result.cap.total <= out
  /\ result.done /\ child.refused = FALSE =>
       /\ result.exit_code = child.code /\ result.signal = child.signal
       /\ result.spawn_error <=> child.state = "none"

\* What is known once a child could not be signalled, as it lives on or not.
RefusalFits ==
  child.refused =>
    /\ result.done /\ result.spawn_error
    /\ result.exit_code = NoCode /\ result.signal = Null
    /\ child.term = "refuses" /\ timer \in {"grace", "spent"}

\* No other child outlives its call.
StraysFit == \A c \in strays : c.refused

MInv ==
  /\ MediatorTypeOK /\ StageFits /\ ChildFits /\ SignalsFit
  /\ Captured(cap) /\ ResultFits /\ RefusalFits /\ StraysFit

-----------------------------------------------------------------------------
(* The capture *)

\* Bytes is a sequence of its length.
LEMMA BytesAre ==
  ASSUME NEW t \in Nat, NEW n \in Nat
  PROVE  /\ Bytes(t, n) \in Seq(Nat) /\ Len(Bytes(t, n)) = n
         /\ DOMAIN Bytes(t, n) = 1..n
         /\ \A k \in 1..n : Bytes(t, n)[k] = t + k
BY DEF Bytes

\* A sequence of n numbers that count up from t + 1 is Bytes(t, n).
LEMMA BytesOnly ==
  ASSUME NEW s \in Seq(Nat), NEW t \in Nat, NEW n \in Nat, Len(s) = n,
         \A k \in 1..n : s[k] = t + k
  PROVE  s = Bytes(t, n)
BY DEF Bytes

\* Part of them is bytes in a row again.
PartIs(t, n, k, l, u, m) ==
  k >= 1 /\ l <= n /\ u = t + k - 1 /\ m = l - k + 1
    => SubSeq(Bytes(t, n), k, l) = Bytes(u, m)

\* Bytes after the bytes they follow.
JoinIs(t, n, m, u, l) == u = t + n /\ l = n + m => Bytes(t, n) \o Bytes(u, m) = Bytes(t, l)

\* The last m of n.
LastIs(t, n, m, j, u) ==
  j = (IF n > m THEN m ELSE n) /\ u = t + n - j => LastOf(Bytes(t, n), m) = Bytes(u, j)

\* A head of h bytes and what it has room for of the n that follow the first t.
FillIs(t, n, H, h, i) ==
  h = (IF t > H THEN H ELSE t) /\ i = (IF t + n > H THEN H ELSE t + n)
    => Bytes(0, h) \o FirstOf(Bytes(t, n), H - h) = Bytes(0, i)

\* A tail of h bytes rolls on over the n that follow.
RollIs(t, n, H, h, i, b, u) ==
  /\ h = (IF t > H THEN H ELSE t) /\ i = (IF t + n > H THEN H ELSE t + n)
  /\ b = t - h /\ u = t + n - i
  => LastOf(Bytes(b, h) \o Bytes(t, n), H) = Bytes(u, i)

\* SubSeq, on bytes in a row.
LEMMA BytesPart == \A t, n, k, l, u, m \in Nat : PartIs(t, n, k, l, u, m)
<1> SUFFICES ASSUME NEW t \in Nat, NEW n \in Nat, NEW k \in Nat, NEW l \in Nat, NEW u \in Nat, NEW m \in Nat
             PROVE  PartIs(t, n, k, l, u, m)
  OBVIOUS
<1> SUFFICES ASSUME k >= 1, l <= n, u = t + k - 1, m = l - k + 1
             PROVE  SubSeq(Bytes(t, n), k, l) = Bytes(u, m)
  BY DEF PartIs
<1> DEFINE a == Bytes(t, n)
           s == SubSeq(a, k, l)
<1>1. a \in Seq(Nat) /\ Len(a) = n /\ \A x \in 1..n : a[x] = t + x
  BY BytesAre
<1> HIDE DEF a
<1>2. s \in Seq(Nat) /\ Len(s) = m
  BY <1>1
<1>3. \A x \in 1..m : s[x] = u + x
  BY <1>1
<1>4. s = Bytes(u, m)
  BY <1>2, <1>3, BytesOnly
<1>5. QED
  BY <1>4 DEF a

\* Concatenation, on bytes in a row.
LEMMA BytesJoin == \A t, n, m, u, l \in Nat : JoinIs(t, n, m, u, l)
<1> SUFFICES ASSUME NEW t \in Nat, NEW n \in Nat, NEW m \in Nat, NEW u \in Nat, NEW l \in Nat
             PROVE  JoinIs(t, n, m, u, l)
  OBVIOUS
<1> SUFFICES ASSUME u = t + n, l = n + m
             PROVE  Bytes(t, n) \o Bytes(u, m) = Bytes(t, l)
  BY DEF JoinIs
<1> DEFINE a == Bytes(t, n)
           b == Bytes(u, m)
<1>1. a \in Seq(Nat) /\ Len(a) = n /\ \A k \in 1..n : a[k] = t + k
  BY BytesAre
<1>2. b \in Seq(Nat) /\ Len(b) = m /\ \A k \in 1..m : b[k] = u + k
  BY BytesAre
<1> HIDE DEF a, b
<1>3. a \o b \in Seq(Nat) /\ Len(a \o b) = l
  BY <1>1, <1>2, ConcatProperties
<1>4. ASSUME NEW k \in 1..l PROVE (a \o b)[k] = t + k
  <2>1. (a \o b)[k] = IF k <= n THEN a[k] ELSE b[k - n]
    BY <1>1, <1>2, ConcatProperties
  <2>2. CASE k <= n
    BY <1>1, <2>1, <2>2
  <2>3. CASE ~(k <= n)
    BY <1>2, <2>1, <2>3
  <2>4. QED
    BY <2>2, <2>3
<1>5. a \o b = Bytes(t, l)
  BY <1>3, <1>4, BytesOnly
<1>6. QED
  BY <1>5 DEF a, b

\* LastOf, on bytes in a row.
LEMMA LastBytes == \A t, n, m, j, u \in Nat : LastIs(t, n, m, j, u)
<1> SUFFICES ASSUME NEW t \in Nat, NEW n \in Nat, NEW m \in Nat, NEW j \in Nat, NEW u \in Nat
             PROVE  LastIs(t, n, m, j, u)
  OBVIOUS
<1> SUFFICES ASSUME j = (IF n > m THEN m ELSE n), u = t + n - j
             PROVE  LastOf(Bytes(t, n), m) = Bytes(u, j)
  BY DEF LastIs
<1>1. n - j + 1 \in Nat /\ n - j + 1 >= 1
  OBVIOUS
<1>2. PICK k \in Nat : k = n - j + 1
  BY <1>1
<1>3. Len(Bytes(t, n)) = n
  BY BytesAre
<1>4. LastOf(Bytes(t, n), m) = SubSeq(Bytes(t, n), k, n)
  BY <1>2, <1>3 DEF LastOf
<1>5. k >= 1 /\ u = t + k - 1 /\ j = n - k + 1
  BY <1>1, <1>2
<1>6. PartIs(t, n, k, n, u, j)
  BY BytesPart
<1>7. QED
  BY <1>4, <1>5, <1>6 DEF PartIs

\* The head takes of a chunk what it has room for.
LEMMA HeadFills == \A t, n, H, h, i \in Nat : FillIs(t, n, H, h, i)
<1> SUFFICES ASSUME NEW t \in Nat, NEW n \in Nat, NEW H \in Nat, NEW h \in Nat, NEW i \in Nat
             PROVE  FillIs(t, n, H, h, i)
  OBVIOUS
<1> SUFFICES ASSUME h = (IF t > H THEN H ELSE t), i = (IF t + n > H THEN H ELSE t + n)
             PROVE  Bytes(0, h) \o FirstOf(Bytes(t, n), H - h) = Bytes(0, i)
  BY DEF FillIs
<1>1. (IF n > H - h THEN H - h ELSE n) \in Nat
  OBVIOUS
<1>2. PICK m \in Nat : m = IF n > H - h THEN H - h ELSE n
  BY <1>1
<1>3. h + m = i /\ m <= n /\ (m = 0 \/ h = t)
  BY <1>2
<1>4. Len(Bytes(t, n)) = n
  BY BytesAre
<1>5. FirstOf(Bytes(t, n), H - h) = SubSeq(Bytes(t, n), 1, m)
  BY <1>2, <1>4 DEF FirstOf
<1>6. FirstOf(Bytes(t, n), H - h) = Bytes(t, m)
  <2>1. PartIs(t, n, 1, m, t, m)
    BY BytesPart
  <2>2. QED
    BY <1>3, <1>5, <2>1 DEF PartIs
<1>7. CASE h = t
  <2>1. JoinIs(0, t, m, t, i)
    BY BytesJoin
  <2>2. t = 0 + t /\ i = t + m
    BY <1>3, <1>7
  <2>3. Bytes(0, t) \o Bytes(t, m) = Bytes(0, i)
    BY <2>1, <2>2 DEF JoinIs
  <2>4. QED
    BY <1>6, <1>7, <2>3, Zenon
<1>8. CASE m = 0
  <2>1. Bytes(t, 0) = <<>>
    BY DEF Bytes
  <2>2. Bytes(0, h) \in Seq(Nat)
    BY BytesAre
  <2>3. Bytes(0, h) \o <<>> = Bytes(0, h)
    BY <2>2, ConcatEmptySeq
  <2>4. h = i
    BY <1>3, <1>8
  <2>5. QED
    BY <1>6, <1>8, <2>1, <2>3, <2>4, Zenon
<1>9. QED
  BY <1>3, <1>7, <1>8

\* The tail rolls on over a chunk.
LEMMA TailRolls == \A t, n, H, h, i, b, u \in Nat : RollIs(t, n, H, h, i, b, u)
<1> SUFFICES ASSUME NEW t \in Nat, NEW n \in Nat, NEW H \in Nat, NEW h \in Nat, NEW i \in Nat, NEW b \in Nat, NEW u \in Nat
             PROVE  RollIs(t, n, H, h, i, b, u)
  OBVIOUS
<1> SUFFICES ASSUME h = (IF t > H THEN H ELSE t), i = (IF t + n > H THEN H ELSE t + n), b = t - h, u = t + n - i
             PROVE  LastOf(Bytes(b, h) \o Bytes(t, n), H) = Bytes(u, i)
  BY DEF RollIs
<1>1. PICK m \in Nat : m = h + n
  OBVIOUS
<1>2. t = b + h /\ i = (IF m > H THEN H ELSE m) /\ u = b + m - i
  BY <1>1
<1>3. JoinIs(b, h, n, t, m) /\ LastIs(b, m, H, i, u)
  BY BytesJoin, LastBytes
<1>4. Bytes(b, h) \o Bytes(t, n) = Bytes(b, m)
  BY <1>1, <1>2, <1>3 DEF JoinIs
<1>5. LastOf(Bytes(b, m), H) = Bytes(u, i)
  BY <1>2, <1>3 DEF LastIs
<1>6. QED
  BY <1>4, <1>5

\* The chunk that comes next keeps the capture what it is.
LEMMA WriteChunkKeeps ==
  ASSUME NEW c, Captured(c), NEW n \in Nat
  PROVE  /\ Captured(WriteChunk(c, Bytes(c.total, n)))
         /\ WriteChunk(c, Bytes(c.total, n)).total = c.total + n
<1> DEFINE t == c.total
           h == IF t > HeadTailBytes THEN HeadTailBytes ELSE t
           i == IF t + n > HeadTailBytes THEN HeadTailBytes ELSE t + n
           b == t - h
           u == t + n - i
           d == WriteChunk(c, Bytes(t, n))
<1>1. /\ t \in Nat /\ h \in Nat /\ i \in Nat /\ b \in Nat /\ u \in Nat
      /\ HeadTailBytes \in Nat
  BY CaptureAssumption DEF Captured
<1>2. c.head = Bytes(0, h) /\ c.tail = Bytes(b, h)
  BY DEF Captured
<1> HIDE DEF t
<1>3. Bytes(0, h) \o FirstOf(Bytes(t, n), HeadTailBytes - h) = Bytes(0, i)
  <2>1. FillIs(t, n, HeadTailBytes, h, i)
    BY <1>1, HeadFills
  <2>2. QED
    BY <2>1 DEF FillIs
<1>4. LastOf(Bytes(b, h) \o Bytes(t, n), HeadTailBytes) = Bytes(u, i)
  <2>1. RollIs(t, n, HeadTailBytes, h, i, b, u)
    BY <1>1, TailRolls
  <2>2. QED
    BY <2>1 DEF RollIs
<1> HIDE DEF h, i, b
<1>5. Len(Bytes(t, n)) = n /\ Len(Bytes(0, h)) = h
  BY <1>1, BytesAre
<1>6. d.total = t + n /\ d.head = Bytes(0, i) /\ d.tail = Bytes(u, i)
  BY <1>2, <1>3, <1>4, <1>5 DEF WriteChunk, t
<1> HIDE DEF d
<1>7. Captured(d)
  BY <1>1, <1>6 DEF Captured, i
<1>8. QED
  BY <1>6, <1>7 DEF d, t

-----------------------------------------------------------------------------

(* The inductive invariant, step by step *)

\* A type that does not say what the capture holds.
LEMMA CapturedLengths ==
  ASSUME NEW c, Captured(c)
  PROVE  Len(c.head) <= HeadTailBytes /\ Len(c.tail) <= HeadTailBytes
<1> DEFINE n == IF c.total > HeadTailBytes THEN HeadTailBytes ELSE c.total
<1>1. n \in Nat /\ n <= HeadTailBytes /\ c.total - n \in Nat
  BY CaptureAssumption DEF Captured
<1>2. c.head = Bytes(0, n) /\ c.tail = Bytes(c.total - n, n)
  BY DEF Captured
<1> HIDE DEF n
<1>3. Len(Bytes(0, n)) = n /\ Len(Bytes(c.total - n, n)) = n
  BY <1>1, BytesAre
<1>4. QED
  BY <1>1, <1>2, <1>3

\* An empty capture is one.
LEMMA EmptyCaptured == Captured(NoCap)
<1>1. Bytes(0, 0) = <<>>
  BY DEF Bytes
<1>2. QED
  BY <1>1, CaptureAssumption DEF Captured, NoCap

\* What a call starts from, whatever the sizes.
LEMMA BlankFits ==
  /\ NoChild \in [state : {"none", "running", "exited"}, code : ExitCodes \cup {NoCode},
                  signal : {Null, "SIGTERM", "SIGKILL"}, term : Terms, refused : BOOLEAN]
  /\ NoChild.state = "none" /\ NoChild.code = NoCode /\ NoChild.signal = Null /\ ~NoChild.refused
  /\ NoCap.total = 0 /\ Len(NoCap.head) <= HeadTailBytes /\ Len(NoCap.tail) <= HeadTailBytes
  /\ NoResult.done = FALSE /\ NoResult.spawn_error = FALSE
<1>1. /\ NoChild \in [state : {"none", "running", "exited"}, code : ExitCodes \cup {NoCode},
                      signal : {Null, "SIGTERM", "SIGKILL"}, term : Terms, refused : BOOLEAN]
      /\ NoChild.state = "none" /\ NoChild.code = NoCode /\ NoChild.signal = Null /\ ~NoChild.refused
  BY DEF NoChild, Terms
<1>2. Len(NoCap.head) <= HeadTailBytes /\ Len(NoCap.tail) <= HeadTailBytes
  BY EmptyCaptured, CapturedLengths
<1>3. NoCap.total = 0 /\ NoResult.done = FALSE /\ NoResult.spawn_error = FALSE
  BY DEF NoCap, NoResult
<1>4. QED
  BY <1>1, <1>2, <1>3

\* The initial states satisfy the invariant.
LEMMA MInvInit == MediatorInit => MInv
<1> SUFFICES ASSUME MediatorInit PROVE MInv
  OBVIOUS
<1> USE CaptureAssumption, BlankFits DEF MediatorInit
<1>1. MediatorTypeOK
  <2>1. out \in 0..MaxOutput /\ cap.total \in 0..out
    OBVIOUS
  <2>2. Len(cap.head) <= HeadTailBytes /\ Len(cap.tail) <= HeadTailBytes
    OBVIOUS
  <2>3. child = NoChild /\ stage = "idle" /\ killed \in BOOLEAN /\ timer = "off"
    OBVIOUS
  <2>4. QED
    BY <2>1, <2>2, <2>3 DEF MediatorTypeOK
<1>2. StageFits /\ ChildFits /\ SignalsFit /\ Captured(cap)
  BY EmptyCaptured DEF StageFits, ChildFits, SignalsFit, Null
<1>3. ResultFits
  BY DEF ResultFits
<1>4. RefusalFits /\ StraysFit
  BY DEF RefusalFits, StraysFit
<1>5. QED
  BY <1>1, <1>2, <1>3, <1>4 DEF MInv

\* Every step keeps it.
LEMMA MInvStep == MInv /\ [MediatorNext]_medVars => MInv'
<1> SUFFICES ASSUME MInv, [MediatorNext]_medVars PROVE MInv'
  OBVIOUS
<1> USE CaptureAssumption DEF MInv
<1>1. CASE MediateShell \/ Forget
  <2> USE <1>1, BlankFits DEF MediateShell, Forget, Afresh
  <2>1. MediatorTypeOK'
    <3>1. out' \in 0..MaxOutput /\ cap'.total \in 0..out'
      OBVIOUS
    <3>2. Len(cap'.head) <= HeadTailBytes /\ Len(cap'.tail) <= HeadTailBytes
      OBVIOUS
    <3>3. child' = NoChild /\ killed' \in BOOLEAN
          /\ stage' \in {"idle", "spawning", "waiting"} /\ timer' = "off"
      OBVIOUS
    <3>4. QED
      BY <3>1, <3>2, <3>3 DEF MediatorTypeOK
  <2>2. StageFits' /\ ChildFits' /\ SignalsFit'
    BY DEF StageFits, ChildFits, SignalsFit, Null
  <2>3. Captured(cap)'
    BY EmptyCaptured DEF Captured
  <2>4. ResultFits' /\ RefusalFits'
    BY DEF ResultFits, RefusalFits
  <2>5. StraysFit'
    <3>1. stage = "idle"
      OBVIOUS
    <3>2. child.state = "running" => child.refused
      BY <3>1 DEF StageFits
    <3>3. QED
      BY <3>2 DEF StraysFit
  <2>6. QED
    BY <2>1, <2>2, <2>3, <2>4, <2>5
<1>2. CASE SpawnFails
  <2> USE <1>2 DEF SpawnFails, NoResult, NoChild
  <2>1. MediatorTypeOK' /\ Captured(cap)'
    BY DEF MediatorTypeOK, Captured
  <2>2. StageFits' /\ ChildFits' /\ SignalsFit'
    BY DEF StageFits, ChildFits, SignalsFit, Null
  <2>3. child = NoChild /\ cap = NoCap /\ out = 0
    BY DEF StageFits
  <2>4. ResultFits'
    BY <2>3, EmptyCaptured DEF ResultFits, NoCap, Captured
  <2>5. RefusalFits' /\ StraysFit'
    BY <2>3 DEF RefusalFits, StraysFit
  <2>6. QED
    BY <2>1, <2>2, <2>4, <2>5
<1>3. CASE \E timeout \in BOOLEAN : \E term \in Terms : Spawns(timeout, term)
  <2> USE <1>3 DEF Spawns, NoChild
  <2>1. MediatorTypeOK' /\ Captured(cap)'
    BY DEF MediatorTypeOK, Captured
  <2>2. StageFits' /\ ChildFits' /\ SignalsFit'
    BY DEF StageFits, ChildFits, SignalsFit, Null
  <2>3. ResultFits' /\ RefusalFits' /\ StraysFit'
    BY DEF ResultFits, StageFits, RefusalFits, StraysFit
  <2>4. QED
    BY <2>1, <2>2, <2>3
<1>4. CASE ChildWrites
  <2> USE <1>4 DEF ChildWrites
  <2>1. MediatorTypeOK' /\ Captured(cap)'
    BY DEF MediatorTypeOK, Captured
  <2>2. StageFits' /\ ChildFits' /\ SignalsFit'
    BY DEF StageFits, ChildFits, SignalsFit, NoChild
  <2>3. ResultFits' /\ RefusalFits' /\ StraysFit'
    BY DEF ResultFits, Captured, MediatorTypeOK, RefusalFits, StraysFit
  <2>4. QED
    BY <2>1, <2>2, <2>3
<1>5. CASE \E n \in 1..MaxOutput : Drain(n)
  <2>1. PICK n \in 1..MaxOutput : Drain(n)
    BY <1>5
  <2> USE <2>1 DEF Drain
  <2>2. n \in Nat
    OBVIOUS
  <2>3. cap' = WriteChunk(cap, Bytes(cap.total, n))
    BY DEF Bytes
  <2>4. Captured(cap') /\ cap'.total = cap.total + n
    BY <2>2, <2>3, WriteChunkKeeps
  <2>5. Len(cap'.head) <= HeadTailBytes /\ Len(cap'.tail) <= HeadTailBytes
    BY <2>4, CapturedLengths
  <2>6. MediatorTypeOK'
    BY <2>2, <2>4, <2>5 DEF MediatorTypeOK
  <2>7. StageFits' /\ ChildFits' /\ SignalsFit'
    BY DEF StageFits, ChildFits, SignalsFit
  <2>8. ResultFits' /\ RefusalFits' /\ StraysFit'
    BY DEF ResultFits, StageFits, RefusalFits, StraysFit
  <2>9. QED
    BY <2>4, <2>6, <2>7, <2>8
<1>6. CASE ChildTerminated \/ ChildCrashes \/ \E code \in ExitCodes : ChildExits(code)
  <2> USE DEF ChildTerminated, ChildCrashes, ChildExits, Kill
  <2>1. /\ child.state = "running"
        /\ UNCHANGED <<stage, killed, timer, out, cap, result, strays>>
    BY <1>6
  <2>2. /\ child.code = NoCode /\ child.signal = Null
        /\ child.refused = FALSE => stage = "waiting" /\ ~result.done
    BY <2>1 DEF MediatorTypeOK, ChildFits, StageFits, NoChild
  <2>3. child'.state = "exited" /\ child'.refused = child.refused /\ child'.term = child.term
    BY <1>6 DEF MediatorTypeOK
  <2>4. MediatorTypeOK' /\ Captured(cap)'
    <3>1. child' \in [state : {"none", "running", "exited"}, code : ExitCodes \cup {NoCode},
                      signal : {Null, "SIGTERM", "SIGKILL"}, term : Terms, refused : BOOLEAN]
      <4>1. CASE ChildTerminated \/ ChildCrashes
        BY <4>1 DEF MediatorTypeOK
      <4>2. CASE \E code \in ExitCodes : ChildExits(code)
        BY <4>2 DEF MediatorTypeOK
      <4>3. QED
        BY <1>6, <4>1, <4>2
    <3>2. QED
      BY <2>1, <3>1 DEF MediatorTypeOK, Captured
  <2>5. StageFits'
    BY <2>1, <2>2, <2>3 DEF StageFits, NoChild
  <2>6. ChildFits' /\ SignalsFit'
    <3>1. CASE ChildTerminated
      BY <2>1, <2>2, <2>3, <3>1 DEF ChildFits, SignalsFit, MediatorTypeOK, Null
    <3>2. CASE ChildCrashes
      BY <2>1, <2>2, <2>3, <3>2 DEF ChildFits, SignalsFit, MediatorTypeOK, Null
    <3>3. CASE \E code \in ExitCodes : ChildExits(code)
      <4>1. PICK code \in ExitCodes : ChildExits(code)
        BY <3>3
      <4>2. child'.code = code /\ child'.signal = Null
        BY <2>2, <4>1 DEF MediatorTypeOK
      <4>3. code # NoCode
        BY CodesAssumption DEF NoCode
      <4>4. QED
        BY <2>1, <2>3, <4>2, <4>3 DEF ChildFits, SignalsFit, Null
    <3>4. QED
      BY <1>6, <3>1, <3>2, <3>3
  <2>7. ResultFits' /\ RefusalFits' /\ StraysFit'
    BY <2>1, <2>2, <2>3 DEF ResultFits, RefusalFits, StraysFit
  <2>8. QED
    BY <2>4, <2>5, <2>6, <2>7
<1>7. CASE TimeoutFires
  <2> USE <1>7 DEF TimeoutFires
  <2>1. MediatorTypeOK' /\ Captured(cap)'
    BY DEF MediatorTypeOK, Captured
  <2>2. StageFits' /\ ChildFits' /\ SignalsFit'
    BY DEF StageFits, ChildFits, SignalsFit
  <2>3. ResultFits' /\ RefusalFits' /\ StraysFit'
    BY DEF ResultFits, RefusalFits, StraysFit
  <2>4. QED
    BY <2>1, <2>2, <2>3
<1>12. CASE TimeoutRefused
  <2> USE <1>12 DEF TimeoutRefused
  <2>0. child' = [child EXCEPT !.refused = TRUE]
    OBVIOUS
  <2>1. /\ child'.refused = TRUE /\ child'.state = child.state /\ child'.code = child.code
        /\ child'.signal = child.signal /\ child'.term = "refuses"
        /\ child' \in [state : {"none", "running", "exited"}, code : ExitCodes \cup {NoCode},
                       signal : {Null, "SIGTERM", "SIGKILL"}, term : Terms, refused : BOOLEAN]
    BY <2>0 DEF MediatorTypeOK
  <2>2. MediatorTypeOK' /\ Captured(cap)'
    BY <2>1 DEF MediatorTypeOK, Captured
  <2>3. StageFits' /\ ChildFits' /\ SignalsFit'
    BY <2>1 DEF StageFits, ChildFits, SignalsFit
  <2>4. /\ result'.exit_code = NoCode /\ result'.signal = Null /\ result'.spawn_error = TRUE
        /\ result'.cap = cap /\ result'.done = TRUE
    BY DEF NoResult
  <2>5. ResultFits'
    BY <2>1, <2>4 DEF ResultFits, Captured, MediatorTypeOK
  <2>6. RefusalFits' /\ StraysFit'
    BY <2>1, <2>4 DEF RefusalFits, StraysFit
  <2>7. QED
    BY <2>2, <2>3, <2>5, <2>6
<1>8. CASE GraceExpires
  <2> USE <1>8 DEF GraceExpires
  <2>1. CASE UNCHANGED <<child, killed>>
    <3>1. MediatorTypeOK' /\ Captured(cap)'
      BY <2>1 DEF MediatorTypeOK, Captured
    <3>2. StageFits' /\ ChildFits' /\ SignalsFit'
      BY <2>1 DEF StageFits, ChildFits, SignalsFit, Null, NoChild
    <3>3. ResultFits' /\ RefusalFits' /\ StraysFit'
      BY <2>1 DEF ResultFits, RefusalFits, StraysFit
    <3>4. QED
      BY <3>1, <3>2, <3>3
  <2>2. CASE child.state = "running" /\ child' = Kill(child) /\ killed' = TRUE
    <3>1. /\ child'.state = "exited" /\ child'.code = NoCode /\ child'.signal = "SIGKILL"
          /\ child'.refused = child.refused /\ child'.term = child.term
          /\ child' \in [state : {"none", "running", "exited"}, code : ExitCodes \cup {NoCode},
                         signal : {Null, "SIGTERM", "SIGKILL"}, term : Terms, refused : BOOLEAN]
      BY <2>2 DEF Kill, MediatorTypeOK, ChildFits
    <3>2. MediatorTypeOK' /\ Captured(cap)'
      BY <2>2, <3>1 DEF MediatorTypeOK, Captured
    <3>3. StageFits' /\ ChildFits' /\ SignalsFit'
      BY <2>2, <3>1 DEF StageFits, ChildFits, SignalsFit, Null, NoChild
    <3>4. child.refused = FALSE => ~result.done
      BY <2>2 DEF StageFits, MediatorTypeOK
    <3>5. ResultFits' /\ RefusalFits' /\ StraysFit'
      BY <3>1, <3>4 DEF ResultFits, RefusalFits, StraysFit
    <3>6. QED
      BY <3>2, <3>3, <3>5
  <2>3. QED
    BY <2>1, <2>2
<1>9. CASE ExitSeen
  <2> USE <1>9 DEF ExitSeen, CodeOf
  <2>1. MediatorTypeOK' /\ Captured(cap)'
    BY DEF MediatorTypeOK, Captured
  <2>2. StageFits' /\ ChildFits' /\ SignalsFit'
    BY DEF StageFits, ChildFits, SignalsFit
  <2>3. ResultFits'
    BY DEF ResultFits, MediatorTypeOK
  <2>4. RefusalFits' /\ StraysFit'
    BY DEF StageFits, RefusalFits, StraysFit
  <2>5. QED
    BY <2>1, <2>2, <2>3, <2>4
<1>10. CASE UNCHANGED medVars
  BY <1>10 DEF medVars, MediatorTypeOK, StageFits, ChildFits, SignalsFit, Captured, ResultFits,
               RefusalFits, StraysFit
<1>11. QED
  BY <1>1, <1>2, <1>3, <1>4, <1>5, <1>6, <1>7, <1>8, <1>9, <1>10, <1>12
     DEF MediatorNext, MediatorRuns, CommandDoes

\* What is told of a capture with head and tail of one length.
SummaryIs(c, t, h) ==
  h <= t /\ c.total = t /\ Len(c.head) = h /\ Len(c.tail) = h =>
    /\ Summarize(c).total_bytes = t /\ Summarize(c).head = c.head
    /\ t <= 2 * h => Summarize(c).tail = <<>> /\ Summarize(c).truncated = FALSE
    /\ t > 2 * h => Summarize(c).tail = LastOf(c.tail, h) /\ Summarize(c).truncated = TRUE

\* Summarize, on such a capture.
LEMMA SummaryOf == \A c : \A t, h \in Nat : SummaryIs(c, t, h)
<1> SUFFICES ASSUME NEW c, NEW t \in Nat, NEW h \in Nat
             PROVE  SummaryIs(c, t, h)
  OBVIOUS
<1> SUFFICES ASSUME h <= t, c.total = t, Len(c.head) = h, Len(c.tail) = h
             PROVE  /\ Summarize(c).total_bytes = t /\ Summarize(c).head = c.head
                    /\ t <= 2 * h => Summarize(c).tail = <<>> /\ Summarize(c).truncated = FALSE
                    /\ t > 2 * h => Summarize(c).tail = LastOf(c.tail, h)
                                    /\ Summarize(c).truncated = TRUE
  BY DEF SummaryIs
<1>0. (IF h < t - h THEN h ELSE t - h) \in Nat
  OBVIOUS
<1>1. PICK b \in Nat : b = IF h < t - h THEN h ELSE t - h
  BY <1>0
<1>2. PICK q \in BOOLEAN : q <=> t > h + b
  <2>1. CASE t > h + b
    BY <2>1, Zenon
  <2>2. CASE ~(t > h + b)
    BY <2>2, Zenon
  <2>3. QED
    BY <2>1, <2>2
<1>3. Summarize(c) = [total_bytes |-> t, head |-> c.head, head_bytes |-> h,
                      tail |-> IF q THEN LastOf(c.tail, b) ELSE <<>>,
                      tail_bytes |-> b, truncated |-> q]
  BY <1>1, <1>2 DEF Summarize
<1>4. t <= 2 * h => q = FALSE
  <2>1. t <= 2 * h => ~(t > h + b)
    BY <1>1
  <2>2. QED
    BY <1>2, <2>1, Zenon
<1>5. t > 2 * h => q = TRUE /\ b = h
  <2>1. t > 2 * h => t > h + b /\ b = h
    BY <1>1
  <2>2. QED
    BY <1>2, <2>1, Zenon
<1>6. /\ Summarize(c).total_bytes = t /\ Summarize(c).head = c.head
      /\ Summarize(c).truncated = q
      /\ q = FALSE => Summarize(c).tail = <<>>
      /\ q = TRUE => Summarize(c).tail = LastOf(c.tail, b)
  BY <1>3
<1>7. QED
  BY <1>4, <1>5, <1>6, Zenon

-----------------------------------------------------------------------------
(* The theorems *)

\* The invariant holds throughout.
THEOREM MediatorInvariance == MediatorSpec => []MInv
<1>1. MInv /\ [MediatorNext]_medVars => MInv'
  BY MInvStep
<1>2. QED
  BY <1>1, MInvInit, PTL DEF MediatorSpec

\* Types: a child has a code or a signal of its own, and what is kept of its
\* output never outgrows the two buffers (BoundedStreamingCapture).
THEOREM MediatorTypeCorrect == MediatorSpec => []MediatorTypeOK
<1>1. MInv => MediatorTypeOK
  BY DEF MInv
<1>2. QED
  BY <1>1, MediatorInvariance, PTL

\* Whatever the command, the timers and the operating system do in whatever
\* order, what the call resolves to is how the child ended; and if the timeout
\* could not signal it, a spawn error without a code (mediateShell).
THEOREM ResultsAreTrue == MediatorSpec => []ResultTellsChild
<1>1. ASSUME MInv, result.done, child.refused = FALSE PROVE ResultTellsChild
  <2>1. child.state # "running" /\ result.signal = child.signal /\ result.exit_code = child.code
    BY <1>1 DEF MInv, StageFits, ResultFits
  <2>2. result.spawn_error <=> child.state = "none"
    BY <1>1 DEF MInv, ResultFits
  <2>3. child.signal = "SIGTERM" => timer \in {"grace", "spent"}
    BY <1>1 DEF MInv, SignalsFit
  <2>4. child.state \in {"none", "exited"} /\ child.code \in ExitCodes \cup {NoCode}
    BY <1>1, <2>1 DEF MInv, MediatorTypeOK
  <2>5. result.exit_code \notin ExitCodes => result.spawn_error \/ result.signal # Null
    BY <1>1, <2>1, <2>2, <2>4 DEF MInv, ChildFits
  <2>6. QED
    BY <1>1, <2>1, <2>2, <2>3, <2>5 DEF ResultTellsChild
<1>2. ASSUME MInv, ~(result.done /\ child.refused = FALSE) PROVE ResultTellsChild
  BY <1>2 DEF MInv, MediatorTypeOK, RefusalFits, ResultTellsChild
<1>3. MInv => ResultTellsChild
  BY <1>1, <1>2
<1>4. QED
  BY <1>3, MediatorInvariance, PTL

\* However long the output is, in whatever chunks it was drained and however
\* much of it was not: the summary's head is the output's first bytes, its tail,
\* when truncated, the last ones of those drained, and between them exactly what
\* it says is missing (BoundedStreamingCapture).
THEOREM CaptureIsFaithful == MediatorSpec => []CaptureKeepsEnds
<1>1. ASSUME MInv, result.done PROVE CaptureKeepsEnds
  <2> DEFINE c == result.cap
             s == Summarize(c)
             H == HeadTailBytes
  <2>1. Captured(c) /\ c.total <= out /\ out \in Nat /\ H \in Nat \ {0}
    BY <1>1, CaptureAssumption DEF MInv, ResultFits, MediatorTypeOK
  <2> HIDE DEF c
  <2>2. PICK t \in Nat : t = c.total
    BY <2>1 DEF Captured
  <2>3. CASE t <= H
    <3>1. c.head = Bytes(0, t) /\ c.tail = Bytes(0, t)
      BY <2>1, <2>2, <2>3 DEF Captured
    <3>2. Len(c.head) = t /\ DOMAIN c.head = 1..t /\ \A k \in 1..t : c.head[k] = 0 + k
      BY <3>1, BytesAre
    <3>3. Len(c.tail) = t
      BY <3>1, BytesAre
    <3>4. /\ s.total_bytes = t /\ s.head = c.head /\ s.tail = <<>> /\ s.truncated = FALSE
      <4>1. SummaryIs(c, t, t)
        BY SummaryOf
      <4>2. QED
        BY <2>2, <3>2, <3>3, <4>1 DEF SummaryIs
    <3>5. QED
      BY <2>1, <2>2, <3>2, <3>4 DEF CaptureKeepsEnds, c
  <2>4. CASE t > H
    <3>1. c.head = Bytes(0, H) /\ c.tail = Bytes(t - H, H) /\ t - H \in Nat
      BY <2>1, <2>2, <2>4 DEF Captured
    <3>2. Len(c.head) = H /\ DOMAIN c.head = 1..H /\ \A k \in 1..H : c.head[k] = 0 + k
      <4>1. H \in Nat /\ c.head = Bytes(0, H)
        BY <2>1, <3>1
      <4>2. QED
        BY <4>1, BytesAre
    <3>3. /\ Len(c.tail) = H /\ DOMAIN c.tail = 1..H
          /\ \A k \in 1..H : c.tail[k] = t - H + k
      <4>1. PICK b \in Nat : b = t - H
        BY <3>1
      <4>2. H \in Nat /\ c.tail = Bytes(b, H)
        BY <2>1, <3>1, <4>1
      <4>3. /\ Len(Bytes(b, H)) = H /\ DOMAIN Bytes(b, H) = 1..H
            /\ \A k \in 1..H : Bytes(b, H)[k] = b + k
        BY <4>2, BytesAre
      <4>4. QED
        BY <4>1, <4>2, <4>3
    <3>4. CASE t <= 2 * H
      <4>1. s.total_bytes = t /\ s.head = c.head /\ s.tail = <<>> /\ s.truncated = FALSE
        <5>1. SummaryIs(c, t, H)
          BY <2>1, SummaryOf
        <5>2. QED
          BY <2>1, <2>2, <2>4, <3>2, <3>3, <3>4, <5>1 DEF SummaryIs
      <4>2. QED
        BY <2>1, <2>2, <2>4, <3>2, <3>4, <4>1 DEF CaptureKeepsEnds, c
    <3>5. CASE t > 2 * H
      <4>1. LastOf(c.tail, H) = c.tail
        <5>1. LastIs(t - H, H, H, H, t - H)
          BY <2>1, <3>1, LastBytes
        <5>2. QED
          BY <2>1, <3>1, <5>1 DEF LastIs
      <4>2. s.total_bytes = t /\ s.head = c.head /\ s.tail = c.tail /\ s.truncated = TRUE
        <5>1. SummaryIs(c, t, H)
          BY <2>1, SummaryOf
        <5>2. QED
          BY <2>1, <2>2, <2>4, <3>2, <3>3, <3>5, <4>1, <5>1 DEF SummaryIs
      <4>3. s.total_bytes - Len(s.head) - Len(s.tail) = t - H - H /\ Len(s.head) = H /\ Len(s.tail) = H
        BY <3>2, <3>3, <4>2
      <4>4. \A k \in DOMAIN s.head : s.head[k] = k
        BY <3>2, <4>2
      <4>5. \A k \in DOMAIN s.tail : s.tail[k] = s.total_bytes - Len(s.tail) + k
        BY <3>3, <4>2, <4>3
      <4>6. s.total_bytes <= out /\ t - H - H > 0 /\ H + (t - H - H) + H = t
        BY <2>1, <2>2, <3>5, <4>2
      <4>7. QED
        BY <4>2, <4>3, <4>4, <4>5, <4>6 DEF CaptureKeepsEnds, c
    <3>6. QED
      BY <2>1, <2>2, <3>4, <3>5
  <2>5. QED
    BY <2>1, <2>2, <2>3, <2>4
<1>2. MInv => CaptureKeepsEnds
  BY <1>1 DEF CaptureKeepsEnds
<1>3. QED
  BY <1>2, MediatorInvariance, PTL

=============================================================================
