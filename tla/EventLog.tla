------------------------------ MODULE EventLog ------------------------------
(***************************************************************************)
(* The JSONL event log of one chain segment: the file, its head cache, the *)
(* exclusive chain lock around every append, and the processes that append *)
(* to it, read it without the lock, and crash.                             *)
(*                                                                         *)
(* The file is `log`, the lines that end in a newline, followed by `torn`, *)
(* the bytes after the last newline: none, part of a line that does not    *)
(* parse, or a whole line that lacks only its newline.  Between the first  *)
(* and the last byte of a write the file is in one of the latter states;   *)
(* readers take no lock and can look at it, and a crash leaves it there.   *)
(* A reader streams the file in several reads, so the line it is in the    *)
(* middle of may be truncated and overwritten under it.                    *)
(*                                                                         *)
(* The lock is the one ChainLock specifies for the flock backend: one      *)
(* holder, released when the holder exits, waiters give up after a         *)
(* timeout.  Steps under the lock that no other process can observe are    *)
(* one action.                                                             *)
(***************************************************************************)
EXTENDS Integers, FiniteSets, SequencesExt

CONSTANTS Proc,            \* processes using the segment
          NoProc,          \* the lock is free
          Op, NoOp,        \* operation ids, and none given
          Body,            \* contents an event can have
          MaxCalls,        \* bound: appends requested
          MaxCrashes,      \* bound: processes that die during an append
          MaxShortWrites   \* bound: writes the file system cuts short

ASSUME ProcAssumption  == NoProc \notin Proc
ASSUME BodyAssumption  == Body # {}
ASSUME OpAssumption    == NoOp \notin Op
ASSUME CallsAssumption == MaxCalls \in Nat
ASSUME FaultAssumption == MaxCrashes \in Nat /\ MaxShortWrites \in Nat

VARIABLES
  log,          \* complete lines of <segment>.jsonl
  torn,         \* what follows the last newline
  cache,        \* <segment>.head
  lock,         \* process inside the critical section
  pc,           \* what each process is doing
  draft,        \* the event each process is appending
  issued,       \* event ids generated so far
  acked,        \* history: events append calls returned as recorded
  cut,          \* history: events whose write came back short
  seen,         \* the events the latest readEvents has given so far
  reader,       \* the stream of that call
  crashes

fileVars == <<log, torn, cache>>
readVars == <<seen, reader>>
vars == <<log, torn, cache, lock, pc, draft, issued, acked, cut, seen, reader, crashes>>

EventHash == 1..MaxCalls

Ledger == INSTANCE ChainLedger WITH chain <- log, EventHash <- EventHash

Genesis == Ledger!Genesis

Event == [hash : Nat, prev : Nat, seq : Nat, op : Op \cup {NoOp}, body : Body]

NoEvent == [hash |-> Genesis, prev |-> Genesis, seq |-> 0, op |-> NoOp,
            body |-> CHOOSE b \in Body : TRUE]

NoCache == [head |-> Genesis, seq |-> 0]
NotTorn == [kind |-> "none", event |-> NoEvent]
Kinds   == {"none", "partial", "whole"}

\* A stream: whether a read is under way, how many of the lines it is past, the
\* bytes it has of the line after them and whose they are, whether that line was
\* truncated since, and (history) the first event of the read this happened to.
NoReader == [on |-> FALSE, at |-> 0, part |-> "none", event |-> NoEvent,
             stale |-> FALSE, broken |-> 0]

Waiting == {"waitDraft", "waitFinal"}
InLock  == {"lockedDraft", "lockedFinal", "write", "writing", "cache", "release"}
PCs     == {"idle", "rebuild"} \cup Waiting \cup InLock

\* Program points with a writeFileSync of the head cache under way.
CacheWriters == {"rebuild", "lockedDraft", "lockedFinal", "cache"}

-----------------------------------------------------------------------------
(* Reading the file *)

\* The lines a reader gets: it splits at newlines and drops nothing, so a
\* last line that lacks only its newline counts.
Lines == IF torn.kind = "whole" THEN Append(log, torn.event) ELSE log

\* JSON.parse throws on a partial last line.
Readable == torn.kind # "partial"

CacheMatches(lines) ==
  /\ lines # <<>>
  /\ cache.head = Last(lines).hash
  /\ cache.seq  = Last(lines).seq

\* A bug: the head cache is taken at its word.
TrustingHead(lines) ==
  IF cache # NoCache THEN [head |-> cache.head, seq |-> cache.seq + 1]
  ELSE IF lines = <<>> THEN [head |-> Genesis, seq |-> 0]
  ELSE [head |-> Last(lines).hash, seq |-> Last(lines).seq + 1]

\* The cached head when it matches the last line, otherwise the head rebuilt
\* from the lines; with no line, the null head.
ReadChainHead(lines) ==
  IF lines = <<>> THEN [head |-> Genesis, seq |-> 0]
  ELSE IF CacheMatches(lines) THEN [head |-> cache.head, seq |-> cache.seq + 1]
  ELSE [head |-> Last(lines).hash, seq |-> Last(lines).seq + 1]

\* rebuildHead rewrites the cache it found missing or wrong.
RebuiltCache(lines) ==
  IF lines = <<>> \/ CacheMatches(lines) THEN cache
  ELSE [head |-> Last(lines).hash, seq |-> Last(lines).seq]

\* A bug: the scan for an earlier event with this operation id is missing.
FindNothing(op) == {}

\* findEventByOperationIdSync scans every line of the healed file.
FindEventByOperationId(op) ==
  {i \in DOMAIN log : log[i].op = op}

-----------------------------------------------------------------------------
Init ==
  /\ log = <<>>  /\ torn = NotTorn  /\ cache = NoCache
  /\ lock = NoProc
  /\ pc = [p \in Proc |-> "idle"]
  /\ draft = [p \in Proc |-> NoEvent]
  /\ issued = 0
  /\ acked = {} /\ cut = {}
  /\ seen = <<>> /\ reader = NoReader
  /\ crashes = 0

Goto(p, label) == pc' = [pc EXCEPT ![p] = label]

\* The call is over: returned, thrown, or gone with its process.
Leave(p) ==
  /\ Goto(p, "idle")
  /\ draft' = [draft EXCEPT ![p] = NoEvent]

-----------------------------------------------------------------------------
(* Calls *)

\* emitWitnessEvent and the other emitters: the draft gets a fresh event_id
\* now and its place in the chain under the lock.  A retry of an operation
\* is another call with the same op.
AppendDraftEvent(p, op, body) ==
  /\ pc[p] = "idle"
  /\ issued < MaxCalls
  /\ issued' = issued + 1
  /\ draft' = [draft EXCEPT ![p] = [hash |-> issued + 1, prev |-> Genesis,
                                    seq |-> 0, op |-> op, body |-> body]]
  /\ Goto(p, "waitDraft")
  /\ UNCHANGED <<fileVars, lock, acked, cut, readVars, crashes>>

\* A caller of appendEvent finalises the event itself, on a head it read
\* without the lock.
AppendEvent(p, body) ==
  LET h == ReadChainHead(Lines) IN
  /\ pc[p] = "idle"
  /\ issued < MaxCalls
  /\ Readable
  /\ issued' = issued + 1
  /\ draft' = [draft EXCEPT ![p] = [hash |-> issued + 1, prev |-> h.head,
                                    seq |-> h.seq, op |-> NoOp, body |-> body]]
  /\ Goto(p, IF RebuiltCache(Lines) = cache THEN "waitFinal" ELSE "rebuild")
  /\ UNCHANGED <<fileVars, lock, acked, cut, readVars, crashes>>

\* A bug: the number written is one too low, so it can leave Nat.
RebuildOffByOne(p) ==
  /\ pc[p] = "rebuild"
  /\ cache' = [head |-> draft[p].prev, seq |-> draft[p].seq - 2]
  /\ Goto(p, "waitFinal")
  /\ UNCHANGED <<log, torn, lock, draft, issued, acked, cut, readVars, crashes>>

\* The lock-free reader writes the cache for the head it computed earlier.
WriteRebuiltCache(p) ==
  /\ pc[p] = "rebuild"
  /\ cache' = [head |-> draft[p].prev, seq |-> draft[p].seq - 1]
  /\ Goto(p, "waitFinal")
  /\ UNCHANGED <<log, torn, lock, draft, issued, acked, cut, readVars, crashes>>

-----------------------------------------------------------------------------
(* The critical section *)

\* A reader in the middle of the unfinished line has bytes of it that are gone.
Healed ==
  IF reader.part # "none" /\ reader.at = Len(log)
    THEN [reader EXCEPT !.stale = TRUE, !.broken = IF @ = 0 THEN Len(seen) + 1 ELSE @]
    ELSE reader

\* A bug: healing a torn tail also drops the last complete line.
HealTooFar(p) ==
  /\ pc[p] \in Waiting
  /\ lock = NoProc
  /\ lock' = p
  /\ torn' = NotTorn
  /\ reader' = Healed
  /\ log' = IF torn = NotTorn \/ log = <<>> THEN log ELSE Front(log)
  /\ Goto(p, IF pc[p] = "waitDraft" THEN "lockedDraft" ELSE "lockedFinal")
  /\ UNCHANGED <<cache, draft, issued, acked, cut, seen, crashes>>

\* Take the lock and truncate the file to its last newline.
AcquireAndHeal(p) ==
  /\ pc[p] \in Waiting
  /\ lock = NoProc
  /\ lock' = p
  /\ torn' = NotTorn
  /\ reader' = Healed
  /\ Goto(p, IF pc[p] = "waitDraft" THEN "lockedDraft" ELSE "lockedFinal")
  /\ UNCHANGED <<log, cache, draft, issued, acked, cut, seen, crashes>>

AcquireTimeout(p) ==
  /\ pc[p] \in Waiting
  /\ lock # NoProc
  /\ Leave(p)
  /\ UNCHANGED <<fileVars, lock, issued, acked, cut, readVars, crashes>>

\* A bug: the retry is told that its own, never written event was recorded.
ReturnUnwritten(p) ==
  /\ pc[p] = "lockedDraft"
  /\ draft[p].op # NoOp
  /\ FindEventByOperationId(draft[p].op) # {}
  /\ cache' = RebuiltCache(log)
  /\ Goto(p, "release")
  /\ UNCHANGED <<log, torn, lock, draft, issued, acked, cut, readVars, crashes>>

\* An event with this operation id is in the chain: it is the result.
ReturnExisting(p) ==
  /\ pc[p] = "lockedDraft"
  /\ draft[p].op # NoOp
  /\ \E i \in FindEventByOperationId(draft[p].op) :
        /\ \A j \in FindEventByOperationId(draft[p].op) : i <= j
        /\ draft' = [draft EXCEPT ![p] = log[i]]
  /\ cache' = RebuiltCache(log)
  /\ Goto(p, "release")
  /\ UNCHANGED <<log, torn, lock, issued, acked, cut, readVars, crashes>>

\* buildDraft gets the head and the sequence number read under the lock.
BuildDraft(p) ==
  LET h == ReadChainHead(log) IN
  /\ pc[p] = "lockedDraft"
  /\ draft[p].op # NoOp => FindEventByOperationId(draft[p].op) = {}
  /\ draft' = [draft EXCEPT ![p].prev = h.head, ![p].seq = h.seq]
  /\ cache' = RebuiltCache(log)
  /\ Goto(p, "write")
  /\ UNCHANGED <<log, torn, lock, issued, acked, cut, readVars, crashes>>

\* A bug: appendEvent trusts the head its caller read.
AnyIsCurrent(e) == TRUE

\* appendEvent checks the finished event against the head under the lock.
Current(e) == LET h == ReadChainHead(log) IN e.prev = h.head /\ e.seq = h.seq

AcceptFinal(p) ==
  /\ pc[p] = "lockedFinal"
  /\ Current(draft[p])
  /\ cache' = RebuiltCache(log)
  /\ Goto(p, "write")
  /\ UNCHANGED <<log, torn, lock, draft, issued, acked, cut, readVars, crashes>>

\* A bug: the throw skips the release.
RejectKeepsLock(p) ==
  /\ pc[p] = "lockedFinal"
  /\ ~Current(draft[p])
  /\ cache' = RebuiltCache(log)
  /\ Leave(p)
  /\ UNCHANGED <<log, torn, lock, issued, acked, cut, readVars, crashes>>

\* StaleAppendError; the finally of withExclusive releases the lock.
RejectStale(p) ==
  /\ pc[p] = "lockedFinal"
  /\ ~Current(draft[p])
  /\ cache' = RebuiltCache(log)
  /\ lock' = NoProc
  /\ Leave(p)
  /\ UNCHANGED <<log, torn, issued, acked, cut, readVars, crashes>>

\* writeSync has put some of the line into the file.
WriteSome(p, kind) ==
  /\ pc[p] = "write"
  /\ torn' = [kind |-> kind, event |-> draft[p]]
  /\ Goto(p, "writing")
  /\ UNCHANGED <<log, cache, lock, draft, issued, acked, cut, readVars, crashes>>

\* The line is complete and fsynced.
WriteRest(p) ==
  /\ pc[p] = "writing"
  /\ log' = Append(log, draft[p])
  /\ torn' = NotTorn
  /\ Goto(p, "cache")
  /\ UNCHANGED <<cache, lock, draft, issued, acked, cut, readVars, crashes>>

\* writeSync returns having written fewer bytes; nobody looks at its result.
ShortWrite(p) ==
  /\ pc[p] = "writing"
  /\ Cardinality(cut) < MaxShortWrites
  /\ cut' = cut \cup {draft[p]}
  /\ Goto(p, "cache")
  /\ UNCHANGED <<fileVars, lock, draft, issued, acked, readVars, crashes>>

WriteHeadCache(p) ==
  /\ pc[p] = "cache"
  /\ cache' = [head |-> draft[p].hash, seq |-> draft[p].seq]
  /\ Goto(p, "release")
  /\ UNCHANGED <<log, torn, lock, draft, issued, acked, cut, readVars, crashes>>

Return(p) ==
  /\ pc[p] = "release"
  /\ lock' = NoProc
  /\ acked' = acked \cup {draft[p]}
  /\ Leave(p)
  /\ UNCHANGED <<fileVars, issued, cut, readVars, crashes>>

-----------------------------------------------------------------------------
(* Crashes *)

\* The process is gone, the operating system releases its lock, and a cache
\* write under way may leave the truncated file readHeadCache ignores.  A call
\* that throws an I/O error leaves the same state: withExclusive's finally
\* releases the lock.
Crash(p) ==
  /\ pc[p] # "idle"
  /\ crashes < MaxCrashes
  /\ crashes' = crashes + 1
  /\ cache' \in {cache} \cup (IF pc[p] \in CacheWriters THEN {NoCache} ELSE {})
  /\ lock' = IF lock = p THEN NoProc ELSE lock
  /\ Leave(p)
  /\ UNCHANGED <<log, torn, issued, acked, cut, readVars>>

-----------------------------------------------------------------------------
(* A reader: readEvents, and readAllEvents and verifyAll on it *)

OnlyReads == UNCHANGED <<fileVars, lock, pc, draft, issued, acked, cut, crashes>>

StartRead ==
  /\ ~reader.on
  /\ seen' = <<>>
  /\ reader' = [NoReader EXCEPT !.on = TRUE]
  /\ OnlyReads

\* A chunk brings the stream to the end of the n-th line.
ReadLines(n) ==
  /\ reader.on /\ ~reader.stale
  /\ n \in (reader.at + 1)..Len(log)
  /\ seen' = seen \o SubSeq(log, reader.at + 1, n)
  /\ reader' = [reader EXCEPT !.at = n, !.part = "none", !.event = NoEvent]
  /\ OnlyReads

\* A chunk ends in the unfinished line, or before its newline.
ReadPart(kind) ==
  /\ reader.on /\ ~reader.stale /\ reader.part # "whole"
  /\ reader.at = Len(log)
  /\ \/ kind = "partial" /\ torn.kind # "none"
     \/ kind = "whole" /\ torn.kind = "whole"
  /\ reader' = [reader EXCEPT !.part = kind, !.event = torn.event]
  /\ UNCHANGED seen
  /\ OnlyReads

\* The stream is over, or JSON.parse has thrown.
CloseStream == reader' = [NoReader EXCEPT !.broken = reader.broken]

\* Nothing is left to read.  What follows the last newline is a line too: an
\* event if only the newline is missing, otherwise JSON.parse throws.
EndRead ==
  /\ reader.on /\ ~reader.stale
  /\ reader.at = Len(log) /\ reader.part = torn.kind
  /\ seen' = IF reader.part = "whole" THEN Append(seen, torn.event) ELSE seen
  /\ CloseStream
  /\ OnlyReads

\* What the bytes of a truncated line can make with the bytes written over it:
\* an event that nobody recorded, or the truncated one if a newline is next.
Mixtures == {NoEvent} \cup (IF reader.part = "whole" THEN {reader.event} ELSE {})

\* The stream reads on where the truncated line would have gone on, and comes
\* out at the end of the n-th line.
ReadOver(n) ==
  /\ reader.on /\ reader.stale
  /\ n \in (reader.at + 1)..Len(log)
  /\ \E e \in Mixtures : seen' = Append(seen, e)
  /\ reader' = [reader EXCEPT !.at = n, !.part = "none", !.event = NoEvent, !.stale = FALSE]
  /\ OnlyReads

\* It comes out at the end of the file, or with a line that does not parse.
EndStale ==
  /\ reader.on /\ reader.stale
  /\ \/ UNCHANGED seen
     \/ \E e \in Mixtures : seen' = Append(seen, e)
  /\ CloseStream
  /\ OnlyReads

Read ==
  \/ StartRead \/ EndRead \/ EndStale
  \/ \E n \in 1..Len(log) : ReadLines(n) \/ ReadOver(n)
  \/ \E kind \in Kinds : ReadPart(kind)

-----------------------------------------------------------------------------
Call(p) ==
  \/ \E op \in Op \cup {NoOp}, body \in Body : AppendDraftEvent(p, op, body)
  \/ \E body \in Body : AppendEvent(p, body)

InSection(p) ==
  \/ ReturnExisting(p) \/ BuildDraft(p) \/ AcceptFinal(p) \/ RejectStale(p)
  \/ \E kind \in {"partial", "whole"} : WriteSome(p, kind)
  \/ WriteRest(p) \/ ShortWrite(p) \/ WriteHeadCache(p) \/ Return(p)

\* A process that is running a call keeps running.
Run(p) == WriteRebuiltCache(p) \/ AcquireAndHeal(p) \/ AcquireTimeout(p) \/ InSection(p)

Next == Read \/ \E p \in Proc : Call(p) \/ Run(p) \/ Crash(p)

Spec == Init /\ [][Next]_vars

FairSpec == Spec /\ \A p \in Proc : WF_vars(Run(p))

-----------------------------------------------------------------------------
(* Properties *)

TypeOK ==
  /\ log \in Seq(Event) /\ seen \in Seq(Event)
  /\ reader \in [on : BOOLEAN, at : 0..Len(log), part : Kinds, event : Event,
                  stale : BOOLEAN, broken : Nat]
  /\ torn \in [kind : Kinds, event : Event]
  /\ cache \in [head : Nat, seq : Nat]
  /\ lock \in Proc \cup {NoProc}
  /\ pc \in [Proc -> PCs]
  /\ draft \in [Proc -> Event]
  /\ issued \in 0..MaxCalls
  /\ acked \subseteq Event /\ cut \subseteq Event
  /\ crashes \in 0..MaxCrashes

\* The log verifies from its first event whatever crashed, timed out, was cut
\* short, or appended with a stale head (appendEvent, appendDraftEvent).
ChainStaysLinked == Ledger!ChainLinked(log)

\* An operation id appears in at most one event, although the operation is
\* retried by any process after crashes, timeouts and lost results
\* (appendDraftEvent's scan under the lock).
OperationsOnce ==
  \A i, j \in DOMAIN log : log[i].op = log[j].op /\ log[i].op # NoOp => i = j

\* The events a read gives before a line is truncated under it, usually all.
Sound == IF reader.broken = 0 THEN seen ELSE SubSeq(seen, 1, reader.broken - 1)

\* What a lock-free reader is given verifies as a chain at any time: reading
\* between the steps of writers, or after a crash, raises no false alarm.  The
\* exception is a line that is truncated while a read is in the middle of it:
\* from there on the read gives a mixture that need not verify (readEvents,
\* verifyAll).
SnapshotVerifies == Ledger!ChainLinked(Sound)

\* What a lock-free reader was given stays a prefix of the log for ever, up to a
\* line truncated under it, except that its last event may have been an
\* unfinished line that the next writer truncates (readEvents against
\* healTornTail).
SnapshotPrefix ==
  LET kept == IF reader.broken = 0 /\ ~reader.on /\ seen # <<>> THEN Front(seen) ELSE Sound
  IN IsPrefix(kept, log)

\* An event that an append call returned is in the log for good, unless the
\* file system cut its write short (appendEventUnsafe ignores what writeSync
\* returns).
AckedRecorded == acked \ cut \subseteq ToSet(log)

\* What the architecture document says: a failed append is an error to the
\* caller, so what is returned is recorded.  A short write breaks it.
ReturnedIsRecorded == acked \subseteq ToSet(log)

\* The log is an append-only ledger: every step of every process appends one
\* linked event to the complete lines or leaves them alone.
ImplementsLedger == Ledger!Spec

\* The lock is free again and again: no way out of the critical section,
\* return, throw or death, keeps it (withExclusive's finally).
LockComesFree == []<>(lock = NoProc)
=============================================================================
