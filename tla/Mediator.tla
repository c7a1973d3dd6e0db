------------------------------ MODULE Mediator ------------------------------
(***************************************************************************)
(* mediateShell: one child process, the pipe of its standard output, the   *)
(* capture the pipe is drained into, and the two timers of a timeout.      *)
(*                                                                         *)
(* Output is a stream of bytes numbered from 1: the child writes, the      *)
(* event loop drains what it likes of it, in order, in chunks.  Standard   *)
(* error is a second stream treated the same way and left out.  A call     *)
(* that is not under way has stage "idle"; whoever calls reads `result`.   *)
(*                                                                         *)
(* A signal may be refused: a child that changed its user cannot be killed *)
(* by the process that spawned it.  Node makes that an error event of the  *)
(* child, and mediateShell takes any such event for a failed spawn.        *)
(***************************************************************************)
EXTENDS Integers, SequencesExt

CONSTANTS HeadTailBytes,  \* size of the head and of the tail kept
          MaxOutput,      \* bound: bytes a command writes
          ExitCodes       \* codes a command exits with

ASSUME CaptureAssumption == HeadTailBytes \in Nat \ {0} /\ MaxOutput \in Nat
ASSUME CodesAssumption == ExitCodes \subseteq 0..255

VARIABLES
  stage,    \* of the mediation: idle, spawning, waiting
  child,    \* the process: its state, exit code, signal, what SIGTERM does to
            \* it, and (history) whether the timeout's SIGTERM was refused
  killed,   \* child.killed: a signal was sent
  timer,    \* off, armed, grace (SIGTERM sent), spent
  out,      \* bytes the child has written
  cap,      \* the capture: head, tail and total of the bytes drained
  result,   \* what the call resolves to
  strays    \* history: children that still ran when their call was forgotten

medVars == <<stage, child, killed, timer, out, cap, result, strays>>

Null == "null"
NoCode == -1
\* A SIGTERM ends the child, is ignored by it, or may not be sent to it.
Terms == {"ends", "ignores", "refuses"}
NoChild  == [state |-> "none", code |-> NoCode, signal |-> Null, term |-> "ends",
             refused |-> FALSE]
NoCap    == [head |-> <<>>, tail |-> <<>>, total |-> 0]
NoResult == [exit_code |-> NoCode, signal |-> Null, spawn_error |-> FALSE,
             cap |-> NoCap, done |-> FALSE]

MediatorInit ==
  /\ stage = "idle" /\ child = NoChild /\ killed = FALSE /\ timer = "off"
  /\ out = 0 /\ cap = NoCap /\ result = NoResult /\ strays = {}

-----------------------------------------------------------------------------
(* The capture *)

LastOf(s, n) == SubSeq(s, (IF Len(s) > n THEN Len(s) - n ELSE 0) + 1, Len(s))
FirstOf(s, n) == SubSeq(s, 1, IF Len(s) > n THEN n ELSE Len(s))

\* A bug: the head takes the first bytes of every chunk.
WriteToFullHead(c, chunk) ==
  [head |-> FirstOf(chunk \o c.head, HeadTailBytes),
   tail |-> LastOf(c.tail \o chunk, HeadTailBytes),
   total |-> c.total + Len(chunk)]

\* A bug: the tail is never cut.
TailUncut(c, chunk) ==
  [head |-> c.head \o FirstOf(chunk, HeadTailBytes - Len(c.head)),
   tail |-> c.tail \o chunk,
   total |-> c.total + Len(chunk)]

\* The head while there is room, a rolling tail, and the count.
WriteChunk(c, chunk) ==
  [head |-> c.head \o FirstOf(chunk, HeadTailBytes - Len(c.head)),
   tail |-> LastOf(c.tail \o chunk, HeadTailBytes),
   total |-> c.total + Len(chunk)]

\* The tail is given only when something between head and tail was dropped.
Summarize(c) ==
  LET head_bytes == Len(c.head)
      tail_bytes == IF Len(c.tail) < c.total - head_bytes THEN Len(c.tail)
                    ELSE c.total - head_bytes
      truncated  == c.total > head_bytes + tail_bytes
  IN [total_bytes |-> c.total, head |-> c.head, head_bytes |-> head_bytes,
      tail |-> IF truncated THEN LastOf(c.tail, tail_bytes) ELSE <<>>,
      tail_bytes |-> tail_bytes, truncated |-> truncated]

-----------------------------------------------------------------------------
(* The child and the event loop *)

\* The call's variables are fresh; a child that is still running runs on.
Afresh ==
  /\ child' = NoChild /\ killed' = FALSE /\ timer' = "off"
  /\ out' = 0 /\ cap' = NoCap /\ result' = NoResult
  /\ strays' = IF child.state = "running" THEN strays \cup {child} ELSE strays

\* spawn() is called; whether it worked is known later.
MediateShell ==
  /\ stage = "idle"
  /\ stage' = "spawning"
  /\ Afresh

\* What mediateShell knew goes with it.  What is left of a grace period may only
\* still end a stray, which nobody looks at any more.
Forget ==
  /\ stage = "idle"
  /\ stage' = "idle"
  /\ Afresh

\* The error event: no such directory, no such program, no more processes.
SpawnFails ==
  /\ stage = "spawning"
  /\ stage' = "idle"
  /\ result' = [NoResult EXCEPT !.spawn_error = TRUE, !.done = TRUE]
  /\ UNCHANGED <<child, killed, timer, out, cap, strays>>

\* A bug: the timer is never armed.
SpawnsUntimed(timeout, term) ==
  /\ stage = "spawning"
  /\ stage' = "waiting"
  /\ child' = [NoChild EXCEPT !.state = "running", !.term = term]
  /\ timer' = "off"
  /\ UNCHANGED <<killed, out, cap, result, strays>>

Spawns(timeout, term) ==
  /\ stage = "spawning"
  /\ stage' = "waiting"
  /\ child' = [NoChild EXCEPT !.state = "running", !.term = term]
  /\ timer' = IF timeout THEN "armed" ELSE "off"
  /\ UNCHANGED <<killed, out, cap, result, strays>>

ChildWrites ==
  /\ child.state = "running"
  /\ out < MaxOutput
  /\ out' = out + 1
  /\ UNCHANGED <<stage, child, killed, timer, cap, result, strays>>

\* A chunk of what is in the pipe, however it was written.
Drain(n) ==
  /\ stage = "waiting"
  /\ cap.total + n <= out
  /\ cap' = WriteChunk(cap, [k \in 1..n |-> cap.total + k])
  /\ UNCHANGED <<stage, child, killed, timer, out, result, strays>>

\* The command ends by itself, also by its own handler for SIGTERM.
ChildExits(code) ==
  /\ child.state = "running"
  /\ child' = [child EXCEPT !.state = "exited", !.code = code]
  /\ UNCHANGED <<stage, killed, timer, out, cap, result, strays>>

\* The operating system ends a child that does not handle SIGTERM.
ChildTerminated ==
  /\ child.state = "running" /\ killed /\ child.term = "ends"
  /\ child' = [child EXCEPT !.state = "exited", !.signal = "SIGTERM"]
  /\ UNCHANGED <<stage, killed, timer, out, cap, result, strays>>

Kill(c) == [c EXCEPT !.state = "exited", !.signal = "SIGKILL"]

\* It crashes, or somebody else kills it.
ChildCrashes ==
  /\ child.state = "running"
  /\ child' = Kill(child)
  /\ UNCHANGED <<stage, killed, timer, out, cap, result, strays>>

\* SIGTERM; child.killed becomes true because the signal could be sent.
TimeoutFires ==
  /\ stage = "waiting" /\ timer = "armed"
  /\ child.term # "refuses"
  /\ timer' = "grace"
  /\ killed' = TRUE
  /\ UNCHANGED <<stage, child, out, cap, result, strays>>

\* A bug: the error event of a refused signal ends the call as an exit does.
RefusalAsExit ==
  /\ stage = "waiting" /\ timer = "armed"
  /\ child.term = "refuses"
  /\ timer' = "grace"
  /\ stage' = "idle"
  /\ child' = [child EXCEPT !.refused = TRUE]
  /\ result' = [NoResult EXCEPT !.exit_code = 0, !.cap = cap, !.done = TRUE]
  /\ UNCHANGED <<killed, out, cap, strays>>

\* SIGTERM is refused (EPERM).  The child's error event rejects the promise, so
\* the call resolves as after a failed spawn, with what was drained so far; the
\* child runs on, and the grace period has begun.
TimeoutRefused ==
  /\ stage = "waiting" /\ timer = "armed"
  /\ child.term = "refuses"
  /\ timer' = "grace"
  /\ stage' = "idle"
  /\ child' = [child EXCEPT !.refused = TRUE]
  /\ result' = [NoResult EXCEPT !.spawn_error = TRUE, !.cap = cap, !.done = TRUE]
  /\ UNCHANGED <<killed, out, cap, strays>>

\* Five seconds later SIGKILL is sent, unless child.killed.  It may be refused
\* as well; nobody listens to that error any more.
GraceExpires ==
  /\ timer = "grace"
  /\ timer' = "spent"
  /\ IF killed \/ child.state # "running"
       THEN UNCHANGED <<child, killed>>
       ELSE \/ child' = Kill(child) /\ killed' = TRUE
            \/ UNCHANGED <<child, killed>>
  /\ UNCHANGED <<stage, out, cap, result, strays>>

\* A bug: an exit without a code counts as success.
CodeOrZero(c) == IF c.code = NoCode THEN 0 ELSE c.code

\* The exit code, -1 for a child ended by a signal.
CodeOf(c) == c.code

\* The exit event resolves the call, the outer timer is cleared, and the
\* capture is ended: what is still in the pipe is not read any more.
ExitSeen ==
  /\ stage = "waiting" /\ child.state = "exited"
  /\ stage' = "idle"
  /\ timer' = IF timer = "armed" THEN "off" ELSE timer
  /\ result' = [exit_code |-> CodeOf(child), signal |-> child.signal,
                spawn_error |-> FALSE, cap |-> cap, done |-> TRUE]
  /\ UNCHANGED <<child, killed, out, cap, strays>>

\* What the event loop and the operating system do without being asked.
MediatorRuns(timeout) ==
  \/ SpawnFails
  \/ \E term \in Terms : Spawns(timeout, term)
  \/ \E n \in 1..MaxOutput : Drain(n)
  \/ ChildTerminated
  \/ TimeoutFires \/ TimeoutRefused \/ GraceExpires
  \/ ExitSeen

CommandDoes ==
  \/ ChildWrites
  \/ \E code \in ExitCodes : ChildExits(code)
  \/ ChildCrashes

\* One call after the other, each with a timeout or without.
MediatorNext ==
  \/ MediateShell \/ Forget
  \/ \E timeout \in BOOLEAN : MediatorRuns(timeout)
  \/ CommandDoes

MediatorSpec == MediatorInit /\ [][MediatorNext]_medVars

-----------------------------------------------------------------------------
(* Properties *)

MediatorTypeOK ==
  /\ stage \in {"idle", "spawning", "waiting"}
  /\ child \in [state : {"none", "running", "exited"}, code : ExitCodes \cup {NoCode},
                signal : {Null, "SIGTERM", "SIGKILL"}, term : Terms, refused : BOOLEAN]
  /\ killed \in BOOLEAN /\ timer \in {"off", "armed", "grace", "spent"}
  /\ out \in 0..MaxOutput
  /\ cap.total \in 0..out
  /\ Len(cap.head) <= HeadTailBytes /\ Len(cap.tail) <= HeadTailBytes

\* The result tells the child's end: a code is the code it exited with, a
\* signal the one it died of, a spawn error means nothing ran, and a call
\* never resolves while its child runs (mediateShell).  The exception is a
\* child the timeout may not signal: its call resolves with a spawn error and no
\* code, although the child was spawned and may run on.
ResultTellsChild ==
  /\ result.done /\ ~child.refused =>
       /\ child.state # "running"
       /\ result.spawn_error <=> child.state = "none"
       /\ result.exit_code \in ExitCodes => child.code = result.exit_code
       /\ result.exit_code \notin ExitCodes => result.spawn_error \/ result.signal # Null
       /\ result.signal = child.signal
       /\ child.signal = "SIGTERM" => timer \in {"grace", "spent"}
  /\ child.refused =>
       /\ result.done /\ result.spawn_error
       /\ result.exit_code = NoCode /\ result.signal = Null
       /\ child.term = "refuses" /\ timer \in {"grace", "spent"}

\* Of the bytes drained before the call resolved, the result keeps the first and,
\* if truncated says so, the last ones, with exactly the bytes between them
\* missing; nothing is invented, and the head is the beginning of the output.
\* There are two exceptions.  Output longer than the head and no longer than head
\* and tail: its tail is not kept, and truncated does not say so.  And what is
\* still in the pipe when the child's exit or error event comes is not drained
\* any more: it is neither kept nor counted, so total_bytes may be less than the
\* child wrote, and the tail not the end of its output (mediateShell,
\* BoundedStreamingCapture).
CaptureKeepsEnds ==
  LET s == Summarize(result.cap)
      missing == s.total_bytes - Len(s.head) - Len(s.tail)
  IN result.done =>
       /\ s.total_bytes <= out
       /\ \A k \in DOMAIN s.head : s.head[k] = k
       /\ \A k \in DOMAIN s.tail : s.tail[k] = s.total_bytes - Len(s.tail) + k
       /\ s.truncated => missing > 0 /\ Len(s.head) + missing + Len(s.tail) = s.total_bytes
       /\ missing = 0 \/ s.truncated
            \/ s.total_bytes \in (HeadTailBytes + 1)..(2 * HeadTailBytes)
=============================================================================
