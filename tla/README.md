# WitSeal in TLA+

WitSeal records what coding agents do. Every action goes through `witseal exec`
(or an adapter), is judged by a policy, run by a mediator and recorded as one or
more *witness events* in a JSONL file in which each event names the hash of the
one before it. Several processes append to one file, any of them may die at any
point, and whoever reads the file later, perhaps while somebody writes it,
relies on what it says. The modules here specify the lock, the log, the two-phase
protocol that uses them, the server and the mediators that commands and file
writes go through, the policy that judges them, and the packages and receipts
made from the log with the commands that verify them. Model runs check all of it on small
instances with TLC; but for liveness, what they check is also proved with TLAPS for every
instance.

## The system

| component | state | operations | talks to |
|---|---|---|---|
| chain lock, `integrity/lock.ts`, `cli/unlock.ts` | kernel flock, or `<segment>.lockfile` with pid and start time | acquire, wait, time out, release, steal from a dead holder, `witseal unlock` | the operating system |
| event log, `witness/event-log.ts`, `integrity/hash-chain.ts` | `<segment>.jsonl`, `<segment>.head` | `appendDraftEvent`, `appendEvent`, heal a torn tail, rebuild the head cache, read all, verify | takes the lock around an append |
| two-phase execution, `cli/exec.ts`, `cli/exec-file.ts`, `witness/emit.ts` | none of its own | recover, decide, ask, deny, record the intent, run, record the result | log, policy, approval, mediator |
| recovery, `witness/recovery.ts` | none | read the tail, append `execution_lost` | log |
| observed executions, `witness/record.ts` | none | append one event for an action a host ran | log, policy |
| policy, `policy/*`, `risk/classifier.ts`; approval, `cli/approval.ts` | packs loaded for one call; terminal, allow-list or callback | classify, match, decide, constrain; ask | execution |
| shell mediator, `execution/mediator.ts` | one child process, its timers and pipes, a bounded capture | spawn, drain, time out, signal, resolve | operating system |
| file mediator, `execution/mediator.ts` | an open file | check the path, open, write, read | file system |
| MCP server, `adapters/mcp/*` | a queue of requests | read a line, handle the requests one at a time, answer, exit | execution |
| receipts, packages, tamper checks, `receipts/*`, `evidence/*`, `integrity/tamper.ts` | files derived from events | project, hash, sign, export, classify a break | read the log |
| verifier and inspectors, `verify/*`, `cli/verify.ts`, `cli/replay.ts`, `cli/receipt.ts` | none | verify a package, a receipt, a chain, a provenance; replay; show | read those files |
| command line, other adapters (TypeScript and Python), connect | none that the rest reads | translate a tool call into `runExec`; edit a host's settings | execution, recording |

What is hard here is not sequential. Writers exclude each other but readers do
not; a judgement ("this holder is dead", "this intent is abandoned", "this is the
head") is made at one moment and used at a later one; a crash can fall between
any two system calls; an operation is retried after its result was lost; the
write system call may write less than asked; a signal may be refused. `PROJECT.json` lists these hazards,
each at its line, with the properties that watch it.

What makes each component right:

- lock: at most one holder; nothing that merely looks dead is robbed; no lockfile
  keeps everyone out after its owner died;
- log: always a linked chain; an append returned is an append recorded; a retried
  operation is recorded once; what a reader is given verifies;
- execution: no action without its intent on record, none that was denied; a
  result or a loss on record belongs to an intent of the same call; each intent
  gets one or the other;
- shell mediator: the result tells how the child really ended, the capture is
  what it wrote but for what it says is missing, and a timeout ends the wait;
- file mediator: a refusal touches nothing, a success is in the file, an exclusive
  create is exclusive, a link is not followed;
- policy and server: what runs is what the first matching rule allows; each request
  is answered once, in order and truly; the end of input ends the server;
- evidence: what is exported honestly verifies, a change of it does not, a break is
  reported where it is, and the commands agree about what they look at.

## The modules

| module | what it is |
|---|---|
| `ChainLedger` | abstract: a sequence that grows by one linked event at a time, operation ids unique |
| `ChainMutex` | abstract: a critical section, entered by one process at a time |
| `EventLog` | the log in detail; implements `ChainLedger`, enters the lock as `ChainMutex` |
| `ChainLock` | the lock in detail, both backends; with flock implements `ChainMutex` |
| `ExecPipeline` | execution, recovery and recording over the ledger |
| `Mediator` | one command: child, pipe, capture, timers |
| `Enforcement` | operators without state: what a mode makes of a decision, what an approval channel can answer |
| `PolicyEngine` | operators without state: classifier, match, decision |
| `McpServer` | the server's loop and a call's way through policy, approval and `Mediator`, which it extends |
| `PolicyServer` | the server with the policy engine, and what the authors of packs may rely on |
| `FileMediator` | file writes and reads of several calls on one path, with other programs about |
| `EvidenceChain` | receipts, packages, tamper checks, verifier and inspectors over a linked log |
| `EventLogProofs`, `ChainLockProofs`, `ExecPipelineProofs`, `MediatorProofs`, `FileMediatorProofs`, `McpServerProofs`, `PolicyServerProofs`, `EvidenceChainProofs` | theorems about those modules and their proofs |
| `MCEventLog`, `MCChainLock`, `MCExecPipeline`, `MCMediation`, `MCEvidence` | instances for TLC |

`EventLog` abstracts the lock to what `ChainLock` says of the flock backend, one
holder and release at death. That the two fit is proved on both sides of `ChainMutex`: the lock
implements it, and it is all that the appending processes do with the lock. `ExecPipeline` abstracts the log to the ledger that
`EventLog` is shown to implement, plus the one thing readers without the lock
can see of a write under way. `ExecPipeline` also abstracts the verdict of the policy
and the way of the action through the mediator to a choice; `McpServer` has those two in detail
and abstracts the recording to what a caller of it sees, that it may throw. `EvidenceChain`
starts from a log as `ExecPipeline` leaves it: linked, numbered from 0. Its log, too, is shown to be
one that `ChainLedger` allows.

### EventLog

The file is `log`, its complete lines, and `torn`, what follows the last newline:
nothing, part of a line, or a whole line without its newline. The last two are
what the file looks like between the first and the last byte of a `writeSync`,
and what a crash or a short write leaves. `cache` is the head file. A hash is the
number of the generated event id: `hashEvent` covers the id, so two drafts never
have the same hash (`FreshHash`).

An append is `AppendDraftEvent` (or `AppendEvent`, for the path that is given an
event finished on a head read outside the lock), `AcquireAndHeal`, then
`ReturnExisting`, `BuildDraft`, `AcceptFinal` or `RejectStale`, then `WriteSome`,
`WriteRest` or `ShortWrite`, `WriteHeadCache`, `Return`. Steps under the lock are
joined where no other process can see between them: `healTornTail`,
`readChainHead` and the dedupe scan only read what the holder alone can change
or change what nobody else may look at. The head cache is the exception, since
`rebuildHead` also writes it from a lock-free reader: that write is an action of
its own (`WriteRebuiltCache`), with the value computed before. `Crash` may
fall anywhere and drops the lock; an I/O error that makes the call throw leaves
the same state.

A reader takes no lock, and `readEvents` streams the file: it gets it in several pieces, between which
writers go on. `seen` is what it has been given so far, `reader` where it is: after which line, whether
it has bytes of the unfinished one, and of which event. `ReadLines`, `ReadPart` and `EndRead` go
on as the file is by then. If the line it is in the middle of is truncated (`Healed`), what it reads next are the bytes
written over that place (`ReadOver`, `EndStale`): with the ones it had they make no line at all, the truncated event,
or one that nobody recorded (`Mixtures`). `broken` remembers where that happened. A truncation by which a reader has read
nothing of the line harms nobody, since only what follows the last newline is ever truncated.

### ChainLock

A member of `Proc` is a pid; `start` counts the processes that have had it, so
pids are reused. The lockfile carries the identity of its creator and whether the
stamp has been written yet. Creating and stamping are two system calls and two
actions; so are reading the stamp (`ReadHolder`, `UnlockReadsHolder`), probing the process it names
(`HolderProvablyDead`, `UnlockDecides`) and removing the file
(`TrySteal`, `UnlockRemoves`, `Release`), and `Remove` removes whatever file is at
the path by then. `misremoved` records that this was a live process's. The open and the write of the stamp may
fail (`CreateFails`, `StampFails`), and the write may be short: then the file is there and names nobody. A
process is killed anywhere (`Crash`) or ends between two calls (`Exit`), which is when its pid becomes free. The two
backends do not coordinate, as the threat model says, so a run uses one of them.
Time is a choice: a poll may find its timeout passed or not, at any moment.

### ExecPipeline

`pc` follows a call of `runExec` or `runFileExec`: `recover`, `decide`,
`approval`, an append (`lost`, `deny`, `phaseA`, `phaseB`), `mediate`, `running`.
The situation of a call (`Plans`) is its mode, whether packs are loaded, the
opt-in variable and the engine's verdict; the decision table, `applyConstraint`
and `computeOutcome` are translated as they stand, the suffix `_with_error` as
the field `result`. An append has two steps, `BeginAppend` (the lock is free,
the torn tail is truncated, the draft gets the head, writing starts) and
`EndAppend`; recovery looks at the file in between. A write that comes back short is `EndShort`: the call goes on as
if its event were recorded (`cut`), and the next append truncates it, as `log_short` shows of the log. So
phase A's intent can be truncated by phase B's own append. A process may also die between truncating and writing
(`DieHealed`). Recovery streams the file too: from its start (`since`) on, an event that was truncated
meanwhile is one it may have read, and what it takes for the tail is any of these or the last line (`TailsRead`). Where the bytes
of two lines would make a line that parses, it counts as the truncated event; `EventLog` has that case in full. `effects` records each action handed to
the mediator, `ended` the calls that died or threw, `wiped` the events whose unfinished lines were truncated.

### Mediator

`stage` is where `mediateShell` is, `child` the operating system's side of it, `killed` the
flag Node keeps of a signal having been sent, `timer` the timeout and its grace period. Output is
bytes numbered from 1, so the capture can be compared with what was written:
the child writes (`ChildWrites`), the event loop drains any chunk of what is there (`Drain`),
and the `exit` event (`ExitSeen`) may come first, which leaves the rest uncaptured, as the code
does. `TimeoutFires` sends SIGTERM; a child obeys or not. `GraceExpires` looks at
`killed` as the code looks at `child.killed`, finds it set and sends nothing. Or the SIGTERM is refused (`TimeoutRefused`),
since the child changed its user: Node makes that an error event, which the code takes for a failed spawn, so the call
resolves with `spawn_error` while the child runs. The SIGKILL is then tried, and may be refused as well. A
child that still runs when the next call begins is kept in `strays`.

### PolicyEngine and McpServer

A regular expression is a name and an intent carries the names that match it. A match
block is a record with just the keys of its JSON object, because `compileMatch` branches on
which keys there are: with `not`, `all_of` or `any_of` it reads no others. A match is
the sequence of its blocks, each after the ones nested in it and the outermost last, and a composition key
names the places of the nested blocks. So what the compiled closures do is a function defined along
that sequence (`CompileMatch`). Any finite tree of blocks can be written this way, and `PacksAssumption` says
of the packs no more than that, plus the values the schema lets through.
`Evaluate` goes through the rules of all packs in load order, then to the most
restrictive default. The server needs nothing of this but that there is an answer for each
command and the packs of its configuration: it has a constant `Policy(_, _)`, and `PolicyServer`,
which extends both modules, is where `Policy` is `Evaluate` (`EngineAssumption`; `Policy <- Evaluate` in
`Mediation.cfg`). So what is
proved of the server holds whatever the policy engine answers, and only what packs mean
depends on how match blocks are read.

`input` is what a client sends; `ReadLine` puts a line on `queue`, the chain of promises;
`HandleMessage` answers what is not a tool call, `HandleToolsCall` starts one, and then
`Deny`, `Ask`, `Mediate`, `MediateReturns` and `Complete` follow `runExec` up to its exit
code, which `Reply` turns into the answer. `HandlerThrows` is any rejection on that way,
caught at the end of the chain. `Exit` happens when the input has ended and the queue has drained.

### FileMediator

A path is a parent entry and a target entry; the target is an inode, nothing, a link or a directory. Each
call checks (`MediateFile`, `CheckParent`, `CheckTarget`), then opens by name (`OpenFile`,
`OpenFails`), then writes part by part at the offset of its descriptor, or at the end when it
appends. Between any two of these steps another call may do the same, and `Replace`
may put something else at either entry. `touched` records what a call changed. Bytes are tagged
with the call that wrote them; `CallAssumption` keeps the tags of what was there before and of
a hole apart from the calls. `FileResultTruthful` says of a successful write that the file ends with
what the call reports (`EndsWith`), while no other call shares the file, and that an
overwritten or created file holds nothing else.

### EvidenceChain

A hash is its content and a signature is the key with what it signs, so nothing collides and
nothing is forged: what is left to go wrong is what gets hashed, what gets signed and what gets
compared. `Record` extends the log; `ExportV01`, `ExportV02`, `CopyChain` and `TakeReceipt` put a file
into `artifact`, while the log goes on; `Alter` changes any one
field of it, with or without a hash that fits again, or leaves out, repeats or swaps entries. The
commands are operators on the file (`RunVerify`, `RunReplay`, `FindToShow`,
`DetectTampering`), and the properties quantify over their arguments. The value an altered field
gets, `MaxEvents + 1`, is no sequence and no identifier of a recorded event. What a command hashes and compares is
what the schema makes of the file: unknown fields are gone, and a missing field that has a default has it (`ParseEvent`,
`ParseReceipt`; the hash and signature of a v0.2 receipt are checked over it as received). So an alteration may also add a field no schema knows or leave one with a default
out (`DropDefault`). `chain_segment_id` stands for the fields with a default, and the logs here are of
the segment of that default: in a log of another segment, leaving it out changes the event and is seen as any other edit.

## The runs

Each property is stated, with the code it is about, above its definition.

| run | question | size |
|---|---|---|
| `eventlog` | does the log stay linked, answer truthfully and come free, with 2 processes, 3 appends, 2 crashes, one short write, a reader that streams | 367 k states |
| `lock` | what can break exclusion, with 3 pids, one killed, one that exits, both backends | 368 k |
| `exec` | do phases, recovery and crashes fit together, with 2 processes, 3 calls, one crash, one short write | 687 k |
| `exec_paths` | does every path through the decision table keep its promise, with 1 process, all 16 situations, both kinds of action, 2 calls, an observed execution, a crash, a short write | 3.9 M |
| `mediation` | do answers, captures and file contents tell what happened, with 8 server configurations, 2 lines, 3 exit codes, up to 3 bytes of output, a head and a tail of 1; or with 2 file calls of 2 parts and one replacement | 1.5 M |
| `evidence` | what do VALID, a reported break and a shown receipt mean, with 3 events, every range, both receipt versions, 2 keys, 5 attestations, one alteration | 99 k |
| `log_short`, `lock_steal`, `lock_orphan`, `exec_double`, `exec_live`, `exec_missed` | does the code keep what a comment or document says: it does not | one property each |

Bounds. The interesting races need two writers and something that goes wrong
between them: a third append (for the retry, and for the head that
moved), a crash and one during the repair, one short write. The lock needs a third pid: one that died,
one that takes over, one that judged earlier. A process killed and one that exits are
the two ways to free a pid; the second can be the one who recovers from the first. Three calls are an abandoned
one, one that recovers it and one in between. Only one run has all plans because
those properties are about one call and what its own chain says; another process
adds nothing to them but appends. Two lines are a request that waits behind another; a third
meets the same queue. Three bytes with a capture of 1 + 1 are the first length of which something must be
dropped, and 2 is the length at which the code gets it wrong. The configurations are
chosen so that each rule of precedence decides something: packs in both orders, defaults
that differ, a composition, a mixed block, each approval channel, no pack with and without the opt-in, witness mode.
Two file calls of two parts interleave; one replacement can fall
before, between and after the checks. Three events have a first, a last and one with two
neighbours; one alteration is enough, since a verdict depends on the first thing that is wrong.
`mediation` has one side at a time, since the two mediators share nothing. `CHECK_DEADLOCK FALSE` is set where the bounds
on calls, lines or events let the system come to an end, and in the server's case where it exits; the lock's run goes on for ever and does check.

Fairness. `WF_vars(Run(p))`: a process that runs keeps running. It is the fairness of
a scheduler and nothing more. No call has to be made, no user has to answer, no
command has to end, nobody has to restart, and whether a free lock is taken or a timeout
strikes first is left open. Liveness properties therefore have the form "the lock
comes free again", "a waiter that meets a dead holder's stamped file gets past it"
and "a result that came back gets recorded, unless the process dies or the append throws".
For the server it is `WF_vars(Runs)`: the event loop turns, and the operating system
spawns, delivers signals and reports exits. What the client sends, what the command does and when a
person answers is `World` and not forced. Hence `DrainsAndExits` names what it may wait for: a person, a
command without a timeout, a command that ignores SIGTERM.

### Where the code and its documents differ

1. `log_short`: `appendEventUnsafe` ignores how much `writeSync` wrote
   (event-log.ts:178). A short count is returned as success, and the next
   append truncates the event. `AckedRecorded` holds but for these.
2. `lock_steal`: `renameSync` takes whatever file is there (lock.ts:394). A waiter that
   judged the dead holder's file can rename away the file of the waiter
   that came first, and there are two live holders. No crash is needed for it: the waiter reads the stamp,
   the holder releases and exits, another process creates its file, and only then the waiter probes the first holder and finds it
   gone. Exclusion fails in no other way than by removing a live process's file
   (`ExclusiveUntilMisremoved`), and this needs that some process was killed or exited, and the lockfile backend
   (`MisremovalNeedsDeath`).
3. `lock_orphan`: a process that dies between creating and stamping the lockfile
   leaves a file from which no holder can be read; the waiters and `witseal unlock`
   take it for a live one until somebody deletes it by hand.
4. `exec_double`: recovery reads the tail outside the lock and does not look
   again inside (recovery.ts:56-67), so two processes record one loss twice.
   The `catch` for `previous_event_hash` is never reached: the draft takes
   whatever head it is given.
5. `exec_live`: the lock covers appends, not calls, so a call that starts while
   another's command runs records the other one as lost, although it is alive.
6. `exec_missed`: only the tail is looked at, so an abandoned intent with any event
   after it is never resolved.

4 and 5 take two calls at a time: as long as none overlap, an abandoned intent is recorded as lost
once, and only if its call did end or the write of its completion was cut short (`LossesAreSoundAlone`), and, where nothing but `exec` records, a call gets to its decision only when each earlier intent has had a
sequel written (`SerialCallsRecover`).

What remains true of executions despite 4 to 6 is what `exec` checks: lost events
refer to real intents (`LostBacked`), completions pair with theirs (`CompletionBacked`),
and without overlap the chain pairs up (`SerialCallsPairUp`). They carry
exceptions, for lines that are truncated. Recovery can read a whole line that lacks only its newline,
which the next append, its own, truncates; then the chain holds an
`execution_lost` for an event it does not hold. And a write that was cut short (finding 1) is taken for
one that succeeded: an action may run whose intent phase B truncates, so that its completion refers
to an event that is not there; a loss may be recorded of such an intent, though its action ran; and a
completion may be cut, so that the result is not on record.

More differences were met while modelling; they have no run of their own, and where a
property is affected, its comment names the exception.

- lock.ts:131 says "a reader sees a consistent prefix", and docs/adr/0006-concurrency-model.md:166 would verify it;
  the read is a stream, and a line truncated in the middle of it leaves a mixture (`SnapshotVerifies`, `SnapshotPrefix`).
- lock.ts:334: a write of the stamp that throws leaves the lockfile, and its creator goes on without the lock
  (`LockfileAccounted`).
- mediator.ts:136, 149: the capture ends when the `exit` event comes, with output still in the pipe, which is then neither kept
  nor counted; execution-result.schema.ts:17-24 speaks of the original stream, and
  mediator-shell.test.ts:105-124 expects all of it (`CaptureKeepsEnds`).
- mediator.ts:135: a refused signal (EPERM) resolves the call with `spawn_error` while the command runs; the server goes on,
  and on its `process.exit(0)` (server.ts:210) the command may outlive it (`ResultTellsChild`, `ExitLeavesNothing`).
- mediator.ts:64-72: output longer than the head and no longer than head and tail loses what is
  after the head, and `truncated` stays false (`CaptureKeepsEnds`).
- mediator.ts:84, 128: `child.killed` is set by the SIGTERM, so the SIGKILL after the grace
  period is never sent; a command that ignores SIGTERM runs on (`DrainsAndExits`).
- mediator.ts:372: a `create_only` write does not look at how much was written and
  reports the whole (`FileResultTruthful`).
- adapters/mcp/server.ts:201: a request whose handler throws is never answered
  (`AnsweredInOrder`); server.ts:95: a malformed message is always
  answered, though the comment says to stay silent if it has no id.
- adapters/mcp/mediate.ts:91: a command that exits with 100 itself is reported as one that did not run
  (`AnswerTellsOutcome`).
- policy/engine.ts:110: a composition key makes the other keys of its block
  go unread, where the schema's comment (policy.schema.ts:14) has all of them hold (`GateRunsAllowed`).
- verify/verify.ts:244: that receipts and events of a package are paired one to one is
  said but not checked; nor are the range and the segment (`ValidIsFaithful`). The outcome and segment of
  a v0.1 receipt are not compared with the event.
- verify/verify.ts:208, 332 and event-log.ts:331: verdicts are about what parsing returns. A field no schema knows, added to an event or
  to a v0.1 receipt, is not seen, nor is a field left out whose value was the default
  (`ValidIsFaithful`, `TamperLocated`).
- receipts of an `execution_lost` event keep a field the v0.2 schema has absent
  (receipt-v0.2.schema.ts:24): `evidence/package.ts` never passes on that the execution was lost.
- integrity/tamper.ts:26 calls events left out or swapped a break of sequence; they are
  reported as one of linkage, which is checked first (`TamperLocated`).
- a chain whose first event is not number 0 verifies, but `replay` rejects it (`InspectorsAgree`).
- cli/receipt.ts:313 shows witness mode for a gate call that was blocked for want of a policy.

## The proofs

`EventLogProofs` proves, for any set of processes, operation ids and bodies and
any bounds, type correctness and each safety invariant of `eventlog`, and that the
log implements the ledger. It assumes what `EventLog` assumes of its constants:
that `NoProc` and `NoOp` are not members, that there is a body and that the bounds
are naturals. None of the invariants is inductive alone. The link of an appended event comes
from its draft, so `DraftFits` says a draft being written fits the log; that stays
true because only the lock holder changes the log (`LockHeld`). A crash leaves the
draft in `torn`, where a reader can see it, so `TornFits` says the same of it
(`SnapshotVerifies` needs that). `OperationsOnce` needs the scan's result to hold
until the write, again `DraftFits`; freshness of hashes is `IdsOnce`; and
`FinalDrafts` says `appendEvent` carries no operation id, without which its path
would break uniqueness. `Recorded` follows a result from the write to the return.
`ReaderFits` says what a reader has while nothing was truncated under it, which is exactly the lines it is past, and that what it had before stays a
prefix.
The refinement's initial condition and step come from the invariant: each step leaves
`log` alone or, in `WriteRest`, is the ledger's `Extend`. Two more theorems are about the lock: the
processes in the critical section are there as `ChainMutex` allows (`LogUsesMutex`), and each change
of the file is made by the one in it (`OnlyTheHolderWrites`). For them each step is sorted by what it does with the
lock (`LockSteps`), and `HoldersHold` says that to be in the section is to have the lock.

`ChainLockProofs` does the same for the lock with any pids and any number of deaths. The
strengthening says what each backend leaves unused, that
the creator of a lockfile finds its own at the path until a misremoval (`OwnersFile`),
that stamps, in the file and in the hands of who read them, name processes of the past or present (`StampsPast`), hence a verdict
of death is final, and that until some process ends every pid is in its first life, which gives `SafeUntilDeath`.
`FlockExcludes` is the exclusion the log relies on. With it `FlockImplementsMutex` follows: a step is of one
process (`OneMoves`), and where there is one holder at most before and after, it is an entry, an exit or neither
(`StepEntersOrLeaves`). `LockIsMutexUntilMisremoved` says the same of either backend up to the first misremoval. It is
stated as a step property, since what follows a misremoval is no mutex.

`ExecPipelineProofs` proves, for any set of processes, any set of situations, any way a line can be
torn and any bounds, the types, the safety invariants of `exec` and `exec_paths`, and
that the pipeline's chain is the ledger's. It assumes what `ExecPipeline` assumes: that
`NoProc` is no process, the situations are among the sixteen there are, and the bounds are
naturals. The invariants are about events in the chain and need to know what a
call had in hand when it wrote them; so the strengthening says:

- `StagesFit`: what each stage of a call knows by then: its intent is in the chain from `mediate` on
  (`Backed`), its plan authorises it, its draft is of the kind the stage appends;
- `DraftFits`: the line being written is the writer's draft on the head, as in the log's proof;
- `HashesFit`: event ids count up, along the chain and from an event to what refers to
  it. That is why a reference points backwards, and why a new event has a new hash;
- `KindsFit`, `OncePerCall`, `LiveCallsFit`: intents, denials, losses and completions can be told by their
  fields; a call has one intent and one end, and, while it lives, nothing but its intent;
- `TruncatedEnded`: a line without a writer belongs to a call that is over, which is what makes the
  truncated intent of `LostBacked` harmless, unless its write was one cut short;
- `EffectsFit`, `CompletionsFit`: who ran an action still runs it or is past it, and a
  completion's outcome is computed from the plan under which it ran.

`EndAppend` and `EndShort` disturb nearly all of them, and their proofs are the longest. The others go
through two lemmas: `JobStep`, for steps that touch only a call's own stage, and `AbortFits`, for
calls that end without a value.

`SerialCallsPairUp` has an invariant of its own, `SerialInv`, on top of that one. That calls do not
overlap is said of the past, so the invariant first says what it means now: one process at
most is not idle (`OneAtATime`). The tail of the chain is settled unless it is the intent of the
call that runs: from the decision on nothing is pending at the tail that was not
truncated, and a call that recovers or has acted has in hand the event that settles it
(`StageSettled`). The same is said of a line being written (`TornSettles`), since a crash leaves it there. Then
every intent that is not the tail is followed by what settles it (`IntentsSettled`). `SerialCallsRecover` follows from
the same invariant: at its decision a call has an open tail only if the line that settles it was truncated.

`LossesAreSoundAlone` has `LossInv`. An intent open at the tail is that of a call that ended or of one acting on it, or one whose completion was cut, always
(`OpenTailIsKnown`); and while no two calls have overlapped, a call about to record a loss has one
that nobody recorded before, of a call that broke off in one of these ways (`LossKnown`). An overlap breaks the second, as
findings 4 and 5 show.

`MediatorProofs` assumes that the buffer size and the bound on output are naturals, the first not 0, and that exit
codes are bytes. `MInv` ties the call to the child and both to the timers: nothing is
captured before the spawn, only an exited child has a code or a signal, only a timeout sends
SIGTERM. `RefusalFits` says how a call ended whose child may not be signalled, and `StraysFit` that only such a child outlives its call. `CaptureKeepsEnds` is about a result; it needs `Captured` of the buffers while they
fill: after any drained chunks the head is the first bytes and the tail the last, whichever of the three
cases of `WriteChunk` the chunk meets. `ResultFits` freezes both once the call resolved: output and
exits that come later change nothing.

`FileMediatorProofs` is for any number of calls and parts, any of the four modes, any set of checks, and any
number of replacements. `FInv` has a part per hazard: a call with no file open
has touched and written nothing (`TouchedFits`, `UnwrittenFits`), what it wrote into a file nobody shares is
at the end of it at the offset the call counts (`WrittenFits`), a file opened for exclusive creation is no other
creator's, because inode numbers are counted (`CreatedFits`), and a link is only behind a
name that was replaced after the check (`LookedFits`).

`McpServerProofs` is for any lines, configurations and any policy engine. It begins with a refinement:
every step of the server is a step of `MediatorNext` or leaves the mediator's variables alone, so
the server implements `MediatorSpec` (`ServerMediates`) and what is proved of `mediateShell` holds in the server.
The rest of `SInv` says that the queue is in order and after the line in hand, the answers before it
(`QueueFits`, `AnswersFit`), that what ran is through or is being recorded (`RanFits`), and that the line
in hand was decided before the mediator got it (`DecidedFits`). `OnlyDecidedRuns` is the part of
`GateRunsAllowed` that does not depend on the engine: whatever it answers, in Gate mode nothing
runs that it did not allow, that lacks the approval it asked for, or, without packs, the opt-in.

`PolicyServerProofs` supplies the rest of `GateRunsAllowed`, for any packs (`OnlyAllowedRuns`), and
two facts about the engine alone: any packs decide any intent, with one of the three decisions
(`EvaluationIsTotal`), and a pack loaded later leaves the decisions of rules as they are and can
only make the default more restrictive (`LaterPacksGiveWay`). The work is in the blocks. The function along a sequence exists
because nested blocks come first (`CompiledExists`), and two ways of answering its blocks that agree on
each block, given the nested ones, agree (`SameNested`, `ReadingsAgree`): if not, there would be a first block at which
they differ. Where no block is mixed, the engine's reading is hence the schema's (`MatchingIs`). Then the loops
of the engine: `MatchedRuleIs` says they stop at the first match in load order or find none, and `DecidesFirst` that
this is the pair nothing precedes.

`EvidenceChainProofs` is for any length of the log, any keys, signers and attestations. It assumes that
the bound is a natural and signers are keys (`EvidenceAssumption`), that the two markers for a missing
and an unreadable key are no keys (`KeyAssumption`), and that an attestation lists its subjects in a
sequence (`AttestationAssumption`). Hashes need no assumption: they are injective by construction, which is the one
idealisation of this module. `EInv` says that the log is the sequence of events recorded, each sealed
and naming the one before; that what was issued is a package, a chain or a receipt cut from this log
(the log grows, so this is said of the log as it is now); and that the file at hand is
what was issued or one change away, spelled out as in `Alter`. Recorded events parse to themselves (`ReadsAsWritten`), and a
change of one is a change of what it parses to, or of nothing (`ChangedReads`); the lemmas below are about parsed events.

The properties follow from `EInv` by lemmas about the verifier, of which these carry most:

- `StretchVerifies`: consecutive events of the log, taken from the head before them, verify;
- `VerifiedIsStretch`, the converse: *any* sequence of events that verifies from one head of the log and
  ends in another is the log between them, whoever made it. The hashes determine the chain backwards: the last event hashes
  to a head of the log, hence is that event, hence names the one before. The proof counts from
  the end, takes the first place at which the two differ, which exists because a set of naturals that is not empty has a smallest
  element (`Smallest`), and shows that they do not differ there. `ValidIsFaithful` for packages follows at once;
- which position `verifyChain` reports, for each of the four ways in which a chain can be edited (`TamperLocated`);
- what the lookups of `replay` and `receipt show` find in a sequence whose identifiers are
  distinct (`InspectorsAgree`).

`LogImplementsLedger` takes for the hash of an event its place in the log. This is a function because no two events share
a hash, and recording is then `Extend`.

Proved by no theorem, only model-checked:

- the temporal properties beyond safety and refinement (`LockComesFree`, `WaiterClearsOrphan`,
  `ResultsAreSealed`, `DrainsAndExits`): liveness under fairness and ENABLED are outside its reach;
- the runs that end in a counterexample.

Induction over data is out of reach where it would be by the library's induction theorems, which take an operator as
a parameter. Where one was needed on a concrete set of positions, as for recursive functions (`InRange`) and chains,
it was done by smallest counterexample, from the theorem that the naturals are well-founded.

## Not modelled

- the advisory opt-out `WITSEAL_UNSAFE_LOCKLESS`, which takes no lock and promises
  nothing; shared locks, which nothing takes; re-entry by a child of the holder
  (lock.ts:269), which the synchronous critical section cannot meet;
- platforms on which start times cannot be read: there a reused pid counts as alive
  and `WaiterClearsOrphan` does not hold, by the code's own choice;
- the regular expressions of rules and of the classifier, which are names here; the hash of a pack;
- standard error, a second stream treated like the first; durations; the environment and
  working directory of a command;
- reading key files, the mathematics of hashes and signatures, canonical JSON, the
  shape checks of the schemas (what they strip and fill in is modelled), and how a receipt or a verdict is rendered;
- the adapters but for MCP: those for tool calls translate one call into `runExec` and its exit
  code into a result, as `mediateMcpShell` does, those that observe call `recordWitnessedExecution`,
  those in Python run the command line. They keep no state and have no loop;
- argument parsing and `witseal connect`, which edits another program's settings file and
  shares nothing with the rest;
- commands that only print what `readAllEvents` or a pack file holds;
- loss of data the operating system reported as synced.

## The plan

Done: all modules above, the proofs of every safety invariant and action property, and the refinements
between the modules. What is left:

1. two writers under the lockfile backend, once a live process's lockfile has been removed: what of the log's
   properties survives them;
2. the torn line on which recovery throws until something appends (`RecoveryThrows`): who heals it, and when;
3. liveness, which stays with TLC.

## Running it

    tlc -config EventLog.cfg MCEventLog.tla
    tlc -config ChainLock.cfg MCChainLock.tla
    tlc -config ExecPipeline.cfg MCExecPipeline.tla
    tlc -config ExecPaths.cfg MCExecPipeline.tla
    tlc -config Mediation.cfg MCMediation.tla
    tlc -config Evidence.cfg MCEvidence.tla
    tlapm EventLogProofs.tla
    tlapm ChainLockProofs.tla
    tlapm ExecPipelineProofs.tla
    tlapm MediatorProofs.tla
    tlapm FileMediatorProofs.tla
    tlapm McpServerProofs.tla
    tlapm PolicyServerProofs.tla
    tlapm EvidenceChainProofs.tla

The other `.cfg` files end with a counterexample. `PROJECT.json` lists for every
definition the source lines it models, and for every property a mutation of the model, as a bug in
the code would have it, under which TLC finds the property violated.
