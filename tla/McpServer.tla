----------------------------- MODULE McpServer -----------------------------
(***************************************************************************)
(* The stdio MCP server and the way of a tool call through it: lines come  *)
(* in, wait on a chain of promises, and are handled one at a time; a call  *)
(* of the shell tool is classified, decided by the policy packs, approved, *)
(* mediated and answered with the exit code of runExec.                    *)
(*                                                                         *)
(* The events runExec records are ExecPipeline's.  Here recording can only *)
(* fail: recovery, a pack that does not parse, phase A and phase B throw,  *)
(* and the promise of the handler rejects.  What the packs say of a        *)
(* command is a constant here; PolicyServer gives it PolicyEngine's answer.*)
(***************************************************************************)
EXTENDS Mediator, Enforcement

CONSTANTS Messages,  \* lines a client sends: [kind, command]
          MaxLines,  \* bound: lines it sends
          Configs,   \* packs, opt-in, mode, approval channel, timeout: what a
                     \* server is started with
          Policy(_, _)  \* packs and intent: outcome, and the rule that matched

ASSUME LinesAssumption == MaxLines \in Nat

VARIABLES
  config,    \* member of Configs
  input,     \* the lines the client sends, in order
  received,  \* how many of them the server has read
  stdin,     \* open or closed
  queue,     \* lines on the promise chain
  current,   \* line being handled, 0 if none
  pc,        \* of the handler: idle, exec, approval, mediating, recording; or exited
  approval,  \* the answer given for the command being handled
  answers,   \* what the server has written
  rejected,  \* history: lines whose handler threw
  ran        \* history: how each mediated command really ended

serverVars == <<config, input, received, stdin, queue, current, pc, approval, answers,
                rejected, ran>>
vars == <<serverVars, medVars>>

ParseError     == -32700
InvalidRequest == -32600
MethodNotFound == -32601
InvalidParams  == -32602
Denied == 100
NoAnswer == "none"

\* What a line that is not a call of the shell tool is answered, and whether
\* it is answered at all.
ErrorCode(kind) ==
  CASE kind = "unparsable" -> ParseError
    [] kind = "invalid" -> InvalidRequest
    [] kind = "unknown_method" -> MethodNotFound
    [] kind \in {"unknown_tool", "empty_command"} -> InvalidParams
    [] OTHER -> 0

\* A message without an id takes no reply, whatever its method.
Silent == {"notification", "blank"}

Answer(line, code, isError, denied) ==
  [line |-> line, code |-> code, isError |-> isError, denied |-> denied]

Init ==
  /\ MediatorInit
  /\ config \in Configs
  /\ input \in [1..MaxLines -> Messages]
  /\ received = 0 /\ stdin = "open" /\ queue = <<>> /\ current = 0
  /\ pc = "idle" /\ approval = NoAnswer
  /\ answers = <<>> /\ rejected = {} /\ ran = {}

-----------------------------------------------------------------------------
(* The transport *)

\* A line is put on the chain; blank lines are dropped.
ReadLine ==
  /\ stdin = "open" /\ received < MaxLines
  /\ received' = received + 1
  /\ queue' = IF input[received + 1].kind = "blank" THEN queue
              ELSE Append(queue, received + 1)
  /\ UNCHANGED <<config, input, stdin, current, pc, approval, answers, rejected, ran, medVars>>

CloseStdin ==
  /\ stdin = "open"
  /\ stdin' = "closed"
  /\ UNCHANGED <<config, input, received, queue, current, pc, approval, answers, rejected,
                 ran, medVars>>

\* A bug: the server exits when its input ends.
ExitAtOnce ==
  /\ pc # "exited" /\ stdin = "closed"
  /\ pc' = "exited"
  /\ UNCHANGED <<config, input, received, stdin, queue, current, approval, answers, rejected,
                 ran, medVars>>

\* Its input has ended and the chain is drained.
Exit ==
  /\ pc = "idle" /\ stdin = "closed" /\ queue = <<>>
  /\ pc' = "exited"
  /\ UNCHANGED <<config, input, received, stdin, queue, current, approval, answers, rejected,
                 ran, medVars>>

\* A bug: the newest line is handled first.
HandleNewest ==
  /\ pc = "idle" /\ queue # <<>>
  /\ input[Last(queue)].kind # "call"
  /\ queue' = Front(queue)
  /\ answers' = IF input[Last(queue)].kind \in Silent THEN answers
                ELSE Append(answers, Answer(Last(queue), ErrorCode(input[Last(queue)].kind),
                                            FALSE, FALSE))
  /\ UNCHANGED <<config, input, received, stdin, current, pc, approval, rejected, ran, medVars>>

\* handleMessage for everything but a call of the shell tool.
HandleMessage ==
  LET line == Head(queue)
      kind == input[line].kind
  IN
  /\ pc = "idle" /\ queue # <<>>
  /\ kind # "call"
  /\ queue' = Tail(queue)
  /\ answers' = IF kind \in Silent THEN answers
                ELSE Append(answers, Answer(line, ErrorCode(kind), FALSE, FALSE))
  /\ UNCHANGED <<config, input, received, stdin, current, pc, approval, rejected, ran, medVars>>

HandleToolsCall ==
  /\ pc = "idle" /\ queue # <<>>
  /\ input[Head(queue)].kind = "call"
  /\ queue' = Tail(queue)
  /\ current' = Head(queue)
  /\ pc' = "exec"
  /\ approval' = NoAnswer
  /\ UNCHANGED <<config, input, received, stdin, answers, rejected, ran, medVars>>

-----------------------------------------------------------------------------
(* runExec, from the decision to the exit code *)

\* The command is the argument of `/bin/sh -c`, which the classifier's table
\* C3 has a pattern for.
Intent(message) ==
  [action_type |-> "shell_command", executable |-> {"sh"},
   command |-> message.command.patterns,
   signs |-> message.command.signs \cup {"C3"}]

IntentOf(line) == Intent(input[line])

\* The exit code of runExec becomes the answer: 100 means denied, everything
\* but 0 is an error.
Reply(exitCode) ==
  /\ answers' = Append(answers, Answer(current, 0, exitCode # 0, exitCode = Denied))
  /\ current' = 0
  /\ pc' = "idle"

\* runExec rejects; the chain's catch writes to stderr and nobody is answered.
HandlerThrows ==
  /\ pc \in {"exec", "recording"}
  /\ rejected' = rejected \cup {current}
  /\ pc' = "idle"
  /\ current' = 0
  /\ Forget
  /\ UNCHANGED <<config, input, received, stdin, queue, approval, answers, ran>>

NoPolicyProceed == config.packs = <<>> /\ (config.escape \/ config.mode = "witness")

Decision == Policy(config.packs, IntentOf(current))

\* The no-policy branch and the constraint block: recorded, then 100.
Deny ==
  /\ pc = "exec"
  /\ IF config.packs = <<>> THEN ~NoPolicyProceed ELSE ApplyConstraint(Decision, config.mode)
  /\ Reply(Denied)
  /\ UNCHANGED <<config, input, received, stdin, queue, approval, rejected, ran, medVars>>

\* A bug: the answer of the terminal is awaited, and not looked at.
AnyAnswerApproves(answer) == TRUE

Approves(answer) == answer = "approved"

\* Only the terminal takes time; a refusal is recorded and answered with 100.
Ask(answer) ==
  /\ pc = "exec" /\ config.packs # <<>> /\ config.mode = "gate"
  /\ approval = NoAnswer /\ Decision.outcome = "require-approval"
  /\ answer \in ObtainApproval(config.channel, config.autoApprove, Decision)
  /\ approval' = answer
  /\ IF Approves(answer) THEN UNCHANGED <<answers, current, pc>> ELSE Reply(Denied)
  /\ UNCHANGED <<config, input, received, stdin, queue, rejected, ran, medVars>>

\* Phase A is recorded; the mediator starts.
Mediate ==
  /\ pc = "exec"
  /\ config.packs = <<>> => NoPolicyProceed
  /\ config.packs # <<>> /\ config.mode = "gate" =>
       Decision.outcome = "allow" \/ (Decision.outcome = "require-approval" /\ approval # NoAnswer)
  /\ MediateShell
  /\ pc' = "mediating"
  /\ UNCHANGED <<config, input, received, stdin, queue, current, approval, answers, rejected,
                 ran>>

MediateReturns ==
  /\ pc = "mediating" /\ result.done
  /\ pc' = "recording"
  /\ ran' = ran \cup {[line |-> current, state |-> child.state, code |-> child.code,
                       approval |-> approval]}
  /\ UNCHANGED <<config, input, received, stdin, queue, current, approval, answers, rejected,
                 medVars>>

\* A bug: -1 is not mapped, and an error is told from the sign.
RawExit(r) == IF r.exit_code < 0 THEN 0 ELSE r.exit_code

\* What runExec returns: -1, for a signal or a spawn error, becomes 1.
ExitOf(r) == IF r.exit_code = NoCode THEN 1 ELSE r.exit_code

\* Phase B is recorded.
Complete ==
  /\ pc = "recording"
  /\ Reply(ExitOf(result))
  /\ Forget
  /\ UNCHANGED <<config, input, received, stdin, queue, approval, rejected, ran>>

-----------------------------------------------------------------------------
Handle ==
  \/ HandleMessage \/ HandleToolsCall
  \/ Deny \/ Mediate \/ MediateReturns \/ Complete
  \/ config.channel # "tty" /\ \E answer \in {"approved", "rejected", "timed_out"} : Ask(answer)
  \/ Exit

\* What waits for nobody outside.
Runs == Handle \/ (MediatorRuns(config.timeout) /\ UNCHANGED serverVars)

World ==
  \/ ReadLine \/ CloseStdin
  \/ HandlerThrows
  \/ config.channel = "tty" /\ \E answer \in {"approved", "rejected"} : Ask(answer)
  \/ CommandDoes /\ UNCHANGED serverVars

Next == Runs \/ World

Spec == Init /\ [][Next]_vars

FairSpec == Spec /\ WF_vars(Runs)

-----------------------------------------------------------------------------
(* Properties *)

TypeOK ==
  /\ MediatorTypeOK
  /\ config \in Configs /\ input \in [1..MaxLines -> Messages]
  /\ received \in 0..MaxLines /\ current \in 0..received
  /\ stdin \in {"open", "closed"}
  /\ pc \in {"idle", "exec", "mediating", "recording", "exited"}
  /\ (current = 0) <=> pc \in {"idle", "exited"}
  /\ approval \in {NoAnswer, "approved", "rejected", "timed_out"}
  /\ rejected \subseteq 1..MaxLines
  /\ \A k \in DOMAIN queue : queue[k] \in (current + 1)..received

\* Lines that are through: read, and neither waiting nor being handled.
Handled == {n \in 1..received : n # current /\ \A k \in DOMAIN queue : queue[k] # n}

\* Requests are answered in the order they came, each once; notifications and
\* blank lines never.  The exception is a request whose handler threw: it is
\* never answered (startMcpServer).
AnsweredInOrder ==
  /\ \A j, k \in DOMAIN answers : j < k => answers[j].line < answers[k].line
  /\ \A n \in Handled :
       (\E k \in DOMAIN answers : answers[k].line = n)
         <=> input[n].kind \notin Silent /\ n \notin rejected

\* An answer without an error to a tool call means the command ran and exited
\* with 0; one that says denied means it did not run, unless it exited with
\* 100 by itself (handleToolsCall, mediateMcpShell).
AnswerTellsOutcome ==
  \A k \in DOMAIN answers : LET a == answers[k] IN
    input[a.line].kind = "call" =>
      /\ ~a.isError => \E r \in ran : r.line = a.line /\ r.code = 0
      /\ a.denied => \A r \in ran : r.line = a.line => r.code = Denied
      /\ ~a.denied => \E r \in ran : r.line = a.line

\* When its input has ended the server drains what it has read and exits.  It
\* may wait only for a person at the terminal, for a command without a
\* timeout, or for one that ignores SIGTERM: the SIGKILL is never sent.  One that
\* SIGTERM may not be sent to is not waited for.
DrainsAndExits ==
  stdin = "closed" ~>
    \/ pc = "exited"
    \/ config.channel = "tty" /\ pc = "exec"
    \/ child.state = "running" /\ (~config.timeout \/ child.term = "ignores")

\* An exited server has answered or dropped what it read, and leaves no command
\* behind.  The exception is a command that the timeout may not signal: its call
\* is answered as a failed one while it runs, and it may outlive the server
\* (startMcpServer, mediateShell).
ExitLeavesNothing ==
  pc = "exited" =>
    /\ stdin = "closed" /\ Handled = 1..received
    /\ \A c \in strays \cup {child} : c.state = "running" => c.refused
=============================================================================
