-------------------------- MODULE McpServerProofs ---------------------------
(***************************************************************************)
(* Proofs about McpServer, for any messages, configurations, policy and    *)
(* number of lines: the server mediates as Mediator says, answers in       *)
(* order, answers what happened, runs what was decided, and exits clean.   *)
(***************************************************************************)
EXTENDS McpServer, MediatorProofs

-----------------------------------------------------------------------------
(* The inductive invariant *)

Replies == [line : Nat, code : Int, isError : BOOLEAN, denied : BOOLEAN]

ServerTypes ==
  /\ config \in Configs /\ input \in [1..MaxLines -> Messages]
  /\ received \in 0..MaxLines /\ current \in 0..received
  /\ stdin \in {"open", "closed"}
  /\ pc \in {"idle", "exec", "mediating", "recording", "exited"}
  /\ (current = 0) <=> pc \in {"idle", "exited"}
  /\ approval \in {NoAnswer, "approved", "rejected", "timed_out"}
  /\ queue \in Seq(Nat) /\ answers \in Seq(Replies)
  /\ rejected \subseteq Handled

\* What is handled is a tool call, the mediator works only while it has one,
\* what was refused an approval is over, and an exited server has nothing left.
PcFits ==
  /\ pc # "mediating" => stage = "idle"
  /\ pc = "exec" => approval \in {NoAnswer, "approved"}
  /\ pc = "recording" => result.done
  /\ current # 0 => input[current].kind = "call"
  /\ pc = "exited" => stdin = "closed" /\ queue = <<>>

\* What waits came after what is being handled, in the order it came.
QueueFits ==
  /\ \A k \in 1..Len(queue) : queue[k] \in (current + 1)..received
  /\ \A j, k \in 1..Len(queue) : j < k => queue[j] < queue[k]

\* What was answered came before.
AnswersFit ==
  \A k \in 1..Len(answers) :
    /\ answers[k].line \in Handled
    /\ current # 0 => answers[k].line < current
    /\ \A j \in 1..Len(queue) : answers[k].line < queue[j]

\* A result with a code tells the code the child ended with.
Told(r) == result.exit_code # NoCode => r.code = result.exit_code

\* What ran is through, or is what is being recorded now.
RanFits ==
  /\ \A r \in ran : \/ r.line \in Handled
                    \/ r.line = current /\ pc = "recording" /\ Told(r)
  /\ pc = "recording" => \E r \in ran : r.line = current /\ Told(r)

\* In Gate mode a command runs because the packs allow it, because they want an
\* approval and it got one, or because there are none and somebody opted in.
Decided(line, answer) ==
  LET says == Policy(config.packs, IntentOf(line)).outcome
  IN config.mode = "gate" =>
       /\ config.packs = <<>> => config.escape
       /\ config.packs # <<>> =>
            says = "allow" \/ (says = "require-approval" /\ answer = "approved")

\* The line being handled was decided before it was handed to the mediator.
DecidedFits == pc \in {"mediating", "recording"} => Decided(current, approval)

\* Whatever the engine answers, and in whatever order lines, answers, exits and
\* timeouts come: what ran was decided so.
OnlyDecidedRuns == \A r \in ran : Decided(r.line, r.approval)

SInv ==
  /\ MInv /\ ServerTypes /\ PcFits /\ QueueFits
  /\ AnswersFit /\ AnsweredInOrder /\ AnswerTellsOutcome
  /\ RanFits /\ DecidedFits /\ OnlyDecidedRuns

-----------------------------------------------------------------------------
(* Lemmas *)

\* Every step of the server is one of the mediator, or none of its business.
LEMMA ServerMediatesStep == [Next]_vars => [MediatorNext]_medVars
<1> SUFFICES ASSUME [Next]_vars PROVE [MediatorNext]_medVars
  OBVIOUS
<1>1. CASE UNCHANGED vars
  BY <1>1 DEF vars
<1>2. CASE Handle
  BY <1>2 DEF Handle, HandleMessage, HandleToolsCall, Deny, Mediate, MediateReturns, Complete,
     Ask, Exit, MediatorNext
<1>3. CASE \E timeout \in BOOLEAN : MediatorRuns(timeout)
  BY <1>3 DEF MediatorNext
<1>4. CASE MediatorRuns(config.timeout)
  BY <1>4 DEF MediatorNext, MediatorRuns, Spawns
<1>5. CASE World
  BY <1>5 DEF World, ReadLine, CloseStdin, HandlerThrows, Ask, MediatorNext
<1>6. QED
  BY <1>1, <1>2, <1>4, <1>5 DEF Next, Runs

\* The head of the queue, and what is left without it.
LEMMA QueueHead ==
  ASSUME ServerTypes, QueueFits, queue # <<>>
  PROVE  /\ Len(queue) \in Nat \ {0} /\ Head(queue) = queue[1]
         /\ Head(queue) \in (current + 1)..received
         /\ Tail(queue) \in Seq(Nat) /\ Len(Tail(queue)) = Len(queue) - 1
         /\ \A k \in 1..Len(Tail(queue)) : k + 1 \in 1..Len(queue) /\ Tail(queue)[k] = queue[k + 1]
         /\ \A k \in 1..Len(Tail(queue)) : Head(queue) < Tail(queue)[k]
<1>1. queue \in Seq(Nat)
  BY DEF ServerTypes
<1>2. /\ Len(queue) \in Nat \ {0} /\ Head(queue) = queue[1]
      /\ Tail(queue) \in Seq(Nat) /\ Len(Tail(queue)) = Len(queue) - 1
      /\ \A k \in 1..Len(Tail(queue)) : Tail(queue)[k] = queue[k + 1]
  BY <1>1, HeadTailProperties, EmptySeq
<1>3. \A k \in 1..Len(Tail(queue)) : k + 1 \in 1..Len(queue)
  BY <1>2
<1>4. 1 \in 1..Len(queue) /\ \A k \in 1..Len(Tail(queue)) : 1 < k + 1
  BY <1>2
<1>5. QED
  BY <1>2, <1>3, <1>4 DEF QueueFits

\* The lines that are through, and those that are not.
LEMMA HandledIs ==
  ASSUME ServerTypes
  PROVE  /\ queue \in Seq(Nat) /\ DOMAIN queue = 1..Len(queue) /\ Len(queue) \in Nat
         /\ Handled = {n \in 1..received : n # current /\ \A k \in 1..Len(queue) : queue[k] # n}
<1>1. queue \in Seq(Nat)
  BY DEF ServerTypes
<1>2. DOMAIN queue = 1..Len(queue) /\ Len(queue) \in Nat
  BY <1>1, LenProperties
<1>3. QED
  BY <1>1, <1>2 DEF Handled

\* Where lines and answers stay as they are, so does what is said of them.
LEMMA SameLines ==
  ASSUME SInv, UNCHANGED <<input, received, queue, current, answers, rejected>>
  PROVE  Handled' = Handled /\ QueueFits' /\ AnswersFit' /\ AnsweredInOrder'
<1>1. Handled' = Handled
  BY DEF Handled
<1>2. QueueFits' /\ AnswersFit'
  BY <1>1 DEF SInv, QueueFits, AnswersFit
<1>3. AnsweredInOrder'
  BY <1>1 DEF SInv, AnsweredInOrder
<1>4. QED
  BY <1>1, <1>2, <1>3

\* An idle mediator does nothing that the server looks at.
LEMMA IdleMediator ==
  ASSUME MInv, stage = "idle",
         (\E timeout : MediatorRuns(timeout)) \/ CommandDoes
  PROVE  UNCHANGED <<stage, result>>
<1>1. CASE \E timeout : MediatorRuns(timeout)
  BY <1>1
     DEF MediatorRuns, SpawnFails, Spawns, Drain, ChildTerminated, TimeoutFires, TimeoutRefused,
         GraceExpires, ExitSeen
<1>2. CASE CommandDoes
  BY <1>2 DEF CommandDoes, ChildWrites, ChildExits, ChildCrashes
<1>3. QED
  BY <1>1, <1>2

\* A result's code, if it has one, is the child's.
LEMMA ResultCode ==
  ASSUME MInv, result.done
  PROVE  /\ result.exit_code \in ExitCodes \cup {NoCode}
         /\ result.exit_code # NoCode => child.code = result.exit_code
<1>1. CASE child.refused
  BY <1>1 DEF MInv, RefusalFits
<1>2. CASE ~child.refused
  BY <1>2 DEF MInv, ResultFits, MediatorTypeOK
<1>3. QED
  BY <1>1, <1>2

-----------------------------------------------------------------------------
(* Every step keeps the invariant *)

\* The initial states satisfy it.
LEMMA SInvInit == Init => SInv
<1> SUFFICES ASSUME Init PROVE SInv
  OBVIOUS
<1>1. MInv
  BY MInvInit DEF Init
<1>2. Handled = {}
  BY DEF Init, Handled
<1>3. ServerTypes
  BY <1>2, LinesAssumption DEF Init, ServerTypes, NoAnswer
<1>4. PcFits /\ QueueFits /\ AnswersFit /\ RanFits /\ DecidedFits /\ OnlyDecidedRuns
  BY <1>2 DEF Init, MediatorInit, PcFits, QueueFits, AnswersFit, RanFits, DecidedFits, OnlyDecidedRuns
<1>5. AnsweredInOrder /\ AnswerTellsOutcome
  BY <1>2 DEF Init, AnsweredInOrder, AnswerTellsOutcome
<1>6. QED
  BY <1>1, <1>3, <1>4, <1>5 DEF SInv

\* The mediator and the command work.
LEMMA MediatorKeeps ==
  ASSUME SInv, MInv', UNCHANGED serverVars,
         (\E timeout : MediatorRuns(timeout)) \/ CommandDoes
  PROVE  SInv'
<1>1. Handled' = Handled /\ QueueFits' /\ AnswersFit' /\ AnsweredInOrder'
  BY SameLines DEF serverVars
<1>2. ServerTypes'
  BY <1>1 DEF SInv, ServerTypes, serverVars
<1>3. pc # "mediating" => UNCHANGED <<stage, result>>
  BY IdleMediator DEF SInv, PcFits
<1>4. PcFits' /\ RanFits'
  BY <1>1, <1>3 DEF SInv, PcFits, RanFits, Told, serverVars
<1>5. DecidedFits' /\ OnlyDecidedRuns' /\ AnswerTellsOutcome'
  BY DEF SInv, DecidedFits, OnlyDecidedRuns, Decided, IntentOf, AnswerTellsOutcome, serverVars
<1>6. QED
  BY <1>1, <1>2, <1>4, <1>5 DEF SInv

\* Input ends; the server exits.
LEMMA StopKeeps ==
  ASSUME SInv, MInv', CloseStdin \/ Exit
  PROVE  SInv'
<1>1. UNCHANGED <<config, input, received, queue, current, approval, answers, rejected, ran, medVars>>
  BY DEF CloseStdin, Exit
<1>2. Handled' = Handled /\ QueueFits' /\ AnswersFit' /\ AnsweredInOrder'
  BY <1>1, SameLines
<1>3. ServerTypes' /\ PcFits'
  BY <1>1, <1>2 DEF SInv, ServerTypes, PcFits, CloseStdin, Exit, medVars
<1>4. RanFits' /\ DecidedFits' /\ OnlyDecidedRuns' /\ AnswerTellsOutcome'
  BY <1>1, <1>2 DEF SInv, RanFits, Told, DecidedFits, OnlyDecidedRuns, Decided, IntentOf,
     AnswerTellsOutcome, CloseStdin, Exit, medVars
<1>5. QED
  BY <1>2, <1>3, <1>4 DEF SInv

\* A command is handed to the mediator, and comes back.
LEMMA MediateKeeps ==
  ASSUME SInv, MInv', Mediate \/ MediateReturns
  PROVE  SInv'
<1>1. /\ pc \in {"exec", "mediating"} /\ pc' \in {"mediating", "recording"}
      /\ UNCHANGED <<config, input, received, stdin, queue, current, approval, answers, rejected>>
  BY DEF Mediate, MediateReturns
<1>2. Handled' = Handled /\ QueueFits' /\ AnswersFit' /\ AnsweredInOrder'
  BY <1>1, SameLines
<1>3. ServerTypes'
  BY <1>1, <1>2 DEF SInv, ServerTypes
<1>4. CASE Mediate
  <2>1. PcFits' /\ RanFits'
    BY <1>2, <1>4 DEF SInv, PcFits, RanFits, Told, Mediate
  <2>2. Decided(current, approval)
    BY <1>4 DEF SInv, PcFits, Mediate, Decided, Decision, NoPolicyProceed
  <2>3. DecidedFits' /\ OnlyDecidedRuns'
    BY <1>4, <2>2 DEF SInv, DecidedFits, OnlyDecidedRuns, Decided, IntentOf, Mediate
  <2>4. AnswerTellsOutcome'
    BY <1>4 DEF SInv, AnswerTellsOutcome, Mediate
  <2>5. QED
    BY <1>2, <1>3, <2>1, <2>3, <2>4 DEF SInv
<1>5. CASE MediateReturns
  <2> DEFINE it == [line |-> current, state |-> child.state, code |-> child.code,
                    approval |-> approval]
  <2>1. /\ pc = "mediating" /\ pc' = "recording" /\ result.done /\ ran' = ran \cup {it}
        /\ UNCHANGED medVars
    BY <1>5 DEF MediateReturns
  <2>2. it.line = current /\ it.code = child.code /\ it.approval = approval
    OBVIOUS
  <2> HIDE DEF it
  <2>3. stage = "idle"
    BY <2>1 DEF SInv, MInv, StageFits
  <2>4. PcFits'
    BY <1>1, <2>1, <2>3 DEF SInv, PcFits, medVars
  <2>5. RanFits'
    <3>1. Told(it)
      BY <2>1, <2>2, ResultCode DEF SInv, Told
    <3>2. QED
      BY <1>1, <1>2, <2>1, <2>2, <3>1 DEF SInv, RanFits, Told, medVars
  <2>6. DecidedFits' /\ OnlyDecidedRuns'
    BY <1>1, <2>1, <2>2 DEF SInv, DecidedFits, OnlyDecidedRuns, Decided, IntentOf
  <2>7. current \notin Handled
    BY DEF Handled
  <2>8. AnswerTellsOutcome'
    <3>1. \A k \in DOMAIN answers : answers[k].line # current
      <4>1. answers \in Seq(Replies)
        BY DEF SInv, ServerTypes
      <4>2. DOMAIN answers = 1..Len(answers)
        BY <4>1, LenProperties
      <4>3. QED
        BY <2>7, <4>2 DEF SInv, AnswersFit
    <3>2. QED
      BY <1>1, <2>1, <2>2, <3>1 DEF SInv, AnswerTellsOutcome
  <2>9. QED
    BY <1>2, <1>3, <2>4, <2>5, <2>6, <2>8 DEF SInv
<1>6. QED
  BY <1>4, <1>5

\* Answers are a sequence, and an answer to what was not answered comes last.
LEMMA AnswersAre ==
  ASSUME SInv
  PROVE  answers \in Seq(Replies) /\ DOMAIN answers = 1..Len(answers) /\ Len(answers) \in Nat
<1>1. answers \in Seq(Replies)
  BY DEF SInv, ServerTypes
<1>2. QED
  BY <1>1, LenProperties

\* An answer to the next line that is through keeps the order.
LEMMA AnswerKeepsOrder ==
  ASSUME SInv, NEW a \in Replies, a.line \notin Handled, input[a.line].kind \notin Silent,
         \A k \in 1..Len(answers) : answers[k].line < a.line,
         answers' = Append(answers, a), Handled' = Handled \cup {a.line},
         UNCHANGED <<input, rejected>>
  PROVE  /\ answers' \in Seq(Replies) /\ DOMAIN answers' = 1..Len(answers')
         /\ Len(answers') = Len(answers) + 1 /\ answers'[Len(answers')] = a
         /\ \A k \in 1..Len(answers) : answers'[k] = answers[k]
         /\ AnsweredInOrder'
<1>1. answers \in Seq(Replies) /\ DOMAIN answers = 1..Len(answers) /\ Len(answers) \in Nat
  BY AnswersAre
<1>2. /\ answers' \in Seq(Replies) /\ Len(answers') = Len(answers) + 1
      /\ answers'[Len(answers')] = a
      /\ \A k \in 1..Len(answers) : answers'[k] = answers[k]
  BY <1>1, AppendProperties
<1>3. DOMAIN answers' = 1..Len(answers')
  BY <1>2, LenProperties
<1>4. \A j, k \in DOMAIN answers' : j < k => answers'[j].line < answers'[k].line
  <2> SUFFICES ASSUME NEW j \in 1..Len(answers'), NEW k \in 1..Len(answers'), j < k
               PROVE  answers'[j].line < answers'[k].line
    BY <1>3
  <2>1. j \in 1..Len(answers)
    BY <1>1, <1>2
  <2>2. CASE k \in 1..Len(answers)
    BY <1>1, <1>2, <2>1, <2>2 DEF SInv, AnsweredInOrder
  <2>3. CASE k = Len(answers')
    BY <1>2, <2>1, <2>3
  <2>4. QED
    BY <1>1, <1>2, <2>2, <2>3
<1>5. ASSUME NEW n \in Handled'
      PROVE  (\E k \in DOMAIN answers' : answers'[k].line = n)
               <=> input'[n].kind \notin Silent /\ n \notin rejected'
  <2>1. CASE n = a.line
    <3>1. Len(answers') \in DOMAIN answers' /\ answers'[Len(answers')].line = n
      BY <1>1, <1>2, <1>3, <2>1
    <3>2. n \notin rejected
      BY <2>1 DEF SInv, ServerTypes
    <3>3. QED
      BY <2>1, <3>1, <3>2
  <2>2. CASE n # a.line
    <3>1. n \in Handled
      BY <1>5, <2>2
    <3>2. (\E k \in 1..Len(answers) : answers[k].line = n)
            <=> input[n].kind \notin Silent /\ n \notin rejected
      BY <1>1, <3>1 DEF SInv, AnsweredInOrder
    <3>3. \A k \in 1..Len(answers') : k \in 1..Len(answers) \/ k = Len(answers')
      BY <1>1, <1>2
    <3>4. \A k \in 1..Len(answers) : k \in 1..Len(answers')
      BY <1>1, <1>2
    <3>5. (\E k \in 1..Len(answers') : answers'[k].line = n)
            <=> (\E k \in 1..Len(answers) : answers[k].line = n)
      BY <1>2, <2>2, <3>3, <3>4
    <3>6. QED
      BY <1>3, <3>2, <3>5
  <2>3. QED
    BY <2>1, <2>2
<1>6. QED
  BY <1>2, <1>3, <1>4, <1>5 DEF AnsweredInOrder

\* So does passing over a line that takes no answer, or whose handler threw.
LEMMA SilenceKeepsOrder ==
  ASSUME SInv, NEW n, n \notin Handled, Handled' = Handled \cup {n},
         UNCHANGED <<input, answers>>,
         \/ input[n].kind \in Silent /\ rejected' = rejected
         \/ rejected' = rejected \cup {n}
  PROVE  AnsweredInOrder'
<1>1. \A k \in DOMAIN answers : answers[k].line # n
  BY AnswersAre DEF SInv, AnswersFit
<1>2. \A l \in Handled : l \in rejected' <=> l \in rejected
  OBVIOUS
<1>3. QED
  BY <1>1, <1>2 DEF SInv, AnsweredInOrder

\* A line is read.
LEMMA ReadLineKeeps ==
  ASSUME SInv, MInv', ReadLine
  PROVE  SInv'
<1> DEFINE new == received + 1
<1>1. /\ stdin = "open" /\ received < MaxLines /\ received' = new
      /\ queue' = IF input[new].kind = "blank" THEN queue ELSE Append(queue, new)
      /\ UNCHANGED <<config, input, stdin, current, pc, approval, answers, rejected, ran, medVars>>
  BY DEF ReadLine
<1>2. /\ queue \in Seq(Nat) /\ DOMAIN queue = 1..Len(queue) /\ Len(queue) \in Nat
      /\ Handled = {n \in 1..received : n # current /\ \A k \in 1..Len(queue) : queue[k] # n}
  BY HandledIs DEF SInv
<1>3. received \in Nat /\ new \in Nat /\ current \in 0..received /\ MaxLines \in Nat
  BY LinesAssumption DEF SInv, ServerTypes
<1>4. /\ queue' \in Seq(Nat) /\ DOMAIN queue' = 1..Len(queue') /\ Len(queue') \in Nat
      /\ \A k \in 1..Len(queue) : k \in 1..Len(queue') /\ queue'[k] = queue[k]
      /\ \A k \in 1..Len(queue') :
           \/ k \in 1..Len(queue)
           \/ k = Len(queue) + 1 /\ queue'[k] = new /\ input[new].kind # "blank"
      /\ input[new].kind # "blank" => \E k \in 1..Len(queue') : queue'[k] = new
  <2>1. CASE input[new].kind = "blank"
    BY <1>1, <1>2, <2>1
  <2>2. CASE input[new].kind # "blank"
    <3>1. queue' = Append(queue, new)
      BY <1>1, <2>2
    <3>2. /\ queue' \in Seq(Nat) /\ Len(queue') = Len(queue) + 1
          /\ \A k \in 1..Len(queue) : queue'[k] = queue[k]
          /\ queue'[Len(queue) + 1] = new
      BY <1>2, <1>3, <3>1, AppendProperties
    <3>3. DOMAIN queue' = 1..Len(queue')
      BY <3>2, LenProperties
    <3>4. QED
      BY <1>2, <2>2, <3>2, <3>3
  <2>3. QED
    BY <2>1, <2>2
<1> HIDE DEF new
<1>5. new > received /\ new \in 1..received' /\ \A n \in 1..received' : n \in 1..received \/ n = new
  BY <1>1, <1>3 DEF new
<1>6. \A k \in 1..Len(queue) : queue[k] \in (current + 1)..received
  BY DEF SInv, QueueFits
<1>7. Handled' = IF input[new].kind = "blank" THEN Handled \cup {new} ELSE Handled
  <2>1. Handled' = {n \in 1..received' : n # current /\ \A k \in 1..Len(queue') : queue'[k] # n}
    BY <1>1, <1>4 DEF Handled
  <2>2. \A n \in 1..received : (\A k \in 1..Len(queue') : queue'[k] # n)
                                 <=> (\A k \in 1..Len(queue) : queue[k] # n)
    BY <1>3, <1>4, <1>5
  <2>3. new # current /\ \A k \in 1..Len(queue) : queue[k] # new
    BY <1>3, <1>5, <1>6
  <2>4. input[new].kind = "blank" => \A k \in 1..Len(queue') : queue'[k] # new
    BY <1>4, <2>3
  <2>5. \A n \in 1..received : n \in 1..received' /\ n # new
    BY <1>1, <1>3, <1>5 DEF new
  <2>6. ASSUME NEW n \in 1..received
        PROVE  n \in Handled' <=> n \in Handled
    BY <1>2, <2>1, <2>2, <2>5
  <2>7. new \in Handled' <=> input[new].kind = "blank"
    <3>1. CASE input[new].kind = "blank"
      BY <1>5, <2>1, <2>3, <2>4, <3>1
    <3>2. CASE input[new].kind # "blank"
      BY <1>4, <2>1, <3>2
    <3>3. QED
      BY <3>1, <3>2
  <2>8. Handled \subseteq 1..received /\ Handled' \subseteq 1..received'
    BY <1>2, <2>1
  <2>9. \A n \in Handled' : n \in 1..received \/ n = new
    BY <1>5, <2>8
  <2>10. \A n \in Handled : n \in 1..received /\ n # new
    BY <2>5, <2>8
  <2>11. CASE input[new].kind = "blank"
    <3>1. \A n : n \in Handled' <=> n \in Handled \/ n = new
      BY <2>6, <2>7, <2>9, <2>10, <2>11
    <3>2. QED
      BY <2>11, <3>1
  <2>12. CASE input[new].kind # "blank"
    <3>1. \A n : n \in Handled' <=> n \in Handled
      BY <2>6, <2>7, <2>9, <2>10, <2>12
    <3>2. QED
      BY <2>12, <3>1
  <2>13. QED
    BY <2>11, <2>12
<1>8. new \notin Handled /\ Handled \subseteq Handled'
  <2>1. new \notin 1..received
    BY <1>3, <1>5
  <2>2. QED
    BY <1>2, <1>7, <2>1
<1>9. AnsweredInOrder'
  <2>1. CASE input[new].kind = "blank"
    BY <1>1, <1>7, <1>8, <2>1, SilenceKeepsOrder DEF Silent
  <2>2. CASE input[new].kind # "blank"
    BY <1>1, <1>7, <2>2 DEF SInv, AnsweredInOrder
  <2>3. QED
    BY <2>1, <2>2
<1>10. ServerTypes'
  <2>1. received' \in 0..MaxLines /\ current' \in 0..received'
    BY <1>1, <1>3 DEF new
  <2>2. QED
    BY <1>1, <1>4, <1>8, <2>1 DEF SInv, ServerTypes
<1>11. QueueFits'
  <2>1. \A k \in 1..Len(queue') : queue'[k] \in (current' + 1)..received'
    <3> SUFFICES ASSUME NEW k \in 1..Len(queue') PROVE queue'[k] \in (current + 1)..received'
      BY <1>1
    <3>1. CASE k \in 1..Len(queue)
      BY <1>1, <1>3, <1>4, <1>6, <3>1 DEF new
    <3>2. CASE k = Len(queue) + 1 /\ queue'[k] = new
      BY <1>1, <1>3, <3>2 DEF new
    <3>3. QED
      BY <1>4, <3>1, <3>2
  <2>2. \A j, k \in 1..Len(queue') : j < k => queue'[j] < queue'[k]
    <3> SUFFICES ASSUME NEW j \in 1..Len(queue'), NEW k \in 1..Len(queue'), j < k
                 PROVE  queue'[j] < queue'[k]
      OBVIOUS
    <3>1. j \in 1..Len(queue)
      BY <1>2, <1>4
    <3>2. CASE k \in 1..Len(queue)
      BY <1>4, <3>1, <3>2 DEF SInv, QueueFits
    <3>3. CASE queue'[k] = new
      BY <1>3, <1>4, <1>5, <1>6, <3>1, <3>3
    <3>4. QED
      BY <1>4, <3>2, <3>3
  <2>3. QED
    BY <2>1, <2>2 DEF QueueFits
<1>12. AnswersFit'
  <2> SUFFICES ASSUME NEW i \in 1..Len(answers)
               PROVE  /\ answers[i].line \in Handled'
                      /\ current # 0 => answers[i].line < current
                      /\ \A k \in 1..Len(queue') : answers[i].line < queue'[k]
    BY <1>1 DEF AnswersFit
  <2>1. /\ answers[i].line \in Handled
        /\ current # 0 => answers[i].line < current
        /\ \A k \in 1..Len(queue) : answers[i].line < queue[k]
    BY DEF SInv, AnswersFit
  <2>2. answers[i].line \in Nat /\ answers[i].line < new
    BY <1>2, <1>3, <1>5, <2>1
  <2>3. QED
    BY <1>4, <1>8, <2>1, <2>2
<1>13. PcFits' /\ RanFits' /\ DecidedFits' /\ OnlyDecidedRuns' /\ AnswerTellsOutcome'
  BY <1>1, <1>8 DEF SInv, PcFits, RanFits, Told, DecidedFits, OnlyDecidedRuns, Decided, IntentOf,
     AnswerTellsOutcome, medVars
<1>14. QED
  BY <1>9, <1>10, <1>11, <1>12, <1>13 DEF SInv

\* The first line that waits is taken off the queue.
LEMMA QueueTaken ==
  ASSUME SInv, pc = "idle", queue # <<>>, queue' = Tail(queue), NEW line, line = Head(queue),
         UNCHANGED <<input, received>>
  PROVE  /\ line \in 1..received /\ line \notin Handled /\ current = 0
         /\ current' = 0 => Handled' = Handled \cup {line}
         /\ current' = line => Handled' = Handled
         /\ current' \in {0, line} => QueueFits'
         /\ queue' \in Seq(Nat)
         /\ \A k \in 1..Len(answers) : answers[k].line < line
         /\ \A k \in 1..Len(queue') : line < queue'[k]
         /\ \A i \in 1..Len(answers), k \in 1..Len(queue') : answers[i].line < queue'[k]
<1>1. /\ queue \in Seq(Nat) /\ DOMAIN queue = 1..Len(queue) /\ Len(queue) \in Nat
      /\ Handled = {n \in 1..received : n # current /\ \A k \in 1..Len(queue) : queue[k] # n}
  BY HandledIs DEF SInv
<1>2. current = 0 /\ received \in Nat
  BY DEF SInv, ServerTypes
<1>3. /\ Len(queue) \in Nat \ {0} /\ line = queue[1] /\ line \in 1..received
      /\ queue' \in Seq(Nat) /\ Len(queue') = Len(queue) - 1
      /\ \A k \in 1..Len(queue') : k + 1 \in 1..Len(queue) /\ queue'[k] = queue[k + 1]
      /\ \A k \in 1..Len(queue') : line < queue'[k]
  BY <1>2, QueueHead DEF SInv
<1>4. DOMAIN queue' = 1..Len(queue')
  BY <1>3, LenProperties
<1>5. \A n \in 1..received :
        (\A k \in 1..Len(queue) : queue[k] # n)
          <=> n # line /\ \A k \in 1..Len(queue') : queue'[k] # n
  <2>1. \A k \in 1..Len(queue) : k = 1 \/ (k - 1 \in 1..Len(queue') /\ queue[k] = queue'[k - 1])
    BY <1>3
  <2>2. 1 \in 1..Len(queue)
    BY <1>3
  <2>3. QED
    BY <1>3, <2>1, <2>2
<1>6. Handled' = {n \in 1..received : n # current' /\ \A k \in 1..Len(queue') : queue'[k] # n}
  BY <1>4 DEF Handled
<1>7. \A k \in 1..Len(queue') : queue'[k] # line
  BY <1>3
<1>8. line \notin Handled
  BY <1>1, <1>5
<1>9. current' = 0 => Handled' = Handled \cup {line}
  <2> SUFFICES ASSUME current' = 0, NEW n PROVE n \in Handled' <=> n \in Handled \/ n = line
    OBVIOUS
  <2>1. CASE n = line
    BY <1>3, <1>6, <1>7, <2>1
  <2>2. CASE n # line
    BY <1>1, <1>2, <1>5, <1>6, <2>2
  <2>3. QED
    BY <2>1, <2>2
<1>10. current' = line => Handled' = Handled
  <2> SUFFICES ASSUME current' = line, NEW n PROVE n \in Handled' <=> n \in Handled
    OBVIOUS
  <2>1. n \in Handled <=> n \in 1..received /\ n # 0 /\ \A k \in 1..Len(queue) : queue[k] # n
    BY <1>1, <1>2
  <2>2. n \in Handled' <=> n \in 1..received /\ n # line /\ \A k \in 1..Len(queue') : queue'[k] # n
    BY <1>6
  <2>3. n \in 1..received => n # 0
    BY <1>2
  <2>4. QED
    BY <1>5, <2>1, <2>2, <2>3, Zenon
<1>11. /\ \A k \in 1..Len(queue) : queue[k] \in 1..received
       /\ \A j, k \in 1..Len(queue) : j < k => queue[j] < queue[k]
  BY <1>2 DEF SInv, QueueFits
<1>12. current' \in {0, line} => QueueFits'
  <2> SUFFICES ASSUME current' \in {0, line} PROVE QueueFits'
    OBVIOUS
  <2>1. \A k \in 1..Len(queue') : queue'[k] \in (current' + 1)..received
    BY <1>3, <1>11
  <2>2. \A j, k \in 1..Len(queue') : j < k => j + 1 < k + 1
    BY <1>3
  <2>3. \A j, k \in 1..Len(queue') : j < k => queue'[j] < queue'[k]
    BY <1>3, <1>11, <2>2
  <2>4. QED
    BY <2>1, <2>3 DEF QueueFits
<1>13. 1 \in 1..Len(queue)
  BY <1>3
<1>14. \A k \in 1..Len(answers) : answers[k].line < line
  BY <1>3, <1>13 DEF SInv, AnswersFit
<1>15. \A i \in 1..Len(answers), k \in 1..Len(queue') : answers[i].line < queue'[k]
  BY <1>3 DEF SInv, AnswersFit
<1>16. QED
  BY <1>2, <1>3, <1>8, <1>9, <1>10, <1>12, <1>14, <1>15, Zenon

\* A line that is no tool call is answered or passed over.
LEMMA HandleMessageKeeps ==
  ASSUME SInv, MInv', HandleMessage
  PROVE  SInv'
<1> DEFINE line == Head(queue)
           kind == input[line].kind
           a == Answer(line, ErrorCode(kind), FALSE, FALSE)
<1>1. /\ pc = "idle" /\ queue # <<>> /\ kind # "call" /\ queue' = Tail(queue)
      /\ answers' = IF kind \in Silent THEN answers ELSE Append(answers, a)
      /\ UNCHANGED <<config, input, received, stdin, current, pc, approval, rejected, ran, medVars>>
  BY DEF HandleMessage
<1>2. /\ line \in 1..received /\ line \notin Handled /\ current = 0 /\ received \in Nat
      /\ Handled' = Handled \cup {line} /\ QueueFits' /\ queue' \in Seq(Nat)
      /\ \A k \in 1..Len(answers) : answers[k].line < line
      /\ \A k \in 1..Len(queue') : line < queue'[k]
      /\ \A i \in 1..Len(answers), k \in 1..Len(queue') : answers[i].line < queue'[k]
  <2>1. current = 0 /\ received \in Nat
    BY <1>1 DEF SInv, ServerTypes
  <2>2. /\ line \in 1..received /\ line \notin Handled
        /\ current' = 0 => Handled' = Handled \cup {line}
        /\ current' \in {0, line} => QueueFits'
        /\ queue' \in Seq(Nat)
        /\ \A k \in 1..Len(answers) : answers[k].line < line
        /\ \A k \in 1..Len(queue') : line < queue'[k]
        /\ \A i \in 1..Len(answers), k \in 1..Len(queue') : answers[i].line < queue'[k]
    BY <1>1, QueueTaken
  <2>3. current' = 0
    BY <1>1, <2>1
  <2>4. QED
    BY <2>1, <2>2, <2>3, Zenon
<1>3. a \in Replies /\ a.line = line
  <2>1. ErrorCode(kind) \in Int
    BY DEF ErrorCode, ParseError, InvalidRequest, MethodNotFound, InvalidParams
  <2>2. QED
    BY <1>2, <2>1 DEF Answer, Replies
<1> HIDE DEF line, a, kind
<1>4. /\ answers' \in Seq(Replies) /\ DOMAIN answers' = 1..Len(answers') /\ AnsweredInOrder'
      /\ \A k \in 1..Len(answers') :
           \/ k \in 1..Len(answers) /\ answers'[k] = answers[k]
           \/ answers'[k].line = line
  <2>1. CASE kind \in Silent
    <3>1. AnsweredInOrder'
      BY <1>1, <1>2, <2>1, SilenceKeepsOrder DEF kind
    <3>2. QED
      BY <1>1, <2>1, <3>1, AnswersAre
  <2>2. CASE kind \notin Silent
    <3>1. answers' = Append(answers, a)
      BY <1>1, <2>2
    <3>2. /\ answers' \in Seq(Replies) /\ DOMAIN answers' = 1..Len(answers')
          /\ Len(answers') = Len(answers) + 1 /\ answers'[Len(answers')] = a
          /\ \A k \in 1..Len(answers) : answers'[k] = answers[k]
          /\ AnsweredInOrder'
      BY <1>1, <1>2, <1>3, <2>2, <3>1, AnswerKeepsOrder DEF kind
    <3>3. \A k \in 1..Len(answers') : k \in 1..Len(answers) \/ k = Len(answers')
      BY <3>2, AnswersAre
    <3>4. QED
      BY <1>3, <3>2, <3>3
  <2>3. QED
    BY <2>1, <2>2
<1>5. ServerTypes'
  BY <1>1, <1>2, <1>4 DEF SInv, ServerTypes
<1>6. AnswersFit'
  <2>1. line \in Nat
    BY <1>2
  <2>2. QED
    BY <1>1, <1>2, <1>4, <2>1 DEF SInv, AnswersFit
<1>7. AnswerTellsOutcome'
  BY <1>1, <1>4, AnswersAre DEF SInv, AnswerTellsOutcome, kind
<1>8. PcFits' /\ RanFits' /\ DecidedFits' /\ OnlyDecidedRuns'
  BY <1>1, <1>2 DEF SInv, PcFits, RanFits, Told, DecidedFits, OnlyDecidedRuns, Decided, IntentOf, medVars
<1>9. QED
  BY <1>2, <1>4, <1>5, <1>6, <1>7, <1>8 DEF SInv

\* A tool call is taken up.
LEMMA HandleToolsCallKeeps ==
  ASSUME SInv, MInv', HandleToolsCall
  PROVE  SInv'
<1> DEFINE line == Head(queue)
<1>1. /\ pc = "idle" /\ queue # <<>> /\ queue' = Tail(queue) /\ current' = line
      /\ input[line].kind = "call"
      /\ pc' = "exec" /\ approval' = NoAnswer
      /\ UNCHANGED <<config, input, received, stdin, answers, rejected, ran, medVars>>
  BY DEF HandleToolsCall
<1>2. /\ line \in 1..received /\ line \notin Handled /\ current = 0 /\ received \in Nat
      /\ Handled' = Handled /\ QueueFits' /\ queue' \in Seq(Nat)
      /\ \A k \in 1..Len(answers) : answers[k].line < line
      /\ \A i \in 1..Len(answers), k \in 1..Len(queue') : answers[i].line < queue'[k]
  <2>1. current = 0 /\ received \in Nat
    BY <1>1 DEF SInv, ServerTypes
  <2>2. /\ line \in 1..received /\ line \notin Handled
        /\ current' = line => Handled' = Handled
        /\ current' \in {0, line} => QueueFits'
        /\ queue' \in Seq(Nat)
        /\ \A k \in 1..Len(answers) : answers[k].line < line
        /\ \A i \in 1..Len(answers), k \in 1..Len(queue') : answers[i].line < queue'[k]
    BY <1>1, QueueTaken
  <2>3. current' = line
    BY <1>1
  <2>4. QED
    BY <2>1, <2>2, <2>3, Zenon
<1> HIDE DEF line
<1>3. ServerTypes'
  BY <1>1, <1>2 DEF SInv, ServerTypes
<1>4. AnswersFit' /\ AnsweredInOrder' /\ AnswerTellsOutcome'
  BY <1>1, <1>2 DEF SInv, AnswersFit, AnsweredInOrder, AnswerTellsOutcome
<1>5. PcFits' /\ RanFits' /\ DecidedFits' /\ OnlyDecidedRuns'
  BY <1>1, <1>2 DEF SInv, PcFits, RanFits, Told, DecidedFits, OnlyDecidedRuns, Decided, IntentOf, medVars
<1>6. QED
  BY <1>2, <1>3, <1>4, <1>5 DEF SInv

\* The line being handled is through.
LEMMA CurrentThrough ==
  ASSUME SInv, current # 0, current' = 0, UNCHANGED <<input, received, queue>>
  PROVE  /\ current \in 1..received /\ current \notin Handled
         /\ Handled' = Handled \cup {current} /\ QueueFits'
         /\ \A k \in 1..Len(queue) : current < queue[k]
<1>1. /\ queue \in Seq(Nat) /\ DOMAIN queue = 1..Len(queue) /\ Len(queue) \in Nat
      /\ Handled = {n \in 1..received : n # current /\ \A k \in 1..Len(queue) : queue[k] # n}
  BY HandledIs DEF SInv
<1>2. received \in Nat /\ current \in 1..received
  BY DEF SInv, ServerTypes
<1>3. \A k \in 1..Len(queue) : queue[k] \in (current + 1)..received
  BY DEF SInv, QueueFits
<1>4. \A k \in 1..Len(queue) : queue[k] # current /\ current < queue[k] /\ queue[k] \in 1..received
  BY <1>2, <1>3
<1>5. Handled' = {n \in 1..received : n # 0 /\ \A k \in 1..Len(queue) : queue[k] # n}
  BY <1>1 DEF Handled
<1>6. Handled' = Handled \cup {current}
  <2> SUFFICES ASSUME NEW n PROVE n \in Handled' <=> n \in Handled \/ n = current
    OBVIOUS
  <2>1. CASE n = current
    BY <1>2, <1>4, <1>5, <2>1
  <2>2. CASE n # current
    <3>1. n \in 1..received => n # 0
      OBVIOUS
    <3>2. QED
      BY <1>1, <1>5, <2>2, <3>1
  <2>3. QED
    BY <2>1, <2>2
<1>7. QueueFits'
  BY <1>4 DEF SInv, QueueFits
<1>8. QED
  BY <1>1, <1>2, <1>4, <1>6, <1>7

\* An exit code of runExec becomes the answer to the call.
LEMMA ReplyKeeps ==
  ASSUME SInv, MInv', pc \in {"exec", "recording"}, NEW code \in Int, Reply(code),
         UNCHANGED <<config, input, received, stdin, queue, rejected, ran>>,
         stage' = "idle", approval' \in {NoAnswer, "approved", "rejected", "timed_out"},
         code = 0 => \E r \in ran : r.line = current /\ r.code = 0,
         code = Denied => \A r \in ran : r.line = current => r.code = Denied,
         code # Denied => \E r \in ran : r.line = current
  PROVE  SInv'
<1> DEFINE a == Answer(current, 0, code # 0, code = Denied)
<1>1. answers' = Append(answers, a) /\ current' = 0 /\ pc' = "idle"
  BY DEF Reply
<1>2. current # 0 /\ current \in Nat
  BY DEF SInv, ServerTypes
<1>3. /\ current \in 1..received /\ current \notin Handled
      /\ Handled' = Handled \cup {current} /\ QueueFits'
      /\ \A k \in 1..Len(queue) : current < queue[k]
  BY <1>1, <1>2, CurrentThrough
<1>4. /\ a \in Replies /\ a.line = current
      /\ a.isError <=> code # 0
      /\ a.denied <=> code = Denied
  <2>1. PICK e \in BOOLEAN, d \in BOOLEAN : e = (code # 0) /\ d = (code = Denied)
    BY Zenon
  <2>2. a = [line |-> current, code |-> 0, isError |-> e, denied |-> d]
    BY <2>1, Zenon DEF Answer
  <2>3. a \in Replies /\ a.line = current /\ a.isError = e /\ a.denied = d
    BY <1>2, <2>2 DEF Replies
  <2>4. QED
    BY <2>1, <2>3, Zenon
<1> HIDE DEF a
<1>5. \A k \in 1..Len(answers) : answers[k].line < current
  BY <1>2 DEF SInv, AnswersFit
<1>6. input[a.line].kind \notin Silent
  BY <1>2, <1>4 DEF SInv, PcFits, Silent
<1>7. /\ answers' \in Seq(Replies) /\ DOMAIN answers' = 1..Len(answers')
      /\ Len(answers') = Len(answers) + 1 /\ answers'[Len(answers')] = a
      /\ \A k \in 1..Len(answers) : answers'[k] = answers[k]
      /\ AnsweredInOrder'
  BY <1>1, <1>3, <1>4, <1>5, <1>6, AnswerKeepsOrder
<1>8. \A k \in 1..Len(answers') :
        \/ k \in 1..Len(answers) /\ answers'[k] = answers[k]
        \/ answers'[k] = a
  <2>1. \A k \in 1..Len(answers') : k \in 1..Len(answers) \/ k = Len(answers')
    BY <1>7, AnswersAre
  <2>2. QED
    BY <1>7, <2>1
<1>9. ServerTypes'
  BY <1>1, <1>3, <1>7 DEF SInv, ServerTypes
<1>10. AnswersFit'
  BY <1>1, <1>3, <1>4, <1>8 DEF SInv, AnswersFit
<1>11. AnswerTellsOutcome'
  <2> SUFFICES ASSUME NEW k \in 1..Len(answers'), input[answers'[k].line].kind = "call"
               PROVE  /\ ~answers'[k].isError => \E r \in ran : r.line = answers'[k].line /\ r.code = 0
                      /\ answers'[k].denied =>
                           \A r \in ran : r.line = answers'[k].line => r.code = Denied
                      /\ ~answers'[k].denied => \E r \in ran : r.line = answers'[k].line
    BY <1>7 DEF AnswerTellsOutcome
  <2>1. CASE answers'[k] = a
    BY <1>4, <2>1
  <2>2. CASE k \in 1..Len(answers) /\ answers'[k] = answers[k]
    BY <2>2, AnswersAre DEF SInv, AnswerTellsOutcome
  <2>3. QED
    BY <1>8, <2>1, <2>2
<1>12. PcFits' /\ DecidedFits' /\ OnlyDecidedRuns'
  BY <1>1 DEF SInv, PcFits, DecidedFits, OnlyDecidedRuns, Decided, IntentOf
<1>13. RanFits'
  BY <1>1, <1>3 DEF SInv, RanFits
<1>14. QED
  BY <1>3, <1>7, <1>9, <1>10, <1>11, <1>12, <1>13 DEF SInv

\* A denial, and what the approval channel answers.
LEMMA DenyKeeps ==
  ASSUME SInv, MInv', Deny
  PROVE  SInv'
<1>1. /\ pc = "exec" /\ Reply(Denied)
      /\ UNCHANGED <<config, input, received, stdin, queue, approval, rejected, ran, medVars>>
  BY DEF Deny
<1>2. \A r \in ran : r.line # current
  BY <1>1 DEF SInv, RanFits, Handled
<1>3. stage' = "idle" /\ approval' \in {NoAnswer, "approved", "rejected", "timed_out"}
  BY <1>1 DEF SInv, PcFits, ServerTypes, medVars
<1>4. Denied \in Int /\ Denied # 0
  BY DEF Denied
<1>5. QED
  BY <1>1, <1>2, <1>3, <1>4, ReplyKeeps

\* An approval lets the call go on; anything else ends it.
LEMMA AskKeeps ==
  ASSUME SInv, MInv', NEW answer \in {"approved", "rejected", "timed_out"}, Ask(answer)
  PROVE  SInv'
<1>1. /\ pc = "exec" /\ approval' = answer
      /\ IF answer = "approved" THEN UNCHANGED <<answers, current, pc>> ELSE Reply(Denied)
      /\ UNCHANGED <<config, input, received, stdin, queue, rejected, ran, medVars>>
  BY DEF Ask, Approves
<1>2. CASE answer = "approved"
  <2>1. Handled' = Handled /\ QueueFits' /\ AnswersFit' /\ AnsweredInOrder'
    BY <1>1, <1>2, SameLines
  <2>2. ServerTypes' /\ PcFits'
    BY <1>1, <1>2, <2>1 DEF SInv, ServerTypes, PcFits, medVars
  <2>3. RanFits' /\ DecidedFits' /\ OnlyDecidedRuns' /\ AnswerTellsOutcome'
    BY <1>1, <1>2, <2>1 DEF SInv, RanFits, Told, DecidedFits, OnlyDecidedRuns, Decided, IntentOf,
       AnswerTellsOutcome
  <2>4. QED
    BY <2>1, <2>2, <2>3 DEF SInv
<1>3. CASE answer # "approved"
  <2>1. Reply(Denied)
    BY <1>1, <1>3
  <2>2. \A r \in ran : r.line # current
    BY <1>1 DEF SInv, RanFits, Handled
  <2>3. stage' = "idle" /\ approval' \in {NoAnswer, "approved", "rejected", "timed_out"}
    BY <1>1 DEF SInv, PcFits, medVars
  <2>4. Denied \in Int /\ Denied # 0
    BY DEF Denied
  <2>5. QED
    BY <1>1, <2>1, <2>2, <2>3, <2>4, ReplyKeeps
<1>4. QED
  BY <1>2, <1>3

\* The command has run; its exit code is the answer.
LEMMA CompleteKeeps ==
  ASSUME SInv, MInv', Complete
  PROVE  SInv'
<1>1. /\ pc = "recording" /\ Reply(ExitOf(result)) /\ stage' = "idle"
      /\ UNCHANGED <<config, input, received, stdin, queue, approval, rejected, ran>>
  BY DEF Complete, Forget
<1>2. result.done
  BY <1>1 DEF SInv, PcFits
<1>3. result.exit_code \in ExitCodes \cup {NoCode}
  BY <1>2, ResultCode DEF SInv
<1>4. /\ result.exit_code = NoCode => ExitOf(result) = 1
      /\ result.exit_code # NoCode => ExitOf(result) = result.exit_code
  BY DEF ExitOf
<1>5. ExitOf(result) \in Int
  <2>1. result.exit_code # NoCode => result.exit_code \in 0..255
    BY <1>3, CodesAssumption
  <2>2. QED
    BY <1>4, <2>1
<1>6. /\ \A r \in ran : r.line = current => Told(r)
      /\ \E r \in ran : r.line = current /\ Told(r)
  BY <1>1 DEF SInv, RanFits, Handled
<1>7. ExitOf(result) = 0 => \E r \in ran : r.line = current /\ r.code = 0
  BY <1>4, <1>6 DEF Told
<1>8. ExitOf(result) = Denied => \A r \in ran : r.line = current => r.code = Denied
  BY <1>4, <1>6 DEF Denied, Told
<1>9. approval' \in {NoAnswer, "approved", "rejected", "timed_out"}
  BY <1>1 DEF SInv, ServerTypes
<1>10. QED
  BY <1>1, <1>5, <1>6, <1>7, <1>8, <1>9, ReplyKeeps

\* The handler throws: the line is through without an answer.
LEMMA HandlerThrowsKeeps ==
  ASSUME SInv, MInv', HandlerThrows
  PROVE  SInv'
<1>1. /\ pc \in {"exec", "recording"} /\ rejected' = rejected \cup {current}
      /\ pc' = "idle" /\ current' = 0 /\ stage' = "idle"
      /\ UNCHANGED <<config, input, received, stdin, queue, approval, answers, ran>>
  BY DEF HandlerThrows, Forget
<1>2. current # 0
  BY <1>1 DEF SInv, ServerTypes
<1>3. /\ current \in 1..received /\ current \notin Handled
      /\ Handled' = Handled \cup {current} /\ QueueFits'
  BY <1>1, <1>2, CurrentThrough
<1>4. AnsweredInOrder'
  BY <1>1, <1>3, SilenceKeepsOrder
<1>5. ServerTypes' /\ PcFits'
  BY <1>1, <1>3 DEF SInv, ServerTypes, PcFits
<1>6. AnswersFit' /\ RanFits' /\ AnswerTellsOutcome'
  BY <1>1, <1>3 DEF SInv, AnswersFit, RanFits, AnswerTellsOutcome
<1>7. DecidedFits' /\ OnlyDecidedRuns'
  BY <1>1 DEF SInv, DecidedFits, OnlyDecidedRuns, Decided, IntentOf
<1>8. QED
  BY <1>3, <1>4, <1>5, <1>6, <1>7 DEF SInv

\* So every step keeps the invariant.
LEMMA SInvStep == SInv /\ [Next]_vars => SInv'
<1> SUFFICES ASSUME SInv, [Next]_vars PROVE SInv'
  OBVIOUS
<1>1. MInv'
  BY ServerMediatesStep, MInvStep DEF SInv
<1>2. CASE UNCHANGED vars
  <2>1. Handled' = Handled /\ QueueFits' /\ AnswersFit' /\ AnsweredInOrder'
    BY <1>2, SameLines DEF vars, serverVars
  <2>2. ServerTypes' /\ PcFits'
    BY <1>2, <2>1 DEF vars, serverVars, medVars, SInv, ServerTypes, PcFits
  <2>3. RanFits' /\ AnswerTellsOutcome'
    BY <1>2, <2>1 DEF vars, serverVars, medVars, SInv, RanFits, Told, AnswerTellsOutcome
  <2>4. DecidedFits' /\ OnlyDecidedRuns'
    BY <1>2 DEF vars, serverVars, SInv, DecidedFits, OnlyDecidedRuns, Decided, IntentOf
  <2>5. QED
    BY <1>1, <2>1, <2>2, <2>3, <2>4 DEF SInv
<1>3. CASE HandleMessage \/ HandleToolsCall \/ Deny \/ Mediate \/ MediateReturns \/ Complete
           \/ Exit \/ CloseStdin \/ ReadLine \/ HandlerThrows
  BY <1>1, <1>3, HandleMessageKeeps, HandleToolsCallKeeps, DenyKeeps, MediateKeeps, CompleteKeeps,
     StopKeeps, ReadLineKeeps, HandlerThrowsKeeps
<1>4. CASE \E answer \in {"approved", "rejected", "timed_out"} : Ask(answer)
  BY <1>1, <1>4, AskKeeps
<1>5. CASE ((\E timeout : MediatorRuns(timeout)) \/ CommandDoes) /\ UNCHANGED serverVars
  BY <1>1, <1>5, MediatorKeeps
<1>6. QED
  BY <1>2, <1>3, <1>4, <1>5 DEF Next, Runs, World, Handle

-----------------------------------------------------------------------------
(* The theorems *)

\* The invariant holds throughout.
THEOREM Invariance == Spec => []SInv
<1>1. SInv /\ [Next]_vars => SInv'
  BY SInvStep
<1>2. QED
  BY <1>1, SInvInit, PTL DEF Spec

\* The server uses the mediator as the mediator is specified, so all that is
\* proved of mediateShell holds in the server (mediateMcpShell, runExec).
THEOREM ServerMediates == Spec => MediatorSpec
<1>1. Init => MediatorInit
  BY DEF Init
<1>2. [Next]_vars => [MediatorNext]_medVars
  BY ServerMediatesStep
<1>3. QED
  BY <1>1, <1>2, PTL DEF Spec, MediatorSpec

\* Types: the lines that wait came after the one that is handled.
THEOREM TypeCorrect == Spec => []TypeOK
<1>1. SInv => TypeOK
  <2> SUFFICES ASSUME SInv PROVE TypeOK
    OBVIOUS
  <2>1. rejected \subseteq 1..MaxLines
    BY LinesAssumption DEF SInv, ServerTypes, Handled
  <2>2. \A k \in DOMAIN queue : queue[k] \in (current + 1)..received
    BY HandledIs DEF SInv, QueueFits
  <2>3. QED
    BY <2>1, <2>2 DEF SInv, MInv, ServerTypes, TypeOK
<1>2. QED
  BY <1>1, Invariance, PTL

\* Requests are answered once and in the order they came, notifications never,
\* however reading, handling and the mediator interleave (startMcpServer).
THEOREM AnswersComeInOrder == Spec => []AnsweredInOrder
<1>1. SInv => AnsweredInOrder
  BY DEF SInv
<1>2. QED
  BY <1>1, Invariance, PTL

\* An answer without an error means the command ran and exited with 0, and one
\* that says denied that it did not run, or exited with that very code
\* (handleToolsCall, mediateMcpShell, runExec).
THEOREM AnswersAreTrue == Spec => []AnswerTellsOutcome
<1>1. SInv => AnswerTellsOutcome
  BY DEF SInv
<1>2. QED
  BY <1>1, Invariance, PTL

\* Whatever engine is asked, and however approvals, failures and timeouts
\* interleave with it: in Gate mode nothing runs that was not decided so
\* (runExec, applyConstraint, obtainApproval).
THEOREM GateRunsOnlyDecided == Spec => []OnlyDecidedRuns
<1>1. SInv => OnlyDecidedRuns
  BY DEF SInv
<1>2. QED
  BY <1>1, Invariance, PTL

\* A server that has exited has dealt with all it read, and a command it leaves
\* running is one that its timeout could not signal (startMcpServer).
THEOREM ExitsAreClean == Spec => []ExitLeavesNothing
<1>1. SInv => ExitLeavesNothing
  <2> SUFFICES ASSUME SInv, pc = "exited" PROVE ExitLeavesNothing
    BY DEF ExitLeavesNothing
  <2>1. stdin = "closed" /\ queue = <<>> /\ stage = "idle" /\ current = 0
    BY DEF SInv, PcFits, ServerTypes
  <2>2. \A c \in strays \cup {child} : c.state = "running" => c.refused
    BY <2>1 DEF SInv, MInv, StageFits, StraysFit
  <2>3. Handled = 1..received
    <3>1. DOMAIN queue = {}
      BY <2>1
    <3>2. \A n \in 1..received : n # current
      BY <2>1
    <3>3. QED
      BY <3>1, <3>2 DEF Handled
  <2>4. QED
    BY <2>1, <2>2, <2>3 DEF ExitLeavesNothing
<1>2. QED
  BY <1>1, Invariance, PTL

=============================================================================
