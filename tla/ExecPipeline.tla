---------------------------- MODULE ExecPipeline ----------------------------
(***************************************************************************)
(* The two-phase commit around a mediated action.  A call of runExec or    *)
(* runFileExec first recovers an abandoned intent at the tail of the       *)
(* chain, then decides, and either records one denial or records the       *)
(* intent (phase A), acts, and records the result (phase B).  Calls of     *)
(* recordWitnessedExecution append one event for an action that a host     *)
(* ran by itself.  Many processes do this on one segment and may die at    *)
(* any point.                                                              *)
(*                                                                         *)
(* The chain is the ledger EventLog implements; one append is the start of *)
(* the write, when readers without the lock can see part of the line, and  *)
(* its end.  A write that comes back short is taken for a whole one, and   *)
(* the next append truncates its line.  An event keeps the base name of    *)
(* its outcome; the suffix `_with_error` is what its result field says.    *)
(***************************************************************************)
EXTENDS Naturals, FiniteSets, SequencesExt

CONSTANTS Proc, NoProc,
          Plans,       \* situations a call can be in, a subset of AllPlans
          Actions,     \* a subset of {"shell_command", "file_write"}
          TornKinds,   \* what of a line can be in the file while it is written
          MaxCalls,    \* bound: calls of runExec, runFileExec
          MaxRecords,  \* bound: calls of recordWitnessedExecution
          MaxCrashes,  \* bound: processes that die
          MaxShortWrites \* bound: writes that come back short

\* Mode of the call, whether policy packs are loaded, whether the operator
\* set WITSEAL_UNSAFE_ALLOW_NO_POLICY, and what the engine decides: with no
\* pack loaded it finds no rule and no default, and allows.
AllPlans == {pl \in [mode : {"gate", "witness"}, packs : BOOLEAN, escape : BOOLEAN,
                     decision : {"allow", "deny", "require-approval"}] :
               ~pl.packs => pl.decision = "allow"}

ASSUME ProcAssumption  == NoProc \notin Proc
ASSUME PlansAssumption == Plans \subseteq AllPlans
ASSUME ActionAssumption == Actions \subseteq {"shell_command", "file_write"}
ASSUME TornAssumption  == TornKinds # {} /\ TornKinds \subseteq {"partial", "whole"}
ASSUME BoundAssumption == {MaxCalls, MaxRecords, MaxCrashes, MaxShortWrites} \subseteq Nat

VARIABLES
  chain,       \* the complete lines
  torn,        \* what follows the last newline
  writer,      \* process inside the append critical section
  pc, job,     \* what each process is doing, on which call
  ids,         \* event ids generated
  calls, records, crashes,
  effects,     \* history: actions handed to the mediator
  ended,       \* history: calls whose process died or whose promise rejected
  wiped,       \* history: events whose unfinished lines were truncated
  cut,         \* history: events returned though their write was short
  overlapped   \* history: two calls were under way at once

fileVars == <<chain, torn, writer, ids, wiped, cut>>
vars == <<chain, torn, writer, pc, job, ids, calls, records, crashes, effects,
          ended, wiped, cut, overlapped>>

Null == "null"
NoRef == 0

Denials  == {"denied_by_approval", "denied_by_policy"}
Outcomes == Denials \cup {"pending", "execution_lost", "no_policy_configured",
              "allowed_executed", "witnessed_executed", "approved_executed"}

\* classified intent, decision, approval, result and back-reference.
Body == [outcome : Outcomes, call : Nat, decision : {"allow", "deny", "require-approval"},
         approval : {Null, "approved", "rejected"}, result : {Null, "ok", "error"},
         ref : Nat]

Ledger == INSTANCE ChainLedger WITH EventHash <- Nat \ {0}, Op <- {}, NoOp <- Null

Appending == {"lost", "deny", "phaseA", "phaseB", "observe"}
PCs == {"idle", "recover", "decide", "approval", "mediate", "running"} \cup Appending

NoPlan == [mode |-> "gate", packs |-> FALSE, escape |-> FALSE, decision |-> "allow"]
NoBody == [outcome |-> "pending", call |-> 0, decision |-> "allow",
           approval |-> Null, result |-> Null, ref |-> NoRef]
NoJob  == [call |-> 0, action |-> Null, since |-> 0, plan |-> NoPlan, body |-> NoBody]
NoEvent == [hash |-> Ledger!Genesis, prev |-> Ledger!Genesis, seq |-> 0, op |-> Null,
            body |-> NoBody]
NotTorn == [kind |-> "none", event |-> NoEvent]
TornEvents == IF torn.kind = "none" THEN {} ELSE {torn.event}

Pending(e)  == e.body.outcome = "pending"
Lost(e)     == e.body.outcome = "execution_lost"
Complete(e) == e.body.ref # NoRef /\ ~Lost(e)
\* An event that says its action was not run.
Denied(e)   == e.body.result = Null /\ ~Pending(e) /\ ~Lost(e)

Init ==
  /\ chain = <<>> /\ torn = NotTorn /\ writer = NoProc
  /\ pc = [p \in Proc |-> "idle"] /\ job = [p \in Proc |-> NoJob]
  /\ ids = 0 /\ calls = 0 /\ records = 0 /\ crashes = 0
  /\ effects = {} /\ ended = {} /\ wiped = {} /\ cut = {} /\ overlapped = FALSE

Goto(p, label) == pc' = [pc EXCEPT ![p] = label]

Begin(p, label, j) ==
  /\ pc[p] = "idle"
  /\ Goto(p, label)
  /\ job' = [job EXCEPT ![p] = j]
  /\ overlapped' = (overlapped \/ \E q \in Proc : pc[q] # "idle")

\* The call is over without a value: thrown, or gone with its process.
Abort(p) ==
  /\ Goto(p, "idle")
  /\ job' = [job EXCEPT ![p] = NoJob]
  /\ ended' = ended \cup ({job[p].call} \ {0})

-----------------------------------------------------------------------------
(* Step 0: recovery *)

StartExec(p, action) ==
  /\ calls < MaxCalls
  /\ calls' = calls + 1
  /\ Begin(p, "recover",
           [NoJob EXCEPT !.call = calls + 1, !.action = action, !.since = ids])
  /\ UNCHANGED <<fileVars, records, crashes, effects, ended>>

Lines == IF torn.kind = "whole" THEN Append(chain, torn.event) ELSE chain

\* The file is read piece by piece: bytes read before their line was truncated
\* are still what the call read.  Ids count up, and every truncation is
\* followed by a new id, so these are the events truncated since it began.
\* Pieces of one of them and of the line written over it, where they parse,
\* count as the truncated event.
Overtaken(p) == {e \in wiped : e.hash >= job[p].since}

\* The last events the read can give.
TailsRead(p) ==
  Overtaken(p) \cup (IF torn.kind = "partial" \/ Lines = <<>> THEN {} ELSE {Last(Lines)})

Recovered(p, label, body) ==
  /\ pc[p] = "recover"
  /\ Goto(p, label)
  /\ job' = [job EXCEPT ![p].since = 0, ![p].body = body]
  /\ UNCHANGED <<fileVars, calls, records, crashes, effects, ended, overlapped>>

\* A bug: the recovery event names the event before the abandoned one.
LostOfPrevious(e) == [e.body EXCEPT !.outcome = "execution_lost", !.ref = e.prev]

\* A bug: an outcome the event schema does not have.
LostMisnamed(e) == [e.body EXCEPT !.outcome = "lost", !.ref = e.hash]

\* The copy of the abandoned event that says it was lost.
LostBody(e) == [e.body EXCEPT !.outcome = "execution_lost", !.ref = e.hash]

\* The tail read without the lock is pending.
RecoveryFinds(p) ==
  \E e \in TailsRead(p) : Pending(e) /\ Recovered(p, "lost", LostBody(e))

\* A bug: the tail is not looked at.
RecoverySkipped(p) == Recovered(p, "decide", NoBody)

RecoveryNotNeeded(p) ==
  /\ \/ torn.kind # "partial" /\ Lines = <<>>
     \/ \E e \in TailsRead(p) : ~Pending(e)
  /\ Recovered(p, "decide", NoBody)

\* readAllEvents throws on part of a line, or on pieces of two, and so does
\* the call.
RecoveryThrows(p) ==
  /\ pc[p] = "recover"
  /\ torn.kind = "partial" \/ Overtaken(p) # {}
  /\ Abort(p)
  /\ UNCHANGED <<fileVars, calls, records, crashes, effects, overlapped>>

-----------------------------------------------------------------------------
(* Steps 1 to 5: policy, approval, block *)

\* The event the call emits next.
Draft(p, outcome, pl) ==
  [NoBody EXCEPT !.outcome = outcome, !.call = job[p].call, !.decision = pl.decision]

Decide(p, label, pl, body) ==
  /\ pc[p] = "decide"
  /\ Goto(p, label)
  /\ job' = [job EXCEPT ![p].plan = pl, ![p].body = body]
  /\ UNCHANGED <<fileVars, calls, records, crashes, effects, ended, overlapped>>

NoPolicyProceed(pl) == ~pl.packs /\ (pl.escape \/ pl.mode = "witness")

\* A bug: gate records the deny and goes on, as witness does.
NeverBlocks(pl) == FALSE

\* Gate blocks a deny; witness never blocks.
ApplyConstraint(pl) == pl.mode = "gate" /\ pl.decision = "deny"

NeedsApproval(pl) == pl.mode = "gate" /\ pl.decision = "require-approval"

FailClosedNoPolicy(p, pl) ==
  /\ ~pl.packs /\ ~NoPolicyProceed(pl)
  /\ Decide(p, "deny", pl, [Draft(p, "no_policy_configured", pl) EXCEPT !.decision = "deny"])

BlockByPolicy(p, pl) ==
  /\ pl.packs /\ ApplyConstraint(pl)
  /\ Decide(p, "deny", pl, Draft(p, "denied_by_policy", pl))

AskApproval(p, pl) ==
  /\ pl.packs /\ NeedsApproval(pl)
  /\ Decide(p, "approval", pl, Draft(p, "pending", pl))

\* A bug: the action runs before its intent is recorded.
ProceedUnrecorded(p, pl) ==
  /\ pl.packs \/ NoPolicyProceed(pl)
  /\ ~ApplyConstraint(pl) /\ ~NeedsApproval(pl)
  /\ Decide(p, "mediate", pl, Draft(p, "pending", pl))

Proceed(p, pl) ==
  /\ pl.packs \/ NoPolicyProceed(pl)
  /\ ~ApplyConstraint(pl) /\ ~NeedsApproval(pl)
  /\ Decide(p, "phaseA", pl, Draft(p, "pending", pl))

\* The answer comes from a terminal, the CI allow-list or the callback stub.
ObtainApproval(p, answer) ==
  /\ pc[p] = "approval"
  /\ Goto(p, IF answer = "approved" THEN "phaseA" ELSE "deny")
  /\ job' = [job EXCEPT ![p].body.approval = answer,
                        ![p].body.outcome =
                           IF answer = "approved" THEN "pending" ELSE "denied_by_approval"]
  /\ UNCHANGED <<fileVars, calls, records, crashes, effects, ended, overlapped>>

-----------------------------------------------------------------------------
(* Step 6b: the mediator *)

Mediate(p) ==
  /\ pc[p] = "mediate"
  /\ effects' = effects \cup {[call |-> job[p].call, plan |-> job[p].plan,
                               approval |-> job[p].body.approval]}
  /\ Goto(p, "running")
  /\ UNCHANGED <<fileVars, job, calls, records, crashes, ended, overlapped>>

\* A bug: the mode is forgotten.
OutcomeWithoutMode(pl, approved) ==
  IF NoPolicyProceed(pl) THEN "no_policy_configured"
  ELSE IF pl.decision = "allow" THEN "allowed_executed"
  ELSE IF approved THEN "approved_executed"
  ELSE "denied_by_policy"

ComputeOutcome(pl, approved) ==
  IF NoPolicyProceed(pl) THEN "no_policy_configured"
  ELSE IF pl.decision = "allow" THEN "allowed_executed"
  ELSE IF pl.mode = "witness" THEN "witnessed_executed"
  ELSE IF approved THEN "approved_executed"
  ELSE "denied_by_policy"

Returns(p, result) ==
  LET outcome == ComputeOutcome(job[p].plan, job[p].body.approval # Null) IN
  /\ pc[p] = "running"
  /\ job' = [job EXCEPT ![p].body.outcome = outcome, ![p].body.result = result]
  /\ Goto(p, "phaseB")
  /\ UNCHANGED <<fileVars, calls, records, crashes, effects, ended, overlapped>>

\* The command runs as long as it likes, or until its timeout.
MediateShellReturns(p, result) == job[p].action = "shell_command" /\ Returns(p, result)

MediateFileReturns(p, result) == job[p].action = "file_write" /\ Returns(p, result)

-----------------------------------------------------------------------------
(* recordWitnessedExecution *)

\* The host ran the action; decision and outcome are annotations.
Record(p, pl, result) ==
  /\ records < MaxRecords
  /\ records' = records + 1
  /\ Begin(p, "observe",
       [NoJob EXCEPT !.body =
          [NoBody EXCEPT !.result = result,
             !.decision = IF pl.packs THEN pl.decision ELSE "deny",
             !.outcome = IF ~pl.packs THEN "no_policy_configured"
                         ELSE IF pl.decision = "allow" THEN "allowed_executed"
                         ELSE "witnessed_executed"]])
  /\ UNCHANGED <<fileVars, calls, crashes, effects, ended>>

-----------------------------------------------------------------------------
(* Appending an event, whichever *)

\* A bug: the head is read before the torn tail is truncated.
BeginUnhealed(p, kind) ==
  /\ pc[p] \in Appending
  /\ writer = NoProc
  /\ writer' = p
  /\ ids' = ids + 1
  /\ wiped' = wiped \cup TornEvents
  /\ torn' = [kind |-> kind,
              event |-> Ledger!NextEvent(Lines, ids + 1, Null, job[p].body)]
  /\ UNCHANGED <<chain, pc, job, cut, calls, records, crashes, effects, ended, overlapped>>

\* A bug: phase B is written only if the intent is still the tail.
BeginIfTail(p, kind) ==
  /\ pc[p] \in Appending
  /\ pc[p] = "phaseB" => chain # <<>> /\ Last(chain).hash = job[p].body.ref
  /\ writer = NoProc
  /\ writer' = p
  /\ ids' = ids + 1
  /\ wiped' = wiped \cup TornEvents
  /\ torn' = [kind |-> kind,
              event |-> Ledger!NextEvent(chain, ids + 1, Null, job[p].body)]
  /\ UNCHANGED <<chain, pc, job, cut, calls, records, crashes, effects, ended, overlapped>>

\* Under the lock the torn tail is truncated, whatever it is, the draft gets
\* the head found there, and writing starts.
BeginAppend(p, kind) ==
  /\ pc[p] \in Appending
  /\ writer = NoProc
  /\ writer' = p
  /\ ids' = ids + 1
  /\ wiped' = wiped \cup TornEvents
  /\ torn' = [kind |-> kind,
              event |-> Ledger!NextEvent(chain, ids + 1, Null, job[p].body)]
  /\ UNCHANGED <<chain, pc, job, cut, calls, records, crashes, effects, ended, overlapped>>

\* A bug: no return after the denial is emitted.
DenialFallsThrough(p) ==
  CASE pc[p] = "lost"             -> "decide"
    [] pc[p] = "phaseA"           -> "mediate"
    [] pc[p] = "deny"             -> "phaseA"
    [] OTHER                      -> "idle"

\* Where the call goes when its event is in the chain.
AfterAppend(p) ==
  CASE pc[p] = "lost"   -> "decide"
    [] pc[p] = "phaseA" -> "mediate"
    [] OTHER            -> "idle"

\* A bug: the reference is to the event before the intent.
ReferenceToHead(p) ==
  IF AfterAppend(p) = "idle" THEN NoJob
  ELSE [job[p] EXCEPT !.body.ref = torn.event.prev]

\* Phase B will refer to the event phase A returns.
JobAfterAppend(p) ==
  IF AfterAppend(p) = "idle" THEN NoJob
  ELSE [job[p] EXCEPT !.body.ref = torn.event.hash]

\* The append returns: the lock is released and the call goes on.
Appended(p) ==
  /\ writer = p
  /\ writer' = NoProc
  /\ Goto(p, AfterAppend(p))
  /\ job' = [job EXCEPT ![p] = JobAfterAppend(p)]
  /\ UNCHANGED <<ids, calls, records, crashes, effects, ended, wiped, overlapped>>

EndAppend(p) ==
  /\ Appended(p)
  /\ chain' = Append(chain, torn.event)
  /\ torn' = NotTorn
  /\ UNCHANGED cut

\* writeSync wrote less than the line and says so; nobody looks.
EndShort(p) ==
  /\ Appended(p)
  /\ Cardinality(cut) < MaxShortWrites
  /\ cut' = cut \cup {torn.event}
  /\ UNCHANGED <<chain, torn>>

\* The lock stays taken for the whole timeout: the append throws.
AcquireTimeout(p) ==
  /\ pc[p] \in Appending
  /\ writer \notin {p, NoProc}
  /\ Abort(p)
  /\ UNCHANGED <<fileVars, calls, records, crashes, effects, overlapped>>

\* Killed anywhere; the lock goes with the process, the bytes stay.  A call
\* that rejects on an unreadable policy pack, a terminal it cannot open or a
\* full disk leaves the same state.
Die(p) ==
  /\ pc[p] # "idle"
  /\ crashes < MaxCrashes
  /\ crashes' = crashes + 1
  /\ writer' = IF writer = p THEN NoProc ELSE writer
  /\ Abort(p)
  /\ UNCHANGED <<chain, torn, ids, calls, records, effects, wiped, cut, overlapped>>

\* The same between the truncation of another's line and one's own write.
DieHealed(p) ==
  /\ pc[p] \in Appending
  /\ writer = NoProc
  /\ torn.kind # "none"
  /\ crashes < MaxCrashes
  /\ crashes' = crashes + 1
  /\ ids' = ids + 1
  /\ wiped' = wiped \cup TornEvents
  /\ torn' = NotTorn
  /\ Abort(p)
  /\ UNCHANGED <<chain, writer, cut, calls, records, effects, overlapped>>

-----------------------------------------------------------------------------
\* What a running call does by itself, without the user or the command.
Run(p) ==
  \/ RecoveryFinds(p) \/ RecoveryNotNeeded(p) \/ RecoveryThrows(p)
  \/ \E pl \in Plans : \/ FailClosedNoPolicy(p, pl) \/ BlockByPolicy(p, pl)
                       \/ AskApproval(p, pl) \/ Proceed(p, pl)
  \/ Mediate(p)
  \/ \E result \in {"ok", "error"} : MediateFileReturns(p, result)
  \/ \E kind \in TornKinds : BeginAppend(p, kind)
  \/ EndAppend(p) \/ EndShort(p)
  \/ AcquireTimeout(p)

Environment(p) ==
  \/ \E action \in Actions : StartExec(p, action)
  \/ \E pl \in Plans, result \in {"ok", "error"} : Record(p, pl, result)
  \/ \E answer \in {"approved", "rejected"} : ObtainApproval(p, answer)
  \/ \E result \in {"ok", "error"} : MediateShellReturns(p, result)
  \/ Die(p) \/ DieHealed(p)

Next == \E p \in Proc : Run(p) \/ Environment(p)

Spec == Init /\ [][Next]_vars

FairSpec == Spec /\ \A p \in Proc : WF_vars(Run(p))

-----------------------------------------------------------------------------
(* Properties *)

TypeOK ==
  /\ \A i \in DOMAIN chain : chain[i].hash \in 1..ids /\ chain[i].body \in Body
  /\ torn.kind \in TornKinds \cup {"none"}
  /\ writer \in Proc \cup {NoProc}
  /\ pc \in [Proc -> PCs]
  /\ job \in [Proc -> [call : 0..MaxCalls, action : Actions \cup {Null},
                       since : Nat, plan : AllPlans, body : Body]]
  /\ ids \in Nat /\ calls \in 0..MaxCalls
  /\ records \in 0..MaxRecords /\ crashes \in 0..MaxCrashes
  /\ ended \subseteq 1..MaxCalls /\ overlapped \in BOOLEAN

Logged == {chain[i] : i \in DOMAIN chain}

\* No action reaches the mediator before its intent, with the approval it was
\* given, is in the chain for good (runExec phase A).  The exception is an
\* intent whose write came back short: phase A returned it all the same.
IntentBeforeEffect ==
  \A f \in effects : \E e \in Logged \cup cut :
    Pending(e) /\ e.body.call = f.call /\ e.body.approval = f.approval

\* In gate mode an action runs only if a loaded policy allows it or a
\* principal approved it, or no policy is loaded and the operator opted in
\* (applyConstraint, obtainApproval, the fail-closed branch).
EffectsAuthorised ==
  \A f \in effects :
    \/ f.plan.mode = "witness"
    \/ f.plan.packs /\ f.plan.decision = "allow"
    \/ f.plan.packs /\ f.plan.decision = "require-approval" /\ f.approval = "approved"
    \/ ~f.plan.packs /\ f.plan.escape

\* An event that denies an action is the only event of its call, and the
\* action never runs: not after the denial, not before it.
DenialIsFinal ==
  \A i \in DOMAIN chain : Denied(chain[i]) =>
    /\ \A f \in effects : f.call # chain[i].body.call
    /\ \A j \in DOMAIN chain : chain[j].body.call = chain[i].body.call => j = i

\* The intent body refers to, and says it belongs to the same call.
IntentOf(body, e) == Pending(e) /\ e.hash = body.ref /\ e.body.call = body.call

\* A completion event refers to an earlier intent of its own call, at most
\* one completion refers to each intent, and the action did run.  The exception
\* is an intent whose write came back short, and which phase B's own append
\* truncates.
CompletionBacked ==
  \A i \in DOMAIN chain : Complete(chain[i]) =>
    /\ \/ \E j \in 1..(i - 1) : IntentOf(chain[i].body, chain[j])
       \/ \E e \in cut \cap wiped : IntentOf(chain[i].body, e)
    /\ \A j \in DOMAIN chain :
          Complete(chain[j]) /\ chain[j].body.ref = chain[i].body.ref => j = i
    /\ \E f \in effects : f.call = chain[i].body.call

\* The outcome of a completion tells how the action came to run: allowed,
\* approved, let through by witness mode, or without any policy
\* (computeOutcome).
OutcomeTellsEnforcement ==
  \A i \in DOMAIN chain, f \in effects :
    Complete(chain[i]) /\ chain[i].body.call = f.call =>
      chain[i].body.outcome =
        IF ~f.plan.packs THEN "no_policy_configured"
        ELSE IF f.plan.decision = "allow" THEN "allowed_executed"
        ELSE IF f.plan.mode = "gate" THEN "approved_executed"
        ELSE "witnessed_executed"

\* A lost event refers to an earlier intent of its call in the chain.  The
\* exceptions are intents that were only an unfinished line when recovery read
\* it, truncated since: one of a call that ended in mid-write, and its action
\* never ran, or one whose write came back short, and its action may have run.
LostBacked ==
  \A i \in DOMAIN chain : Lost(chain[i]) =>
    \/ \E j \in 1..(i - 1) : IntentOf(chain[i].body, chain[j])
    \/ \E e \in wiped :
         /\ IntentOf(chain[i].body, e)
         /\ \/ e \in cut
            \/ e.body.call \in ended /\ \A f \in effects : f.call # e.body.call

\* Used one call at a time, with no events but exec's, the chain pairs up:
\* what follows an intent resolves it, whatever crashed.  The exception is an
\* intent whose resolution was an unfinished line, truncated since.
SerialCallsPairUp ==
  ~overlapped /\ records = 0 =>
    \A i \in 1..(Len(chain) - 1) : Pending(chain[i]) =>
      \E e \in {chain[i + 1]} \cup wiped : e.body.ref = chain[i].hash

\* Every change of the chain is a step of the ledger EventLog implements: the
\* head a draft got under the lock is still the head when its line is
\* complete, and its id is new.
ImplementsLedger ==
  Ledger!Init /\ [][Ledger!Extend(torn.event.hash, Null, torn.event.body)]_chain

\* A result that came back from the mediator gets into the chain, unless the
\* process dies, its append throws, or its write comes back short.
ResultsAreSealed ==
  \A c \in 1..MaxCalls :
    (\E p \in Proc : pc[p] = "phaseB" /\ job[p].call = c)
      ~> \/ c \in ended
         \/ \E e \in Logged \cup cut : Complete(e) /\ e.body.call = c

-----------------------------------------------------------------------------
(* What the comments and documents say, and the code does not keep *)

\* Of the processes that recover one abandoned intent, one records it.
OneLostPerIntent ==
  \A i, j \in DOMAIN chain :
    Lost(chain[i]) /\ Lost(chain[j]) /\ chain[i].body.ref = chain[j].body.ref => i = j

\* Only a call that crashed is recorded as lost.
LostMeansDead == \A i \in DOMAIN chain : Lost(chain[i]) => chain[i].body.call \in ended

\* A call that gets past recovery leaves no intent of a crashed call
\* unresolved, even if all it read were finished lines.
NextExecRecovers ==
  [][\A p \in Proc :
       pc[p] = "recover" /\ pc'[p] = "decide" /\ torn.kind = "none" /\ Overtaken(p) = {} =>
       \A i \in DOMAIN chain : Pending(chain[i]) /\ chain[i].body.call \in ended =>
         \E j \in DOMAIN chain : chain[j].body.ref = chain[i].hash]_vars
=============================================================================
